------------------------------- MODULE Volume -------------------------------
(* The volume slider of the lock screen, which follows whatever output       *)
(* device is the default of the desktop's audio service.                     *)
EXTENDS Naturals, Sequences, FiniteSets

CONSTANTS Sink, MaxAudioInbox, MaxCalls \* nothing new happens while more is under way

(* The path of no sink is the path of none.                                  *)
ASSUME VolumeAssumption == "/" \notin Sink

VARIABLES
  audioUp, defaultSink, sinks,  \* the service, and the truth
  audioCalls,                   \* not yet answered: it serves them in any order
  audioInbox,
  volumeShown,                  \* whether SystemVolume exists
  sink_, volume_                \* of what it shows: [volume, muted]

audioVars == <<audioUp, defaultSink, sinks>>
volumeVars == <<audioVars, audioCalls, audioInbox, volumeShown, sink_, volume_>>

NoSink == "/"
Level == [volume : {0, 1}, muted : BOOLEAN]
Loud == [volume |-> 1, muted |-> FALSE]

VolumeInit ==
  /\ audioUp = FALSE /\ defaultSink = NoSink /\ sinks = [s \in Sink |-> Loud]
  /\ audioCalls = {} /\ audioInbox = <<>>
  /\ volumeShown = FALSE /\ sink_ = NoSink /\ volume_ = Loud

FewCalls == Cardinality(audioCalls) < MaxCalls

Hears(cond, message) ==
  /\ Len(audioInbox) < MaxAudioInbox
  /\ audioInbox' = IF cond THEN Append(audioInbox, message) ELSE audioInbox

-----------------------------------------------------------------------------
(* The audio service (external).                                             *)
AudioStarts ==
  /\ FewCalls /\ ~audioUp /\ audioUp' = TRUE
  /\ Hears(volumeShown, [type |-> "NameOwnerChanged", up |-> TRUE])
  /\ UNCHANGED <<defaultSink, sinks, audioCalls, volumeShown, sink_, volume_>>

AudioQuits ==
  /\ audioUp /\ audioUp' = FALSE /\ audioCalls' = {}
  /\ Hears(volumeShown, [type |-> "NameOwnerChanged", up |-> FALSE])
  /\ UNCHANGED <<defaultSink, sinks, volumeShown, sink_, volume_>>

DefaultSinkChanges ==
  /\ FewCalls /\ audioUp /\ defaultSink' \in (Sink \cup {NoSink}) \ {defaultSink}
  /\ Hears(volumeShown, [type |-> "DefaultSink", sink |-> defaultSink'])
  /\ UNCHANGED <<audioUp, sinks, audioCalls, volumeShown, sink_, volume_>>

(* Only the signals of the sink that is followed are delivered.              *)
SinkSets(s, level) ==
  /\ sinks' = [sinks EXCEPT ![s] = level]
  /\ Hears(s = sink_ /\ level # sinks[s], [type |-> "Level", level |-> level])

SinkChanges ==
  /\ FewCalls /\ audioUp
  /\ \E s \in Sink, level \in Level : level # sinks[s] /\ SinkSets(s, level)
  /\ UNCHANGED <<audioUp, defaultSink, audioCalls, volumeShown, sink_, volume_>>

AudioAnswers ==
  /\ \E c \in audioCalls :
       /\ audioCalls' = audioCalls \ {c}
       /\ CASE c.type = "GetAll" ->
                 Hears(TRUE, [type |-> "DefaultSink", sink |-> defaultSink]) /\ UNCHANGED sinks
            [] c.type = "GetSink" ->
                 /\ Hears(TRUE, [type |-> "SinkReply", sink |-> c.sink, level |-> sinks[c.sink]])
                 /\ UNCHANGED sinks
            [] c.type = "SetVolume" -> SinkSets(c.sink, [sinks[c.sink] EXCEPT !.volume = c.volume])
            [] c.type = "SetMute" -> SinkSets(c.sink, [sinks[c.sink] EXCEPT !.muted = c.muted])
  /\ UNCHANGED <<audioUp, defaultSink, volumeShown, sink_, volume_>>

-----------------------------------------------------------------------------
(* A call to a service that is not there fails.                              *)
Calls(calls) == audioCalls \cup IF audioUp THEN calls ELSE {}
connectService == audioCalls' = Calls({[type |-> "GetAll"]})

SystemVolumeStarts ==
  /\ ~volumeShown /\ volumeShown' = TRUE
  /\ connectService
  /\ UNCHANGED <<audioVars, audioInbox, sink_, volume_>>

setSink(s) ==
  /\ sink_' = s
  /\ audioCalls' =
       IF s \in {sink_, NoSink} THEN audioCalls ELSE Calls({[type |-> "GetSink", sink |-> s]})

(* Mutant: the reply of a sink that is no longer the default counts.         *)
IsRequestedOfAny(s) == sink_ # NoSink
IsRequested(s) == s = sink_

AudioDelivers ==
  /\ audioInbox # <<>> /\ audioInbox' = Tail(audioInbox)
  /\ LET message == Head(audioInbox) IN
     \/ /\ message.type = "NameOwnerChanged"
        /\ IF message.up THEN connectService /\ UNCHANGED sink_ ELSE setSink(NoSink)
        /\ UNCHANGED volume_
     \/ message.type = "DefaultSink" /\ setSink(message.sink) /\ UNCHANGED volume_
     \/ /\ message.type = "SinkReply" /\ IsRequested(message.sink)
        /\ volume_' = message.level /\ UNCHANGED <<audioCalls, sink_>>
     \/ /\ message.type = "SinkReply" /\ ~IsRequested(message.sink)
        /\ UNCHANGED <<audioCalls, sink_, volume_>>
     \/ message.type = "Level" /\ volume_' = message.level /\ UNCHANGED <<audioCalls, sink_>>
  /\ UNCHANGED <<audioVars, volumeShown>>

(* Shown at once; raising the volume also unmutes.                           *)
SetVolume ==
  /\ FewCalls /\ sink_ # NoSink
  /\ \E v \in {0, 1} :
       LET unmute == volume_.muted /\ v > 0 IN
       /\ audioCalls' = Calls({[type |-> "SetVolume", sink |-> sink_, volume |-> v]} \cup
            IF unmute THEN {[type |-> "SetMute", sink |-> sink_, muted |-> FALSE]} ELSE {})
       /\ volume_' = [volume |-> v, muted |-> volume_.muted /\ ~unmute]
  /\ UNCHANGED <<audioVars, audioInbox, volumeShown, sink_>>

SetMuted ==
  /\ FewCalls /\ sink_ # NoSink
  /\ \E muted \in BOOLEAN :
       /\ audioCalls' = Calls({[type |-> "SetMute", sink |-> sink_, muted |-> muted]})
       /\ volume_' = [volume_ EXCEPT !.muted = muted]
  /\ UNCHANGED <<audioVars, audioInbox, volumeShown, sink_>>

VolumeNext ==
  \/ AudioStarts \/ AudioQuits \/ DefaultSinkChanges \/ SinkChanges \/ AudioAnswers
  \/ SystemVolumeStarts \/ AudioDelivers
  \/ SetVolume \/ SetMuted

(* When everything said is heard, what is shown is the default sink, and its *)
(* volume: neither that of a sink that was the default when it was asked,    *)
(* nor one that was set and has not come to pass.                            *)
VolumeFollows ==
  (volumeShown /\ audioCalls = {} /\ audioInbox = <<>>) =>
    /\ sink_ = IF audioUp THEN defaultSink ELSE NoSink
    /\ sink_ # NoSink => volume_ = sinks[sink_]
=============================================================================
