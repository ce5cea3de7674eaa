---------------------------- MODULE AnswerStream ----------------------------
(***************************************************************************)
(* What the assistant promises a client who asks for the results of a job:   *)
(* the order of the server-sent events of one stream                         *)
(* (api/src/assistant/lib/sse-formatter.ts).                                 *)
(*                                                                           *)
(* Any number of thoughts, tool calls with their results, and configurations; *)
(* a title at most, then the usage; or an error; and "done" as the last one.  *)
(***************************************************************************)
VARIABLES phase, heard   \* where the stream is, and the event that was sent last

stream == <<phase, heard>>

Answering == {"thinking", "tool_call", "tool_result", "config"}
Silent == phase = "silent" /\ heard = "nothing"

Hear(e, from, to) == phase \in from /\ phase' = to /\ heard' = e

\* A result follows its call, unless the tool failed; a configuration follows a result, or comes
\* first when it is that of a job done before.
Say ==
  \E e \in Answering :
    /\ e = "tool_result" => heard = "tool_call"
    /\ e = "config" => heard \in {"tool_result", "nothing"}
    /\ Hear(e, {"silent", "answering"}, "answering")
Title == Hear("title", {"answering"}, "titled")
Usage == Hear("usage", {"silent", "answering", "titled"}, "counted")
Failure == Hear("error", {"silent", "answering"}, "failed")
Done == Hear("done", {"silent", "answering", "counted", "failed"}, "ended")

StreamNext == Say \/ Title \/ Usage \/ Failure \/ Done
StreamSpec == Silent /\ [][StreamNext]_stream
=============================================================================
