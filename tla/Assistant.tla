----------------------------- MODULE Assistant ------------------------------
(***************************************************************************)
(* The server side of the AI assistant (api/src/assistant): jobs in memory,  *)
(* the streams that ask for their results, and the limits of a workspace's   *)
(* integration.  The first stream of a job runs it; the model and the tools  *)
(* it calls are outside.  All text of one answer of the model counts as one  *)
(* thought.                                                                  *)
(***************************************************************************)
EXTENDS Integers, Sequences, FiniteSets

CONSTANTS
  Jobs,         \* bound: jobs that are created
  Streams,      \* bound: requests for the results of a job
  MaxRequests,  \* limits.max_requests_per_hour
  MaxTokens,    \* limits.max_tokens_per_day
  Hours,        \* hours of a day
  MaxHours,     \* bound: hours that pass
  MaxRounds     \* bound: answers of the model within MAX_STREAM_DURATION_MS

VARIABLES
  job,      \* what is known of each job, see NewJob; or none
  stored,   \* the jobs in jobStore
  run,      \* for each stream: where the request is, see Streaming
  sent,     \* for each stream: its phase and last event, as in AnswerStream
  usage,    \* UsageEntry: [requests, tokens, since]
  hour,
  \* History variables: they record the past and guard nothing.
  finished, \* jobs that were run to their end
  spent     \* the tokens the finished runs took, by the hour

asVars == <<job, stored, run, sent, usage, hour, finished, spent>>

Nobody == [status |-> "none"]
NewJob(title) == [status |-> "pending", result |-> FALSE, text |-> FALSE, title |-> title,
                  expired |-> FALSE]
NotYet == [at |-> "new"]
Gone == [at |-> "ended"]
Sum(f) == LET S[n \in 0..MaxHours] == f[n] + IF n = 0 THEN 0 ELSE S[n - 1] IN S[MaxHours]

AsInit ==
  /\ job = [j \in Jobs |-> Nobody] /\ stored = {}
  /\ run = [s \in Streams |-> NotYet]
  /\ sent = [s \in Streams |-> [phase |-> "silent", heard |-> "nothing"]]
  /\ usage = [requests |-> 0, tokens |-> 0, since |-> 0] /\ hour = 0
  /\ finished = {} /\ spent = [h \in 0..MaxHours |-> 0]

-----------------------------------------------------------------------------
\* rate-limiter.ts

\* maybeResetCounters: the time of the last reset is the same for both counters.
Refreshed(u) ==
  CASE hour - u.since >= Hours -> [requests |-> 0, tokens |-> 0, since |-> hour]
    [] hour - u.since \in 1..Hours - 1 -> [u EXCEPT !.requests = 0, !.since = hour]
    [] OTHER -> u

WithinLimits(u) == u.requests < MaxRequests /\ u.tokens < MaxTokens
Used(u, tokens) == [Refreshed(u) EXCEPT !.requests = @ + 1, !.tokens = @ + tokens]

\* createJob; RateLimitException otherwise.
CreateJob(j) ==
  /\ job[j] = Nobody
  /\ usage' = Refreshed(usage)
  /\ IF WithinLimits(usage')
     THEN /\ \E title \in BOOLEAN : job' = [job EXCEPT ![j] = NewJob(title)]
          /\ stored' = stored \cup {j}
     ELSE UNCHANGED <<job, stored>>
  /\ UNCHANGED <<run, sent, hour, finished, spent>>

-----------------------------------------------------------------------------
\* streamJob

Sent(s, e, p) == [sent EXCEPT ![s] = [phase |-> p, heard |-> e]]
Goes(s, q) == run' = [run EXCEPT ![s] = q]
NoUsage == UNCHANGED <<usage, hour, finished, spent>>

Answered(j) == job[j].status = "completed" /\ job[j].result
Forgotten(j) == j \notin stored \/ job[j].expired
RefusalOfDone(j) == IF Forgotten(j) \/ job[j].status = "error" THEN "error"   \* mutant: one that is running is run again
                    ELSE IF Answered(j) THEN "config" ELSE "run"
Refusal(j) == IF Forgotten(j) \/ job[j].status = "error" THEN "error"
              ELSE IF Answered(j) THEN "config"
              ELSE IF job[j].status # "running" THEN "run"
              ELSE IF job[j].text THEN "thinking" ELSE "nothing"

\* No such job, or it has expired, or its outcome is known, or another stream runs it: one event
\* at most, then done.
OpenShort(s, j) ==
  /\ run[s] = NotYet /\ job[j] # Nobody /\ Refusal(j) # "run"
  /\ Goes(s, [at |-> "closing", job |-> j])
  /\ \/ Refusal(j) = "error" /\ sent' = Sent(s, "error", "failed")
     \/ Refusal(j) = "nothing" /\ sent' = sent
     \/ Refusal(j) \in {"config", "thinking"} /\ sent' = Sent(s, Refusal(j), "answering")
  /\ stored' = (IF job[j].expired THEN stored \ {j} ELSE stored)
  /\ UNCHANGED job /\ NoUsage

OpenToRun(s, j) ==
  /\ run[s] = NotYet /\ job[j] # Nobody /\ Refusal(j) = "run"
  /\ Goes(s, [at |-> "workspace", job |-> j, rounds |-> 0, tools |-> 0])
  /\ job' = [job EXCEPT ![j].status = "running"] /\ stored' = stored \cup {j}
  /\ UNCHANGED sent /\ NoUsage

\* finally: done, and the response ends.
Close(s) ==
  /\ run[s].at = "closing"
  /\ Goes(s, Gone) /\ sent' = Sent(s, "done", "ended")
  /\ UNCHANGED <<job, stored>> /\ NoUsage

-----------------------------------------------------------------------------
\* processJob

FailsToStart(s) ==   \* mutant: an error of the model, or the time, is not caught
  /\ run[s].at = "workspace"
  /\ job' = [job EXCEPT ![run[s].job].status = "error"] /\ stored' = stored \cup {run[s].job}
  /\ Goes(s, [at |-> "closing", job |-> run[s].job]) /\ sent' = Sent(s, "error", "failed")
  /\ NoUsage
\* The workspace cannot be read, it has no integration, the key cannot be decrypted, the model
\* fails, or two minutes have passed at the head of the loop.
Fails(s) ==
  /\ run[s].at \in {"workspace", "model"}
  /\ job' = [job EXCEPT ![run[s].job].status = "error"] /\ stored' = stored \cup {run[s].job}
  /\ Goes(s, [at |-> "closing", job |-> run[s].job]) /\ sent' = Sent(s, "error", "failed")
  /\ NoUsage

ReadWorkspace(s) ==
  /\ run[s].at = "workspace" /\ Goes(s, [run[s] EXCEPT !.at = "model"])
  /\ UNCHANGED <<job, stored, sent>> /\ NoUsage

\* on('text'): what the model says is kept for whoever asks again.
Think(s) ==
  /\ run[s].at = "model" /\ run[s].rounds < MaxRounds /\ sent[s].heard # "thinking"
  /\ job' = [job EXCEPT ![run[s].job].text = TRUE] /\ stored' = stored \cup {run[s].job}
  /\ sent' = Sent(s, "thinking", "answering")
  /\ UNCHANGED run /\ NoUsage

\* finalMessage: the model wants one or two tools run, or has finished.
WantTools(s) ==
  /\ run[s].at = "model" /\ run[s].rounds < MaxRounds
  /\ \E n \in 1..2 : Goes(s, [run[s] EXCEPT !.at = "tools", !.tools = n, !.rounds = @ + 1])
  /\ UNCHANGED <<job, stored, sent>> /\ NoUsage

Finish(s, q) == [q EXCEPT !.at = "title", !.tools = 0]

EndTurn(s) ==
  /\ run[s].at = "model" /\ run[s].rounds < MaxRounds
  /\ Goes(s, Finish(s, [run[s] EXCEPT !.rounds = @ + 1]))
  /\ UNCHANGED <<job, stored, sent>> /\ NoUsage

CallTool(s) ==
  /\ run[s].at = "tools" /\ run[s].tools > 0
  /\ Goes(s, [run[s] EXCEPT !.at = "tool"]) /\ sent' = Sent(s, "tool_call", "answering")
  /\ UNCHANGED <<job, stored>> /\ NoUsage

\* The remaining tools are run even after configure_explore.
ToolDone(s) == Goes(s, [run[s] EXCEPT !.at = "tools", !.tools = @ - 1])
ToolFailsLoudly(s) ==   \* mutant: the failure of a tool is sent to the client as the error of the stream
  /\ run[s].at = "tool" /\ ToolDone(s)
  /\ sent' = Sent(s, "error", "failed") /\ UNCHANGED <<job, stored>> /\ NoUsage
ToolFails(s) ==   \* the model is told; the client is not
  /\ run[s].at = "tool" /\ ToolDone(s)
  /\ UNCHANGED <<job, stored, sent>> /\ NoUsage
ToolSucceeds(s) ==
  /\ run[s].at = "tool"
  /\ \E configures \in BOOLEAN : Goes(s, [run[s] EXCEPT !.at = IF configures THEN "config" ELSE "tools",
                                                        !.tools = @ - 1])
  /\ sent' = Sent(s, "tool_result", "answering") /\ stored' = stored \cup {run[s].job}
  /\ UNCHANGED job /\ NoUsage
Configure(s) ==
  /\ run[s].at = "config"
  /\ job' = [job EXCEPT ![run[s].job] = [@ EXCEPT !.result = TRUE, !.status = "completed"]]
  /\ stored' = stored \cup {run[s].job}
  /\ Goes(s, [run[s] EXCEPT !.at = "tools"]) /\ sent' = Sent(s, "config", "answering")
  /\ NoUsage

ToolsDone(s) ==
  /\ run[s].at = "tools" /\ run[s].tools = 0
  /\ Goes(s, IF Answered(run[s].job) THEN Finish(s, run[s]) ELSE [run[s] EXCEPT !.at = "model"])
  /\ UNCHANGED <<job, stored, sent>> /\ NoUsage

\* generateTitle, if it was asked for and there is text; its failure is only logged.
GiveTitle(s) ==
  /\ run[s].at = "title" /\ job[run[s].job].title /\ job[run[s].job].text /\ sent[s].phase = "answering"
  /\ Goes(s, [run[s] EXCEPT !.at = "usage"]) /\ sent' = Sent(s, "title", "titled")
  /\ UNCHANGED <<job, stored>> /\ NoUsage
NoTitle(s) ==
  /\ run[s].at = "title" /\ Goes(s, [run[s] EXCEPT !.at = "usage"])
  /\ UNCHANGED <<job, stored, sent>> /\ NoUsage

\* The event, updateUsage and the status: one step.  Every answer of the model is one token here.
Account(s) ==
  /\ run[s].at = "usage"
  /\ usage' = Used(usage, run[s].rounds)
  /\ spent' = [spent EXCEPT ![hour] = @ + run[s].rounds]
  /\ job' = [job EXCEPT ![run[s].job].status = "completed"]
  /\ stored' = (IF job[run[s].job].status = "completed" THEN stored ELSE stored \cup {run[s].job})
  /\ finished' = finished \cup {run[s].job}
  /\ Goes(s, [at |-> "closing", job |-> run[s].job]) /\ sent' = Sent(s, "usage", "counted")
  /\ UNCHANGED hour

-----------------------------------------------------------------------------
\* Five minutes after it was created a job expires; a timer then forgets it.
Expires(j) ==
  /\ job[j] # Nobody /\ ~job[j].expired /\ job' = [job EXCEPT ![j].expired = TRUE]
  /\ UNCHANGED <<stored, run, sent>> /\ NoUsage
CleanUp(j) ==
  /\ j \in stored /\ job[j].expired /\ stored' = stored \ {j}
  /\ UNCHANGED <<job, run, sent>> /\ NoUsage

HourPasses ==
  /\ hour < MaxHours /\ hour' = hour + 1
  /\ UNCHANGED <<job, stored, run, sent, usage, finished, spent>>

Serve(s) ==
  \/ Close(s) \/ Fails(s) \/ ReadWorkspace(s) \/ Think(s) \/ WantTools(s) \/ EndTurn(s)
  \/ CallTool(s) \/ ToolFails(s) \/ ToolSucceeds(s) \/ Configure(s) \/ ToolsDone(s)
  \/ GiveTitle(s) \/ NoTitle(s) \/ Account(s)

AsNext ==
  \/ \E j \in Jobs : CreateJob(j) \/ Expires(j) \/ CleanUp(j)
  \/ \E s \in Streams, j \in Jobs : OpenShort(s, j) \/ OpenToRun(s, j)
  \/ \E s \in Streams : Serve(s)
  \/ HourPasses

AsSpec == AsInit /\ [][AsNext]_asVars

\* The model answers, tools and queries return: MAX_STREAM_DURATION_MS bounds the rounds.
AsFairSpec == AsSpec /\ \A s \in Streams : WF_asVars(Serve(s))

-----------------------------------------------------------------------------
\* A job is run by one stream at a time, whoever asks for it meanwhile, and one whose configuration
\* is known is not run for another stream, until it expires (assistant.service.ts, streamJob).
Running(s) == run[s].at \notin {"new", "closing", "ended"}
JobRunsOnce ==
  \A s, t \in Streams : s # t /\ Running(s) /\ Running(t) => run[s].job # run[t].job

\* Every request for a stream ends, whatever the model and the tools do (streamJob, finally).
EveryStreamEnds == \A s \in Streams : Running(s) ~> run[s] = Gone

\* Each stream is as AnswerStream promises: the requests together implement one AnswerStream each.
Stream(s) == INSTANCE AnswerStream WITH phase <- sent[s].phase, heard <- sent[s].heard
KeepsItsPromise ==
  /\ \A s \in Streams : Stream(s)!Silent
  /\ [][\A s \in Streams : sent'[s] = sent[s] \/ Stream(s)!StreamNext]_sent

=============================================================================
