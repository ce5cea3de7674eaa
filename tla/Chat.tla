-------------------------------- MODULE Chat --------------------------------
(***************************************************************************)
(* The console's side of the AI assistant: the chat that is shown            *)
(* (console/src/hooks/useAssistant.ts), the conversations that are kept in   *)
(* localStorage (useAssistantStorage.ts), and what keeps the two together    *)
(* (contexts/AssistantContext.tsx).  The server is as AnswerStream promises. *)
(*                                                                          *)
(* A handler, the render after it and the effects of that render are one     *)
(* step.  What a callback captured when it was made is kept with it.  The    *)
(* message of the user and the answer to it are one turn, named by the       *)
(* number of the prompt.                                                     *)
(***************************************************************************)
EXTENDS Integers, Sequences, SequencesExt

CONSTANTS
  MaxPrompts,   \* bound: prompts that are sent
  MaxConvs,     \* bound: conversations that are created
  MaxStored,    \* MAX_CONVERSATIONS
  MaxUpsets     \* bound: times the user selects, deletes or resets a conversation, the page is
                \* hidden or loaded again, or localStorage is full

ASSUME ChAssumption == MaxStored \in Nat

VARIABLES
  convs,    \* conversations: [id, turns], the one changed last first
  active,   \* activeConversationId, or 0
  localStore,   \* what is in localStorage: [convs, active]
  shown,    \* messages: turns [prompt, status]
  status,
  recent,   \* conversationHistoryRef: prompts, whose message is always complete
  synced,   \* lastSyncedMessageRef: the prompt of a turn, or 0
  call,     \* for each prompt sent: where its sendPrompt is, and whether it asked for a title
  onTitle,  \* onTitleRef: the conversations and the active one as the last prompt found them
  stream,   \* for each prompt: the phase and the last event of its stream
  created, upsets,   \* counted against their bounds
  \* History variables: they record the past and guard nothing.
  home,     \* for each prompt: the conversation it was sent in
  context,  \* for each prompt: the prompts that were sent with it
  crossed   \* the conversation was changed while a prompt was under way

kept == <<convs, active, localStore, synced>>
chat == <<shown, status, recent>>
bounds == <<created, upsets>>
chVars == <<kept, chat, call, onTitle, stream, bounds, home, context, crossed>>

Prompts == 1..Len(call)
IsStreaming == status \in {"connecting", "streaming"}
Over == [at |-> "over", titles |-> FALSE]
Silent == [phase |-> "silent", heard |-> "nothing"]
UnderWay(p) == call[p] # Over

Has(cs, id) == \E i \in DOMAIN cs : cs[i].id = id
IndexOf(cs, id) == CHOOSE i \in DOMAIN cs : cs[i].id = id
TurnsOf(cs, id) == IF Has(cs, id) THEN cs[IndexOf(cs, id)].turns ELSE <<>>
PromptsOf(turns) == {turns[i].prompt : i \in DOMAIN turns}
Nowhere == [convs |-> <<>>, active |-> 0]

ChInit ==
  /\ convs = <<>> /\ active = 0 /\ localStore = Nowhere
  /\ shown = <<>> /\ status = "idle" /\ recent = {} /\ synced = 0
  /\ call = <<>> /\ onTitle = Nowhere /\ stream = <<>>
  /\ created = 0 /\ upsets = 0
  /\ home = <<>> /\ context = <<>> /\ crossed = FALSE

-----------------------------------------------------------------------------
\* useAssistantStorage

Without(cs, id) == IF Has(cs, id) THEN RemoveAt(cs, IndexOf(cs, id)) ELSE cs

\* updateConversation: it becomes the one changed last, for persist sorts the list it was given.
Updated(cs, id, turns) ==
  IF Has(cs, id) THEN <<[id |-> id, turns |-> turns]>> \o Without(cs, id) ELSE cs

\* persist: the newest ones; half of them, or nothing, when localStorage is full.
Limited(cs) == SubSeq(cs, 1, IF Len(cs) < MaxStored THEN Len(cs) ELSE MaxStored)
Persist(cs, id, n) ==
  \/ localStore' = [convs |-> Limited(cs), active |-> id] /\ upsets' = upsets + n
  \/ LET reduced == SubSeq(Limited(cs), 1, (Len(Limited(cs)) + 1) \div 2)
     IN  /\ upsets' = upsets + n + 1 /\ upsets' <= MaxUpsets
         /\ localStore' \in {Nowhere,
                             [convs |-> reduced, active |-> IF Has(reduced, id) THEN id
                                                            ELSE IF reduced = <<>> THEN 0 ELSE reduced[1].id]}

-----------------------------------------------------------------------------
\* AssistantContext: the effects, after a render with these conversations and this chat.

\* Load: the chat is empty and the conversation is not.  Its last complete message counts as
\* synced; when the last answer is not complete, that is a message of the user.
SyncedWith(turns) == IF Last(turns).status = "complete" THEN Last(turns).prompt ELSE 0
Loads(cs, id, turns) == turns = <<>> /\ id # 0 /\ TurnsOf(cs, id) # <<>>

\* Sync: the last answer is settled and was not synced.
Syncs(id, turns, s) ==
  id # 0 /\ turns # <<>> /\ Last(turns).status \in {"complete", "error"} /\ Last(turns).prompt # s

\* What a handler sets: the conversations and the one that is active, the chat, and what counts
\* as synced.  The last write to localStorage counts: that of the effect, or the handler's.  The
\* step counts as n upsets.
Render(cs, id, turns, st, rec, syn, n, Write) ==
  LET loads == Loads(cs, id, turns)
      turns2 == IF loads THEN TurnsOf(cs, id) ELSE turns
      syn2 == IF loads THEN SyncedWith(turns2) ELSE syn
      syncs == Syncs(id, turns2, syn2)
  IN  /\ upsets + n <= MaxUpsets
      /\ shown' = turns2
      /\ status' = IF loads THEN "idle" ELSE st
      /\ recent' = IF loads THEN PromptsOf(turns2) ELSE rec
      /\ synced' = IF syncs THEN Last(turns2).prompt ELSE syn2
      /\ active' = id
      /\ convs' = IF syncs THEN Updated(cs, id, turns2) ELSE cs
      /\ IF syncs THEN Persist(convs', id, n) ELSE Write

\* The chat alone changes.
NoWrite == UNCHANGED <<localStore, upsets>>
Rerender(turns, st, rec) == Render(convs, active, turns, st, rec, synced, 0, NoWrite)

-----------------------------------------------------------------------------
\* The user.

WithNew == <<[id |-> created + 1, turns |-> <<>>]>> \o convs
Crossing == crossed' = (crossed \/ \E p \in Prompts : UnderWay(p))
NoCalls == UNCHANGED <<call, onTitle, stream, home, context>>

\* sendPrompt of the context, then of the chat: a conversation is created if there is none, the
\* prompt before this one is given up, if it has its stream, the turn is shown.  A title, whichever
\* prompt asked for it, is set with what was rendered before.
Send ==
  /\ Len(call) < MaxPrompts /\ ~IsStreaming
  /\ LET p == Len(call) + 1
         creates == active = 0
         id == IF creates THEN created + 1 ELSE active
         first == TurnsOf(convs, active) = <<>> /\ shown = <<>>
         dropped == {q \in Prompts : q = p - 1 /\ call[q].at \in {"open", "stream", "hidden"}}
         turns == Append(shown, [prompt |-> p, status |-> "pending"])
     IN  /\ creates => created < MaxConvs
         /\ created' = IF creates THEN created + 1 ELSE created
         /\ call' = Append([q \in Prompts |-> IF q \in dropped THEN Over ELSE call[q]],
                           [at |-> "job", titles |-> first])
         /\ onTitle' = [convs |-> convs, active |-> active]
         /\ stream' = Append([q \in Prompts |-> IF q \in dropped THEN Silent ELSE stream[q]], Silent)
         /\ home' = Append(home, id) /\ context' = Append(context, recent)
         /\ IF creates
            THEN Render(WithNew, id, turns, "connecting", recent \cup dropped, synced, 0, Persist(WithNew, id, 0))
            ELSE Rerender(turns, "connecting", recent \cup dropped)
  /\ UNCHANGED crossed

\* clearMessages of the chat.
ClearedRecent == {}

NewConversation ==
  /\ created < MaxConvs /\ created' = created + 1
  /\ Render(WithNew, created + 1, <<>>, "idle", ClearedRecent, synced, 0, Persist(WithNew, created + 1, 0))
  /\ Crossing /\ NoCalls

SelectQuietly(c) ==   \* mutant: the messages that are shown stay
  /\ Render(convs, c.id, shown, status, recent, 0, 1, Persist(convs, c.id, 1))
  /\ Crossing /\ NoCalls /\ UNCHANGED created
SelectConversation(c) ==
  /\ LET turns == c.turns
     IN  Render(convs, c.id, turns, "idle",
                IF turns = <<>> THEN ClearedRecent ELSE PromptsOf(turns),
                IF turns = <<>> THEN 0 ELSE SyncedWith(turns),
                1, Persist(convs, c.id, 1))
  /\ Crossing /\ NoCalls /\ UNCHANGED created

DeleteConversation(c) ==
  /\ LET rest == Without(convs, c.id)
         next == IF active # c.id THEN active ELSE IF rest = <<>> THEN 0 ELSE rest[1].id
     IN  IF active = c.id THEN Render(rest, next, <<>>, "idle", ClearedRecent, synced, 1, Persist(rest, next, 1))
         ELSE Render(rest, next, shown, status, recent, synced, 1, Persist(rest, next, 1))
  /\ Crossing /\ NoCalls /\ UNCHANGED created

\* The Reset button, there as soon as a message is.
ClearMessages ==
  /\ shown # <<>>
  /\ LET cs == Updated(convs, active, <<>>)
     IN  Render(cs, active, <<>>, "idle", ClearedRecent, 0, 1, Persist(cs, active, 1))
  /\ Crossing /\ NoCalls /\ UNCHANGED created

\* The page is loaded again: localStorage is what is left.
Reload ==
  /\ upsets < MaxUpsets /\ upsets' = upsets + 1
  /\ call' = [p \in Prompts |-> Over] /\ onTitle' = Nowhere /\ stream' = [p \in Prompts |-> Silent]
  /\ LET loads == Loads(localStore.convs, localStore.active, <<>>)
         turns == IF loads THEN TurnsOf(localStore.convs, localStore.active) ELSE <<>>
     IN  /\ convs' = localStore.convs /\ active' = localStore.active /\ shown' = turns
         /\ recent' = PromptsOf(turns)
         /\ synced' = IF loads THEN SyncedWith(turns) ELSE 0
  /\ status' = "idle"
  /\ Crossing /\ UNCHANGED <<localStore, home, context, created>>

-----------------------------------------------------------------------------
\* sendPrompt goes on.  It changes its own turn, if that is still shown.

Turned(p, s) ==
  [i \in DOMAIN shown |-> IF shown[i].prompt = p THEN [shown[i] EXCEPT !.status = s] ELSE shown[i]]
At(p, where) == call' = [call EXCEPT ![p].at = where]
Ends(p) == call' = [call EXCEPT ![p] = Over] /\ stream' = [stream EXCEPT ![p] = Silent]
Unasked == UNCHANGED <<onTitle, created, home, context, crossed>>

GetJob(p) ==
  /\ call[p].at = "job" /\ At(p, "open")
  /\ UNCHANGED <<kept, chat, stream, upsets>> /\ Unasked

\* onopen
Open(p) ==
  /\ call[p].at = "open" /\ At(p, "stream")
  /\ Rerender(shown, "streaming", recent)
  /\ UNCHANGED stream /\ Unasked

\* The job is refused, or the connection breaks: catch.
Break(p) ==
  /\ call[p].at \in {"job", "open", "stream"} /\ Ends(p)
  /\ Rerender(Turned(p, "error"), "error", recent)
  /\ Unasked

Promise(p) == INSTANCE AnswerStream WITH phase <- stream[p].phase, heard <- stream[p].heard
MayBeDone == {"silent", "answering", "counted", "failed"}   \* where AnswerStream!Done can happen
Hears(p, e) ==
  /\ call[p].at = "stream"
  /\ \E f \in {"silent", "answering", "titled", "counted", "failed"} :
       stream' = [stream EXCEPT ![p] = [phase |-> f, heard |-> e]]
  /\ stream'[p] # stream[p] /\ Promise(p)!StreamNext

\* thinking; the events of the tools change nothing that is modelled here, and usage counts.
HearThought(p) ==
  /\ Hears(p, "thinking") /\ UNCHANGED call
  /\ Rerender(Turned(p, "streaming"), status, recent) /\ Unasked
HearMore(p) ==
  /\ \E e \in {"tool_call", "tool_result", "usage"} : Hears(p, e)
  /\ UNCHANGED <<call, kept, chat, upsets>> /\ Unasked
HearConfig(p) ==
  /\ Hears(p, "config")
  /\ Rerender(Turned(p, "complete"), status, recent) /\ UNCHANGED call /\ Unasked
HearError(p) ==
  /\ Hears(p, "error")
  /\ Rerender(Turned(p, "error"), "error", recent) /\ UNCHANGED call /\ Unasked

\* setTitle as it was when the last prompt was sent: the conversation that was active then, among
\* the conversations there were.
HearTitle(p) ==
  /\ call[p].titles /\ Hears(p, "title")
  /\ IF onTitle.active = 0 THEN UNCHANGED <<kept, chat, upsets>>
     ELSE LET cs == Updated(onTitle.convs, onTitle.active, TurnsOf(onTitle.convs, onTitle.active))
          IN  Render(cs, active, shown, status, recent, synced, 0, Persist(cs, onTitle.active, 0))
  /\ UNCHANGED call /\ Unasked

HearDoneQuietly(p) ==   \* mutant: the status stays
  /\ call[p].at = "stream" /\ stream[p].phase \in MayBeDone
  /\ Ends(p)
  /\ Rerender(Turned(p, "complete"), status, recent \cup {p})
  /\ Unasked
\* done, and the end of the stream.
HearDone(p) ==
  /\ call[p].at = "stream" /\ stream[p].phase \in MayBeDone
  /\ Ends(p)
  /\ Rerender(Turned(p, "complete"), "done", recent \cup {p})
  /\ Unasked

\* fetchEventSource ends its requests when the page is hidden, and makes them again.
HidePage ==
  /\ upsets < MaxUpsets /\ upsets' = upsets + 1
  /\ \E p \in Prompts : call[p].at \in {"open", "stream"}
  /\ call' = [p \in Prompts |-> IF call[p].at \in {"open", "stream"} THEN [call[p] EXCEPT !.at = "hidden"]
                                ELSE call[p]]
  /\ UNCHANGED <<kept, chat, onTitle, stream, created, home, context, crossed>>
ShowPage ==
  /\ \E p \in Prompts : call[p].at = "hidden"
  /\ call' = [p \in Prompts |-> IF call[p].at = "hidden" THEN [call[p] EXCEPT !.at = "open"] ELSE call[p]]
  /\ stream' = [p \in Prompts |-> IF call[p].at = "hidden" THEN Silent
                                  ELSE stream[p]]
  /\ UNCHANGED <<kept, chat, onTitle, bounds, home, context, crossed>>

\* The list of conversations.
HistoryView == \E i \in DOMAIN convs : SelectConversation(convs[i]) \/ DeleteConversation(convs[i])
User == Send \/ NewConversation \/ ClearMessages \/ HistoryView
Proceeds(p) ==
  \/ GetJob(p) \/ Open(p) \/ Break(p) \/ HearThought(p) \/ HearMore(p) \/ HearConfig(p)
  \/ HearError(p) \/ HearTitle(p) \/ HearDone(p)
ChNext == User \/ Reload \/ HidePage \/ ShowPage \/ \E p \in Prompts : Proceeds(p)

ChSpec == ChInit /\ [][ChNext]_chVars

\* The server ends every stream it was asked for; the page is not hidden for ever.
Asks(p) == p \in Prompts /\ (GetJob(p) \/ Open(p))
IsAnswered(p) == p \in Prompts /\ (HearDone(p) \/ (stream[p].phase = "titled" /\ HearMore(p)))
ChFairSpec ==
  /\ ChSpec /\ WF_chVars(ShowPage)
  /\ \A p \in 1..MaxPrompts : WF_chVars(Asks(p)) /\ WF_chVars(IsAnswered(p))

-----------------------------------------------------------------------------
\* A turn is kept in the conversation it was sent in and in no other, whatever is selected,
\* deleted, reset or given a title while its answer arrives (AssistantContext.tsx).
TurnsStayHome ==
  \A cs \in {convs, localStore.convs} : \A i \in DOMAIN cs : \A j \in DOMAIN cs[i].turns :
    home[cs[i].turns[j].prompt] = cs[i].id

\* The model is told of no other conversation than the one the prompt was sent in, unless the
\* conversation was changed while an answer arrived (useAssistant.ts, conversationHistoryRef).
HistoryIsItsOwn ==
  ~crossed => \A p \in Prompts : \A q \in context[p] : home[q] = home[p]

\* Conversations do not mix, neither in what is kept nor in what the model is told.
ConversationsStayApart == TurnsStayHome /\ HistoryIsItsOwn

\* Whoever waits for an answer can send again, in the end (isStreaming disables the input).
SenderComesBack == IsStreaming ~> ~IsStreaming
=============================================================================
