--------------------------- MODULE Access_proofs ----------------------------
(***************************************************************************)
(* Proofs about Accounts, for every set of requests, every limit of attempts *)
(* and any number of failures, and about Members, for any team and any       *)
(* number of requests.                                                       *)
(*                                                                         *)
(* The invariant of Accounts says of each place of a request what it may      *)
(* rely on there.  Sessions are never brought back to life, which protects    *)
(* what has been read about them; the row of the user may be, so that what    *)
(* protects a deletion is that a request whose row is still the one that      *)
(* counts, by its stamp, has found it not deleted.                           *)
(*                                                                         *)
(* What Members says holds until a request acts on rows that changed under   *)
(* it (teamRaced).  Up to then a request that writes knows the rows that count:   *)
(* what it has read still does, and no mutation is going to take it away.     *)
(* So a workspace keeps an owner whom no mutation is about to delete, every   *)
(* row of a user who left is about to be deleted, and a used invitation is     *)
(* marked or about to be.                                                   *)
(***************************************************************************)
EXTENDS Accounts, Members, FiniteSetTheorems, TLAPS

Asking == {"ask", "check", "fill", "askUser", "findUser", "fillUser", "accepted"}
Changing == {"login", "change", "reset", "profile", "delete"}

\* What has been read and what a request is about, at each place where it is used.
PlaceInv ==
  \A c \in Calls :
    /\ call[c].at \in {"lock", "find"} => call[c].op = "login"
    /\ Is(c, "read") => call[c].op \in Changing
    /\ Is(c, "stamp") => call[c].op = "change"
    /\ Is(c, "save") => call[c].op \in Changing
    /\ call[c].at \in {"token", "mark"} => call[c].op = "reset"
    /\ Is(c, "list") => call[c].op \in {"reset", "revokeAll"}
    /\ call[c].at \in {"stamp", "save", "fillUser"} => call[c].row \in User
    /\ call[c].at \in Asking \cup {"forget"} => call[c].name \in Names
    /\ Is(c, "revoke") /\ call[c].op = "revoke" => call[c].name \in Names

\* Sessions that a request is to revoke, or was to end, exist; the one that a login opens does not.
ExistInv ==
  \A c \in Calls :
    /\ sessions[c] # None => call[c] = Done
    /\ call[c] \in Request =>
         /\ \A n \in call[c].todo \cup call[c].before : sessions[n] # None
         /\ Is(c, "revoke") /\ call[c].op = "revoke" => sessions[call[c].name] # None
         /\ Is(c, "forget") => sessions[call[c].name] = "revoked"

\* A session whose end was acknowledged is revoked, and only an entry filled late says otherwise.
EndedInv ==
  /\ \A n \in ended : sessions[n] = "revoked" /\ (sessionCache[n] = "valid" => n \in late)
  /\ \A c \in Calls :
       /\ call[c].at \in Asking /\ "session" \in call[c].due => call[c].name \in ended
       /\ Is(c, "fill") /\ "session" \in call[c].due => ~call[c].yes
       /\ call[c].at \in {"askUser", "findUser", "fillUser", "accepted"} =>
            "session" \notin call[c].due

\* A reset has revoked what was live when it began, or has it on its list.
ResetInv ==
  \A c \in Calls :
    call[c] \in Request /\ call[c].op = "reset" =>
      /\ call[c].at \in {"revoke", "forget"} =>
           \A n \in call[c].before : sessions[n] = "revoked" \/ n \in call[c].todo
      /\ Is(c, "uncache") => \A n \in call[c].before : sessions[n] = "revoked"

\* Stamps tell rows apart: a request that began with the row that counts, or has read it,
\* and is about to replace it, has found it not deleted.
StampInv ==
  \A c \in Calls :
    /\ call[c] \in Request => call[c].since <= user.stamp
    /\ Is(c, "save") /\ call[c].op # "change" => call[c].row.stamp <= user.stamp
    /\ call[c].at \in {"stamp", "save"} /\ call[c].since = user.stamp => ~user.deleted
    /\ Is(c, "save") /\ call[c].op # "change" /\ call[c].row.stamp = user.stamp => ~user.deleted

\* A deletion that was acknowledged counts, and only an entry filled late says otherwise,
\* unless requests overlapped.
DeletedInv ==
  raced \/ /\ closed => user.deleted /\ (userCache = NoRow \/ "user" \in late)
           /\ \A c \in Calls :
                /\ Is(c, "uncache") /\ call[c].op = "delete" => user.deleted
                /\ call[c].at \in Asking /\ "user" \in call[c].due => closed
                /\ call[c].at \in {"fillUser", "accepted"} => "user" \notin call[c].due

IInv ==
  TypeOK /\ PlaceInv /\ ExistInv /\ EndedInv /\ ResetInv /\ StampInv /\ DeletedInv
-----------------------------------------------------------------------------
(* Each step preserves the invariant. *)

USE AccountsAssumption DEF Is, GoesTo, Ends, New, Done, None, pastVars

\* Initially there is one session, and nobody has asked anything.
LEMMA InitIInv == Init => IInv
<1> SUFFICES ASSUME Init PROVE IInv
  OBVIOUS
<1>1. TypeOK
  <2>1. First \in Names /\ user \in User
    BY DEF Init, User, Names
  <2>2. sessions \in [Names -> {None, "live", "revoked"}] /\ faults \in 0..MaxFaults
    BY DEF Init
  <2>3. past \in [password : Names, attempts : Nat, deleted : BOOLEAN]
    BY <2>1 DEF Init
  <2>4. stamps \in Nat /\ user.stamp <= stamps /\ lapsed \in Nat
    BY DEF Init
  <2>5. /\ tokens \in [Calls -> {None, "pending", "used", "expired"}]
        /\ sessionCache \in [Names -> {None, "valid", "invalid"}]
        /\ call \in [Calls -> {New, Done} \cup Request]
    BY DEF Init
  <2>. QED  BY <2>1, <2>2, <2>3, <2>4, <2>5 DEF Init, TypeOK
<1>2. PlaceInv /\ ResetInv /\ StampInv /\ DeletedInv
  BY DEF Init, PlaceInv, ResetInv, StampInv, DeletedInv, Request, Asking
<1>3. ExistInv /\ EndedInv
  BY DEF Init, ExistInv, EndedInv, Request, Names, Asking
<1>. QED  BY <1>1, <1>2, <1>3 DEF IInv

\* What recordFailedLogin stores is a row.
LEMMA FailedType ==
  ASSUME NEW row \in User, NEW stamp \in Nat
  PROVE  Failed(row, stamp) \in User
<1>1. row.attempts + 1 \in Nat
  BY DEF User
<1>2. \A m, k \in Nat : [row EXCEPT !.attempts = m, !.lock = k] \in User
  BY DEF User
<1>3. Failed(row, stamp) =
        [row EXCEPT !.attempts = row.attempts + 1,
                    !.lock = IF row.attempts + 1 >= MaxAttempts THEN stamp ELSE 0]
  BY DEF Failed, Attempted
<1>4. (IF row.attempts + 1 >= MaxAttempts THEN stamp ELSE 0) \in Nat
  OBVIOUS
<1>. QED  BY <1>1, <1>2, <1>3, <1>4

\* A request begins with the row that counts by its stamp, and with what it may be refused for.
LEMMA BeginPreserves ==
  ASSUME IInv, NEW c \in Calls, Begin(c)
  PROVE  IInv'
<1>1. TypeOK'
  <2>1. PICK op \in Op, place \in {"lock", "find", "token", "read", "list", "revoke", "ask"},
          name \in Names \cup {None} : Begins(c, op, place, name)
    BY DEF IInv, TypeOK, Begin, Op, Names, User
  <2>2. call'[c] \in Request
    BY <2>1 DEF IInv, TypeOK, Begins, Request, NoRow, User, Names
  <2>3. call' \in [Calls -> {New, Done} \cup Request]
    BY <2>1, <2>2 DEF IInv, TypeOK, Begins
  <2>. QED  BY <2>3 DEF IInv, TypeOK, Begin
<1>2. PlaceInv'
  BY DEF IInv, TypeOK, PlaceInv, Asking, Changing, Begin, Begins
<1>3. ExistInv'
  BY DEF IInv, TypeOK, ExistInv, Begin, Begins
<1>4. EndedInv'
  BY DEF IInv, TypeOK, EndedInv, Begin, Begins
<1>5. ResetInv'
  BY DEF IInv, TypeOK, ResetInv, Begin, Begins
<1>6. StampInv'
  BY DEF IInv, TypeOK, StampInv, Request, Begin, Begins
<1>7. DeletedInv'
  BY DEF IInv, TypeOK, DeletedInv, Begin, Begins
<1>. QED  BY <1>1, <1>2, <1>3, <1>4, <1>5, <1>6, <1>7 DEF IInv

\* A new token concerns nobody yet.
LEMMA ForgotPasswordPreserves ==
  ASSUME IInv, NEW c \in Calls, ForgotPassword(c)
  PROVE  IInv'
<1>1. TypeOK'
  BY DEF IInv, TypeOK, ForgotPassword
<1>2. PlaceInv'
  BY DEF IInv, PlaceInv, Asking, ForgotPassword
<1>3. ExistInv'
  BY DEF IInv, ExistInv, Request, ForgotPassword
<1>4. EndedInv'
  BY DEF IInv, EndedInv, Asking, ForgotPassword
<1>5. ResetInv'
  BY DEF IInv, ResetInv, ForgotPassword
<1>6. StampInv'
  BY DEF IInv, StampInv, Request, ForgotPassword
<1>7. DeletedInv'
  BY DEF IInv, DeletedInv, Asking, ForgotPassword
<1>. QED  BY <1>1, <1>2, <1>3, <1>4, <1>5, <1>6, <1>7 DEF IInv

\* The steps of a login and of a reset that read before the row.
LEMMA CheckPreserves ==
  ASSUME IInv, NEW c \in Calls, Check(c)
  PROVE  IInv'
<1>1. TypeOK'
  BY DEF IInv, TypeOK, Request, Names, Check
<1>2. PlaceInv'
  BY DEF IInv, TypeOK, PlaceInv, Request, Asking, Changing, Check
<1>3. ExistInv'
  BY DEF IInv, TypeOK, ExistInv, Request, Check
<1>4. EndedInv'
  BY DEF IInv, TypeOK, EndedInv, Request, Asking, Check
<1>5. ResetInv'
  BY DEF IInv, TypeOK, ResetInv, Request, Check
<1>6. StampInv'
  BY DEF IInv, TypeOK, StampInv, Request, Check
<1>7. DeletedInv'
  BY DEF IInv, TypeOK, DeletedInv, Request, Asking, Check
<1>. QED  BY <1>1, <1>2, <1>3, <1>4, <1>5, <1>6, <1>7 DEF IInv

\* The request that goes on has found the row not deleted, and has it with its stamp.
LEMMA ReadPreserves ==
  ASSUME IInv, NEW c \in Calls, Read(c)
  PROVE  IInv'
<1>1. TypeOK'
  BY DEF IInv, TypeOK, Request, Op, Read
<1>2. PlaceInv'
  BY DEF IInv, TypeOK, PlaceInv, Request, Asking, Read, RowFound
<1>3. ExistInv'
  BY DEF IInv, TypeOK, ExistInv, Request, Read
<1>4. EndedInv'
  BY DEF IInv, TypeOK, EndedInv, Request, Asking, Read
<1>5. ResetInv'
  BY DEF IInv, TypeOK, ResetInv, Request, Read
<1>6. StampInv'
  BY DEF IInv, TypeOK, StampInv, Request, User, Read, RowFound
<1>7. DeletedInv'
  BY DEF IInv, TypeOK, DeletedInv, Request, Asking, Read
<1>. QED  BY <1>1, <1>2, <1>3, <1>4, <1>5, <1>6, <1>7 DEF IInv

\* The row of changePassword gets a stamp that no row has had.
LEMMA StampPreserves ==
  ASSUME IInv, NEW c \in Calls, Stamp(c)
  PROVE  IInv'
<1>1. TypeOK'
  <2>1. call[c] \in Request /\ call[c].row \in User
    BY DEF IInv, TypeOK, PlaceInv, Stamp
  <2>2. stamps' \in Nat /\ user.stamp <= stamps'
    BY DEF IInv, TypeOK, User, Stamp
  <2>3. [call[c].row EXCEPT !.stamp = stamps + 1] \in User
    BY <2>1 DEF User, IInv, TypeOK
  <2>4. [call[c] EXCEPT !.at = "save", !.row.stamp = stamps + 1] \in Request
    <3>1. [call[c] EXCEPT !.at = "save", !.row = [call[c].row EXCEPT !.stamp = stamps + 1]]
            \in Request
      BY <2>1, <2>3 DEF Request
    <3>. QED  BY <2>1, <3>1 DEF Request, User
  <2>5. call'[c] = [call[c] EXCEPT !.at = "save", !.row.stamp = stamps + 1]
    BY <2>1 DEF IInv, TypeOK, Stamp, Request, User
  <2>6. call' \in [Calls -> {New, Done} \cup Request]
    BY <2>4, <2>5 DEF IInv, TypeOK, Stamp
  <2>. QED  BY <2>2, <2>6 DEF IInv, TypeOK, Stamp
<1>2. PlaceInv'
  BY DEF IInv, TypeOK, PlaceInv, Request, Asking, Changing, Stamp
<1>3. ExistInv'
  BY DEF IInv, TypeOK, ExistInv, Stamp
<1>4. EndedInv'
  BY DEF IInv, TypeOK, EndedInv, Asking, Stamp
<1>5. ResetInv'
  BY DEF IInv, TypeOK, ResetInv, Stamp
<1>6. StampInv'
  BY DEF IInv, TypeOK, PlaceInv, StampInv, Stamp
<1>7. DeletedInv'
  BY DEF IInv, TypeOK, DeletedInv, Asking, Stamp
<1>. QED  BY <1>1, <1>2, <1>3, <1>4, <1>5, <1>6, <1>7 DEF IInv

\* A row that counts from now on has a later stamp than the one it replaces; it replaces
\* one that was deleted only when requests overlapped.
LEMMA SavePreserves ==
  ASSUME IInv, NEW c \in Calls, Save(c)
  PROVE  IInv'
<1>1. TypeOK'
  <2> DEFINE r == call[c]
             stamp == IF r.op = "change" THEN r.row.stamp ELSE stamps + 1
  <2>1. r \in Request /\ r.row \in User /\ r.op \in Changing
    BY DEF IInv, TypeOK, PlaceInv, Save
  <2>2. stamp \in Nat
    BY <2>1 DEF IInv, TypeOK, User
  <2>3. Changed(c, r.row, stamp) \in User
    <3>1. Failed(r.row, stamp) \in User
      BY <2>1, <2>2, FailedType
    <3>2. [r.row EXCEPT !.attempts = 0, !.lock = 0] \in User
      BY <2>1 DEF User
    <3>. QED  BY <2>1, <3>1, <3>2 DEF Changed, Changing, User, Names
  <2>4. user' \in User
    BY <2>2, <2>3 DEF IInv, TypeOK, Save, User
  <2>5. stamps' \in Nat /\ user'.stamp <= stamps'
    BY <2>2, <2>3 DEF IInv, TypeOK, Save, LaterTime, User
  <2>6. past' \in [password : Names, attempts : Nat, deleted : BOOLEAN]
    <3>1. Recorded(c) \in [password : Names, attempts : Nat, deleted : BOOLEAN]
      <4>1. past \in [password : Names, attempts : Nat, deleted : BOOLEAN]
        BY DEF IInv, TypeOK
      <4>2. [past EXCEPT !.attempts = IF r.yes THEN 0 ELSE @ + 1]
               \in [password : Names, attempts : Nat, deleted : BOOLEAN]
        BY <4>1
      <4>. QED  BY <2>1, <4>1, <4>2 DEF Recorded, Changing, Names
    <3>. QED  BY <3>1 DEF Save
  <2>7. call' \in [Calls -> {New, Done} \cup Request] /\ raced' \in BOOLEAN
    BY <2>1 DEF IInv, TypeOK, Save, Request, Overtaken
  <2>. QED  BY <2>4, <2>5, <2>6, <2>7 DEF IInv, TypeOK, Save
<1>2. PlaceInv'
  BY DEF IInv, PlaceInv, Asking, Save
<1>3. ExistInv'
  BY DEF IInv, TypeOK, ExistInv, Save
<1>4. EndedInv'
  BY DEF IInv, EndedInv, Asking, Save
<1>5. ResetInv'
  BY DEF IInv, ResetInv, Save
<1>6. StampInv'
  BY DEF IInv, TypeOK, PlaceInv, StampInv, Request, User, Save
<1>7. DeletedInv'
  BY DEF IInv, TypeOK, DeletedInv, Asking, User, StampInv, Save, Changed, Overtaken, LaterTime
<1>. QED  BY <1>1, <1>2, <1>3, <1>4, <1>5, <1>6, <1>7 DEF IInv

\* The deletion that is acknowledged here counts, and nothing is cached any more.
LEMMA UncachePreserves ==
  ASSUME IInv, NEW c \in Calls, Uncache(c)
  PROVE  IInv'
<1>1. TypeOK'
  BY DEF IInv, TypeOK, Uncache
<1>2. PlaceInv'
  BY DEF IInv, PlaceInv, Asking, Uncache
<1>3. ExistInv'
  BY DEF IInv, ExistInv, Request, Uncache
<1>4. EndedInv'
  BY DEF IInv, TypeOK, EndedInv, Asking, Names, Uncache
<1>5. ResetInv'
  BY DEF IInv, ResetInv, Uncache
<1>6. StampInv'
  BY DEF IInv, StampInv, Request, Uncache
<1>7. DeletedInv'
  BY DEF IInv, TypeOK, DeletedInv, Asking, Uncache
<1>. QED  BY <1>1, <1>2, <1>3, <1>4, <1>5, <1>6, <1>7 DEF IInv

\* The session that is opened did not exist.
LEMMA OpenPreserves ==
  ASSUME IInv, NEW c \in Calls, Open(c)
  PROVE  IInv'
<1>1. TypeOK'
  BY DEF IInv, TypeOK, Names, Open
<1>2. PlaceInv'
  BY DEF IInv, PlaceInv, Asking, Open
<1>3. ExistInv'
  BY DEF IInv, TypeOK, ExistInv, Request, Open
<1>4. EndedInv'
  BY DEF IInv, ExistInv, EndedInv, Asking, Open
<1>5. ResetInv'
  BY DEF IInv, ExistInv, ResetInv, Open
<1>6. StampInv'
  BY DEF IInv, StampInv, Request, Open
<1>7. DeletedInv'
  BY DEF IInv, DeletedInv, Asking, Open
<1>. QED  BY <1>1, <1>2, <1>3, <1>4, <1>5, <1>6, <1>7 DEF IInv

\* The token of a reset is used up.
LEMMA MarkTokenPreserves ==
  ASSUME IInv, NEW c \in Calls, MarkToken(c)
  PROVE  IInv'
<1>1. TypeOK'
  <2>1. tokens' \in [Calls -> {None, "pending", "used", "expired"}]
    BY DEF IInv, TypeOK, MarkToken
  <2>2. call' \in [Calls -> {New, Done} \cup Request]
    BY DEF IInv, TypeOK, MarkToken, Request
  <2>. QED  BY <2>1, <2>2 DEF IInv, TypeOK, MarkToken
<1>2. PlaceInv'
  BY DEF IInv, PlaceInv, Asking, MarkToken
<1>3. ExistInv'
  BY DEF IInv, TypeOK, ExistInv, MarkToken
<1>4. EndedInv'
  BY DEF IInv, EndedInv, Asking, MarkToken
<1>5. ResetInv'
  BY DEF IInv, ResetInv, MarkToken
<1>6. StampInv'
  BY DEF IInv, TypeOK, StampInv, MarkToken
<1>7. DeletedInv'
  BY DEF IInv, DeletedInv, Asking, MarkToken
<1>. QED  BY <1>1, <1>2, <1>3, <1>4, <1>5, <1>6, <1>7 DEF IInv

\* What a reset has to end is what is live now: the rest of it is revoked.
LEMMA ListPreserves ==
  ASSUME IInv, NEW c \in Calls, List(c)
  PROVE  IInv'
<1>1. TypeOK'
  BY DEF IInv, TypeOK, Request, List, Revoked, ToRevoke
<1>2. PlaceInv'
  BY DEF IInv, TypeOK, PlaceInv, Request, Asking, List, Revoked, ToRevoke
<1>3. ExistInv'
  BY DEF IInv, TypeOK, PlaceInv, ExistInv, Request, List, Revoked, ToRevoke
<1>4. EndedInv'
  BY DEF IInv, TypeOK, EndedInv, Request, Asking, List, Revoked, ToRevoke
<1>5. ResetInv'
  BY DEF IInv, TypeOK, ExistInv, ResetInv, Request, List, Revoked, ToRevoke
<1>6. StampInv'
  BY DEF IInv, TypeOK, StampInv, Request, List, Revoked, ToRevoke
<1>7. DeletedInv'
  BY DEF IInv, TypeOK, DeletedInv, Request, Asking, List, Revoked, ToRevoke
<1>. QED  BY <1>1, <1>2, <1>3, <1>4, <1>5, <1>6, <1>7 DEF IInv

\* One session of the list is revoked, and stays on it.
LEMMA RevokePreserves ==
  ASSUME IInv, NEW c \in Calls, Revoke(c)
  PROVE  IInv'
<1>1. TypeOK'
  <2>1. call[c] \in Request
    BY DEF IInv, TypeOK, Revoke
  <2>2. PICK n \in IF call[c].op = "revoke" THEN {call[c].name} ELSE call[c].todo :
          /\ sessions' = [sessions EXCEPT ![n] = "revoked"]
          /\ call' = [call EXCEPT ![c].at = "forget", ![c].name = n]
    BY DEF Revoke
  <2>3. n \in Names
    BY <2>1 DEF IInv, PlaceInv, Revoke, Request
  <2>4. call' \in [Calls -> {New, Done} \cup Request]
    <3>1. [call[c] EXCEPT !.at = "forget", !.name = n] \in Request
      BY <2>1, <2>3 DEF Request
    <3>. QED  BY <2>1, <2>2, <3>1 DEF IInv, TypeOK
  <2>. QED  BY <2>2, <2>3, <2>4 DEF IInv, TypeOK, Revoke
<1>2. PlaceInv'
  BY DEF IInv, TypeOK, PlaceInv, Request, Revoke
<1>3. ExistInv'
  BY DEF IInv, TypeOK, PlaceInv, ExistInv, Request, Revoke
<1>4. EndedInv'
  BY DEF IInv, TypeOK, EndedInv, Asking, Revoke
<1>5. ResetInv'
  BY DEF IInv, TypeOK, ResetInv, Revoke
<1>6. StampInv'
  BY DEF IInv, TypeOK, StampInv, Revoke
<1>7. DeletedInv'
  BY DEF IInv, TypeOK, DeletedInv, Asking, Revoke
<1>. QED  BY <1>1, <1>2, <1>3, <1>4, <1>5, <1>6, <1>7 DEF IInv

\* The session that is acknowledged is revoked, and not cached.
LEMMA ForgetPreserves ==
  ASSUME IInv, NEW c \in Calls, Forget(c)
  PROVE  IInv'
<1>1. TypeOK'
  BY DEF IInv, TypeOK, PlaceInv, Request, Forget, Revoked, CacheWithout
<1>2. PlaceInv'
  BY DEF IInv, TypeOK, PlaceInv, Request, Asking, Forget, Revoked, CacheWithout
<1>3. ExistInv'
  BY DEF IInv, TypeOK, ExistInv, Request, Forget, Revoked, CacheWithout
<1>4. EndedInv'
  BY DEF IInv, TypeOK, PlaceInv, ExistInv, EndedInv, Request, Asking, Forget, Revoked, CacheWithout
<1>5. ResetInv'
  BY DEF IInv, TypeOK, ExistInv, ResetInv, Request, Forget, Revoked, CacheWithout
<1>6. StampInv'
  BY DEF IInv, TypeOK, StampInv, Request, Forget, Revoked, CacheWithout
<1>7. DeletedInv'
  BY DEF IInv, TypeOK, DeletedInv, Request, Asking, Names, Forget, Revoked, CacheWithout
<1>. QED  BY <1>1, <1>2, <1>3, <1>4, <1>5, <1>6, <1>7 DEF IInv

\* An entry that says otherwise of an ended session or user was filled late.
LEMMA AskPreserves ==
  ASSUME IInv, NEW c \in Calls, Ask(c)
  PROVE  IInv'
<1>1. TypeOK'
  BY DEF IInv, TypeOK, Request, Ask
<1>2. PlaceInv'
  BY DEF IInv, TypeOK, PlaceInv, Request, Asking, Ask
<1>3. ExistInv'
  BY DEF IInv, TypeOK, ExistInv, Request, Ask
<1>4. EndedInv'
  BY DEF IInv, TypeOK, EndedInv, Request, Asking, Ask
<1>5. ResetInv'
  BY DEF IInv, TypeOK, ResetInv, Request, Ask
<1>6. StampInv'
  BY DEF IInv, TypeOK, StampInv, Request, Ask
<1>7. DeletedInv'
  BY DEF IInv, TypeOK, DeletedInv, Request, Asking, Ask
<1>. QED  BY <1>1, <1>2, <1>3, <1>4, <1>5, <1>6, <1>7 DEF IInv

\* What is read of an ended session or of a deleted user is the truth.
LEMMA AnswerPreserves ==
  ASSUME IInv, NEW c \in Calls, Answer(c)
  PROVE  IInv'
<1>1. TypeOK'
  BY DEF IInv, TypeOK, Request, Op, Answer
<1>2. PlaceInv'
  BY DEF IInv, TypeOK, PlaceInv, Request, Asking, Answer
<1>3. ExistInv'
  BY DEF IInv, TypeOK, ExistInv, Request, Answer
<1>4. EndedInv'
  BY DEF IInv, TypeOK, EndedInv, Request, Asking, Answer
<1>5. ResetInv'
  BY DEF IInv, TypeOK, ResetInv, Request, Answer
<1>6. StampInv'
  BY DEF IInv, TypeOK, StampInv, Request, Answer
<1>7. DeletedInv'
  BY DEF IInv, TypeOK, DeletedInv, Request, Asking, Answer
<1>. QED  BY <1>1, <1>2, <1>3, <1>4, <1>5, <1>6, <1>7 DEF IInv

\* An entry filled with what has changed since is late.
LEMMA FillPreserves ==
  ASSUME IInv, NEW c \in Calls, Fill(c)
  PROVE  IInv'
<1>1. TypeOK'
  <2>1. call[c] \in Request /\ call[c].name \in Names
    BY DEF IInv, TypeOK, PlaceInv, Fill, Asking
  <2>2. call' \in [Calls -> {New, Done} \cup Request]
    BY <2>1 DEF IInv, TypeOK, Fill, Request
  <2>3. /\ userCache' \in User \cup {NoRow}
        /\ sessionCache' \in [Names -> {None, "valid", "invalid"}]
        /\ late' \subseteq Names \cup {"user"}
    BY <2>1 DEF IInv, TypeOK, PlaceInv, Fill
  <2>. QED  BY <2>2, <2>3 DEF IInv, TypeOK, Fill
<1>2. PlaceInv'
  BY DEF IInv, TypeOK, PlaceInv, Request, Asking, Fill
<1>3. ExistInv'
  BY DEF IInv, TypeOK, ExistInv, Request, Fill
<1>4. EndedInv'
  BY DEF IInv, TypeOK, EndedInv, Request, Asking, Names, Fill
<1>5. ResetInv'
  BY DEF IInv, TypeOK, ResetInv, Request, Fill
<1>6. StampInv'
  BY DEF IInv, TypeOK, StampInv, Request, Fill
<1>7. DeletedInv'
  BY DEF IInv, TypeOK, DeletedInv, Request, Asking, Names, Fill
<1>. QED  BY <1>1, <1>2, <1>3, <1>4, <1>5, <1>6, <1>7 DEF IInv

\* A request that stops relies on nothing any more.
LEMMA FailsPreserves ==
  ASSUME IInv, NEW c \in Calls, Fails(c)
  PROVE  IInv'
<1>1. TypeOK'
  BY DEF IInv, TypeOK, Fails
<1>2. PlaceInv'
  BY DEF IInv, PlaceInv, Asking, Fails
<1>3. ExistInv'
  BY DEF IInv, ExistInv, Request, Fails
<1>4. EndedInv'
  BY DEF IInv, EndedInv, Asking, Fails
<1>5. ResetInv'
  BY DEF IInv, ResetInv, Fails
<1>6. StampInv'
  BY DEF IInv, StampInv, Request, Fails
<1>7. DeletedInv'
  BY DEF IInv, DeletedInv, Asking, Fails
<1>. QED  BY <1>1, <1>2, <1>3, <1>4, <1>5, <1>6, <1>7 DEF IInv

\* An entry that is gone says nothing.
LEMMA ExpirePreserves ==
  ASSUME IInv, Expire
  PROVE  IInv'
<1>1. TypeOK'
  BY DEF IInv, TypeOK, User, Expire, CacheWithout
<1>2. PlaceInv'
  BY DEF IInv, PlaceInv, Expire, CacheWithout
<1>3. ExistInv'
  BY DEF IInv, ExistInv, Expire, CacheWithout
<1>4. EndedInv'
  BY DEF IInv, TypeOK, EndedInv, Names, Expire, CacheWithout
<1>5. ResetInv'
  BY DEF IInv, ResetInv, Expire, CacheWithout
<1>6. StampInv'
  BY DEF IInv, StampInv, Expire, CacheWithout
<1>7. DeletedInv'
  BY DEF IInv, DeletedInv, Names, Expire, CacheWithout
<1>. QED  BY <1>1, <1>2, <1>3, <1>4, <1>5, <1>6, <1>7 DEF IInv

\* A step that changes nothing changes none of what the invariant says.
LEMMA StutterPreserves ==
  ASSUME IInv, UNCHANGED vars
  PROVE  IInv'
BY DEF IInv, TypeOK, PlaceInv, ExistInv, EndedInv, ResetInv, StampInv, DeletedInv, vars

\* The invariant is inductive.
LEMMA NextPreserves ==
  ASSUME IInv, [Next]_vars
  PROVE  IInv'
<1>1. CASE Expire
  BY <1>1, ExpirePreserves
<1>2. CASE UNCHANGED vars
  BY <1>2, StutterPreserves
<1>3. ASSUME NEW c \in Calls,
             \/ Begin(c) \/ ForgotPassword(c) \/ Check(c) \/ Read(c) \/ Stamp(c) \/ Save(c)
             \/ Uncache(c) \/ Open(c) \/ MarkToken(c) \/ List(c) \/ Revoke(c) \/ Forget(c)
             \/ Ask(c) \/ Answer(c) \/ Fill(c) \/ Fails(c)
      PROVE  IInv'
  BY <1>3, BeginPreserves, ForgotPasswordPreserves, CheckPreserves, ReadPreserves,
     StampPreserves, SavePreserves, UncachePreserves, OpenPreserves, MarkTokenPreserves,
     ListPreserves, RevokePreserves, ForgetPreserves, AskPreserves, AnswerPreserves,
     FillPreserves, FailsPreserves
<1>. QED  BY <1>1, <1>2, <1>3 DEF Next

\* The invariant holds in every state the service can reach.
LEMMA Invariance == Spec => []IInv
<1>1. IInv /\ [Next]_vars => IInv'
  BY NextPreserves
<1>. QED  BY InitIInv, <1>1, PTL DEF Spec

-----------------------------------------------------------------------------
(* The theorems. *)

\* The rows, the caches and the requests of api/src/auth keep their types, and no row has
\* a stamp from the future, changePassword's early one included.
THEOREM TypeCorrect == Spec => []TypeOK
<1>1. IInv => TypeOK
  BY DEF IInv
<1>. QED  BY Invariance, <1>1, PTL

\* Whatever requests overlap and whenever entries of the two caches expire: JwtStrategy
\* accepts no request that began after the end of its session was acknowledged, nor, unless
\* a row was overwritten, after the deletion of its user, except from an entry that another
\* request filled too late.
THEOREM EndedSessionsAreRefused == Spec => []EndedIsRefused
<1>1. ASSUME IInv, NEW c \in Calls, Is(c, "accepted")
      PROVE  call[c].due = {} \/ (raced /\ call[c].due = {"user"})
  <2>1. call[c] \in Request
    BY <1>1 DEF IInv, TypeOK
  <2>2. "session" \notin call[c].due
    BY <1>1 DEF IInv, EndedInv
  <2>3. raced \/ "user" \notin call[c].due
    BY <1>1 DEF IInv, DeletedInv
  <2>. QED  BY <2>1, <2>2, <2>3 DEF Request
<1>2. IInv => EndedIsRefused
  BY <1>1 DEF EndedIsRefused
<1>. QED  BY Invariance, <1>2, PTL

\* A password reset that returns has revoked all sessions that were live when it began,
\* however many there are and whoever else revokes or opens sessions meanwhile.
THEOREM ResetEndsAllSessions == Spec => ResetEndsSessions
<1>1. ASSUME IInv, NEW c \in Calls, Is(c, "uncache"), call[c].op = "reset"
      PROVE  \A n \in call[c].before : sessions[n] = "revoked"
  BY <1>1 DEF IInv, TypeOK, ResetInv
<1>2. IInv => [\A c \in Calls :
                 Is(c, "uncache") /\ call[c].op = "reset" /\ call'[c] = Done /\ faults' = faults =>
                    \A n \in call[c].before : sessions[n] = "revoked"]_vars
  BY <1>1
<1>. QED  BY Invariance, <1>2, PTL DEF ResetEndsSessions

-----------------------------------------------------------------------------
(* What operations record is not lost. *)

\* Equal but for the stamp.
SameContent(row, other) ==
  /\ row.password = other.password /\ row.attempts = other.attempts
  /\ row.lock = other.lock /\ row.deleted = other.deleted

Rewriting(c) == call[c].at \in {"stamp", "save"}

\* A request that is about to store a row and is not overtaken has made it of the row that
\* counts; changePassword, which takes its stamp early, has taken a later one all the same.
RewriteInv ==
  \A c \in Calls :
    Rewriting(c) =>
      /\ call[c].since = user.stamp => SameContent(call[c].row, user)
      /\ Is(c, "save") /\ call[c].op # "change" /\ call[c].row.stamp = user.stamp =>
           SameContent(call[c].row, user)
      /\ Is(c, "save") /\ call[c].op = "change" => call[c].since < call[c].row.stamp

RecordInv == RewriteInv /\ NothingRecordedIsLost

\* A step that stores no row and brings no request to the point of storing one.
LEMMA ElsewhereRecorded ==
  ASSUME RecordInv, UNCHANGED <<user, past, raced>>,
         \A c \in Calls : Rewriting(c)' => call'[c] = call[c]
  PROVE  RecordInv'
<1>1. RewriteInv'
  BY DEF RecordInv, RewriteInv, Rewriting, SameContent
<1>2. NothingRecordedIsLost'
  BY DEF RecordInv, NothingRecordedIsLost
<1>. QED  BY <1>1, <1>2 DEF RecordInv

\* A step of c changes no other request.
LEMMA OthersStay ==
  ASSUME TypeOK, NEW c \in Calls, NEW r, call' = [call EXCEPT ![c] = r]
  PROVE  call'[c] = r /\ \A d \in Calls \ {c} : call'[d] = call[d]
BY DEF TypeOK

\* What a request reads is the row that counts.
LEMMA ReadRecorded ==
  ASSUME IInv, RecordInv, NEW c \in Calls, Read(c)
  PROVE  RecordInv'
<1>1. UNCHANGED <<user, past, raced>>
  BY DEF Read
<1>2. call[c] \in Request /\ \A d \in Calls \ {c} : call'[d] = call[d]
  BY DEF IInv, TypeOK, Read
<1>3. CASE call'[c].at \notin {"stamp", "save"}
  <2>1. \A d \in Calls : Rewriting(d)' => call'[d] = call[d]
    BY <1>2, <1>3 DEF Rewriting
  <2>. QED  BY <1>1, <2>1, ElsewhereRecorded
<1>4. CASE call'[c].at \in {"stamp", "save"}
  <2>1. /\ call'[c].row = user
        /\ call'[c].at = "save" => call'[c].op # "change"
    BY <1>2, <1>4 DEF IInv, TypeOK, Read, RowFound, Request
  <2>2. SameContent(call'[c].row, user)
    BY <2>1 DEF SameContent
  <2>3. RewriteInv'
    BY <1>1, <1>2, <2>1, <2>2 DEF RecordInv, RewriteInv, Rewriting, SameContent
  <2>. QED  BY <1>1, <2>3 DEF RecordInv, NothingRecordedIsLost
<1>. QED  BY <1>3, <1>4

\* The early stamp of changePassword is later than that of any row that counted when it began.
LEMMA StampRecorded ==
  ASSUME IInv, RecordInv, NEW c \in Calls, Stamp(c)
  PROVE  RecordInv'
<1>1. UNCHANGED <<user, past, raced>> /\ stamps \in Nat
  BY DEF Stamp, IInv, TypeOK
<1>2. /\ call[c] \in Request /\ call[c].row \in User
      /\ call[c].since <= user.stamp /\ user.stamp <= stamps
      /\ user.stamp \in Nat /\ call[c].since \in Nat
      /\ \A d \in Calls \ {c} : call'[d] = call[d]
  BY DEF IInv, TypeOK, PlaceInv, StampInv, Stamp, Request, User
<1>3. /\ call'[c] = [call[c] EXCEPT !.at = "save", !.row.stamp = stamps + 1]
      /\ call[c].at = "stamp" /\ call[c].op = "change"
  BY <1>2 DEF IInv, TypeOK, PlaceInv, Stamp, Request, User
<1>4. /\ call'[c].since = call[c].since /\ call'[c].op = "change"
      /\ call'[c].row.stamp = stamps + 1
      /\ SameContent(call'[c].row, call[c].row)
  BY <1>2, <1>3 DEF SameContent, Request, User
<1>5. call'[c].since < call'[c].row.stamp
  BY <1>1, <1>2, <1>4
<1>6. call[c].since = user.stamp => SameContent(call[c].row, user)
  BY <1>3 DEF RecordInv, RewriteInv, Rewriting
<1>7. RewriteInv'
  BY <1>1, <1>2, <1>4, <1>5, <1>6 DEF RecordInv, RewriteInv, Rewriting, SameContent
<1>. QED  BY <1>1, <1>7 DEF RecordInv, NothingRecordedIsLost

\* The row that Save stores.
Stored(c, row, stamp) == [Changed(c, row, stamp) EXCEPT !.stamp = stamp]

\* What Save makes of a row that equals the one that counts is what it records.
LEMMA ChangedAsRecorded ==
  ASSUME NEW c \in Calls, NEW row \in User, NEW stamp \in Nat \ {0},
         call[c].op \in Changing, SameContent(row, user),
         user.password = past.password, user.attempts = past.attempts,
         user.deleted = past.deleted, user.attempts >= MaxAttempts => user.lock # 0,
         past \in [password : Names, attempts : Nat, deleted : BOOLEAN]
  PROVE  /\ Stored(c, row, stamp).password = Recorded(c).password
         /\ Stored(c, row, stamp).attempts = Recorded(c).attempts
         /\ Stored(c, row, stamp).deleted = Recorded(c).deleted
         /\ Stored(c, row, stamp).attempts >= MaxAttempts => Stored(c, row, stamp).lock # 0
<1>1. CASE call[c].op \in {"change", "reset"}
  BY <1>1 DEF Stored, Changed, Recorded, SameContent, User
<1>2. CASE call[c].op = "profile"
  BY <1>2 DEF Stored, Changed, Recorded, SameContent, User
<1>3. CASE call[c].op = "delete"
  BY <1>3 DEF Stored, Changed, Recorded, SameContent, User
<1>4. CASE call[c].op = "login" /\ call[c].yes
  <2>1. Changed(c, row, stamp) = [row EXCEPT !.attempts = 0, !.lock = 0]
    BY <1>4 DEF Changed
  <2>2. Recorded(c) = [past EXCEPT !.attempts = 0]
    BY <1>4 DEF Recorded
  <2>3. ~(0 >= MaxAttempts)
    OBVIOUS
  <2>. QED  BY <2>1, <2>2, <2>3 DEF Stored, SameContent, User
<1>5. CASE call[c].op = "login" /\ ~call[c].yes
  BY <1>5 DEF Stored, Changed, Recorded, SameContent, User, Failed, Attempted
<1>. QED  BY <1>1, <1>2, <1>3, <1>4, <1>5 DEF Changing

\* A request that is not overtaken stores a newer row, made of the one that counts.
LEMMA SaveRecorded ==
  ASSUME IInv, RecordInv, NEW c \in Calls, Save(c)
  PROVE  RecordInv'
<1> DEFINE r == call[c]
           stamp == IF r.op = "change" THEN r.row.stamp ELSE stamps + 1
           new == Stored(c, r.row, stamp)
<1>1. /\ r \in Request /\ r.row \in User /\ r.op \in Changing /\ r.at = "save"
      /\ user \in User /\ user.stamp \in Nat /\ stamps \in Nat /\ user.stamp <= stamps
      /\ past \in [password : Names, attempts : Nat, deleted : BOOLEAN]
      /\ r.row.stamp \in Nat /\ r.since \in Nat /\ r.since <= user.stamp
  BY DEF IInv, TypeOK, PlaceInv, StampInv, Save, User, Request
<1>2. stamp \in Nat
  BY <1>1
<1>3. /\ user' = IF stamp > user.stamp THEN new ELSE user
      /\ past' = Recorded(c)
      /\ raced' = (raced \/ Overtaken(c))
  BY DEF Save, Stored
<1>4. \A d \in Calls \ {c} : call'[d] = call[d]
  BY DEF IInv, TypeOK, Save
<1>5. call'[c].at \notin {"stamp", "save"}
  BY <1>1 DEF IInv, TypeOK, Save, Request
<1>6. stamp > user.stamp => new.stamp = stamp
  <2>1. Changed(c, r.row, stamp) \in User
    <3>1. Failed(r.row, stamp) \in User
      BY <1>1, <1>2, FailedType
    <3>2. [r.row EXCEPT !.attempts = 0, !.lock = 0] \in User
      BY <1>1 DEF User
    <3>. QED  BY <1>1, <3>1, <3>2 DEF Changed, Changing, User, Names
  <2>. QED  BY <2>1 DEF Stored, User
<1>7. user' = user \/ user'.stamp > user.stamp
  BY <1>3, <1>6
<1>8. RewriteInv'
  <2> SUFFICES ASSUME NEW d \in Calls, call'[d].at \in {"stamp", "save"}
               PROVE  /\ call'[d].since = user'.stamp => SameContent(call'[d].row, user')
                      /\ /\ call'[d].at = "save" /\ call'[d].op # "change"
                         /\ call'[d].row.stamp = user'.stamp
                         => SameContent(call'[d].row, user')
                      /\ call'[d].at = "save" /\ call'[d].op = "change" =>
                           call'[d].since < call'[d].row.stamp
    BY DEF RewriteInv, Rewriting
  <2>1. d # c /\ call'[d] = call[d]
    BY <1>4, <1>5
  <2>2. /\ call[d] \in Request /\ call[d].since <= user.stamp /\ call[d].since \in Nat
        /\ call[d].row \in User /\ call[d].row.stamp \in Nat
        /\ call[d].at = "save" /\ call[d].op # "change" => call[d].row.stamp <= user.stamp
    BY <2>1 DEF IInv, TypeOK, PlaceInv, StampInv, Request, User
  <2>3. CASE user' = user
    BY <2>1, <2>3 DEF RecordInv, RewriteInv, Rewriting
  <2>4. CASE user'.stamp > user.stamp
    <3>1. user'.stamp \in Nat
      BY <1>1, <1>2, <1>3, <1>6
    <3>2. /\ call[d].since # user'.stamp
          /\ call[d].at = "save" /\ call[d].op # "change" => call[d].row.stamp # user'.stamp
      BY <1>1, <2>2, <2>4, <3>1
    <3>. QED  BY <2>1, <3>2 DEF RecordInv, RewriteInv, Rewriting
  <2>. QED  BY <1>7, <2>3, <2>4
<1>9. NothingRecordedIsLost'
  <2>1. CASE raced'
    BY <2>1 DEF NothingRecordedIsLost
  <2>2. CASE ~raced'
    <3>1. ~raced /\ ~Overtaken(c)
      BY <1>3, <2>2 DEF IInv, TypeOK
    <3>2. /\ SameContent(r.row, user)
          /\ r.op = "change" => r.since = user.stamp /\ r.since < r.row.stamp
      BY <1>1, <3>1 DEF Overtaken, RecordInv, RewriteInv, Rewriting
    <3>3. stamp > user.stamp
      BY <1>1, <3>2
    <3>4. stamp \in Nat \ {0}
      BY <1>1, <1>2, <3>3
    <3>5. /\ user.password = past.password /\ user.attempts = past.attempts
          /\ user.deleted = past.deleted
          /\ user.attempts >= MaxAttempts => user.lock # 0
      BY <3>1 DEF RecordInv, NothingRecordedIsLost
    <3>6. /\ new.password = Recorded(c).password
          /\ new.attempts = Recorded(c).attempts
          /\ new.deleted = Recorded(c).deleted
          /\ new.attempts >= MaxAttempts => new.lock # 0
      <4>1. /\ call[c].row \in User /\ call[c].op \in Changing
            /\ SameContent(call[c].row, user)
        BY <1>1, <3>2
      <4> HIDE DEF stamp
      <4>. QED  BY <1>1, <3>4, <3>5, <4>1, ChangedAsRecorded
    <3>7. user' = new /\ past' = Recorded(c)
      BY <1>3, <3>3
    <3>. QED  BY <3>6, <3>7 DEF NothingRecordedIsLost
  <2>. QED  BY <2>1, <2>2
<1>. QED  BY <1>8, <1>9 DEF RecordInv

\* The record is inductive on top of the invariant.
LEMMA NextRecorded ==
  ASSUME IInv, RecordInv, [Next]_vars
  PROVE  RecordInv'
<1>1. CASE Expire
  BY <1>1, ElsewhereRecorded DEF Expire
<1>2. CASE UNCHANGED vars
  BY <1>2, ElsewhereRecorded DEF vars
<1>3. ASSUME NEW c \in Calls, Read(c) \/ Stamp(c) \/ Save(c)
      PROVE  RecordInv'
  BY <1>3, ReadRecorded, StampRecorded, SaveRecorded
<1>4. ASSUME NEW c \in Calls,
             \/ Begin(c) \/ ForgotPassword(c) \/ Check(c) \/ Uncache(c) \/ Open(c)
             \/ MarkToken(c) \/ List(c) \/ Revoke(c) \/ Forget(c) \/ Ask(c) \/ Answer(c)
             \/ Fill(c) \/ Fails(c)
      PROVE  RecordInv'
  <2>1. UNCHANGED <<user, past, raced>>
    BY <1>4 DEF Begin, ForgotPassword, Check, Uncache, Open, MarkToken, List, Revoke, Forget,
                Ask, Answer, Fill, Fails
  <2>2. call[c] \in Request \/ call[c] = New
    BY <1>4 DEF IInv, TypeOK, Begin, Begins, ForgotPassword, Check, Uncache, Open, MarkToken,
                List, Revoke, Forget, Ask, Answer, Fill, Fails
  <2>3. /\ \A d \in Calls \ {c} : call'[d] = call[d]
        /\ call'[c].at \notin {"stamp", "save"}
    <3>1. CASE Begin(c)
      BY <3>1 DEF IInv, TypeOK, Begin, Begins
    <3>2. CASE ForgotPassword(c) \/ Uncache(c) \/ Open(c) \/ Fails(c)
      BY <3>2 DEF IInv, TypeOK, ForgotPassword, Uncache, Open, Fails
    <3>3. CASE Check(c) \/ MarkToken(c) \/ Ask(c) \/ Answer(c) \/ Fill(c)
      BY <2>2, <3>3 DEF IInv, TypeOK, Check, MarkToken, Ask, Answer, Fill, Request
    <3>4. CASE List(c) \/ Revoke(c) \/ Forget(c)
      BY <2>2, <3>4 DEF IInv, TypeOK, List, Revoke, Forget, Revoked, Request
    <3>. QED  BY <1>4, <3>1, <3>2, <3>3, <3>4
  <2>4. \A d \in Calls : Rewriting(d)' => call'[d] = call[d]
    BY <2>3 DEF Rewriting
  <2>. QED  BY <2>1, <2>4, ElsewhereRecorded
<1>. QED  BY <1>1, <1>2, <1>3, <1>4 DEF Next

\* Whatever requests overlap: the account has the password chosen last, the number of
\* failed logins since the last good one with its lock, and its deletion, unless one
\* request stored a row made of one that another had replaced.
THEOREM RecordsAreKept == Spec => []NothingRecordedIsLost
<1>1. Init => RecordInv
  BY DEF Init, RecordInv, RewriteInv, Rewriting, NothingRecordedIsLost
<1>2. IInv /\ RecordInv /\ [Next]_vars => RecordInv'
  BY NextRecorded
<1>3. RecordInv => NothingRecordedIsLost
  BY DEF RecordInv
<1>. QED  BY <1>1, <1>2, <1>3, Invariance, PTL DEF Spec

-----------------------------------------------------------------------------
(* Members. *)

\* r counts for its user among the rows R.
LatestIn(R, r) == r \in R /\ \A s \in R : s.user = r.user => s.stamp <= r.stamp

Typed ==
  /\ rows \in SUBSET Row
  /\ clock \in Nat /\ \A r \in rows : r.stamp <= clock
  /\ \A r, s \in rows : r.user = s.user /\ r.stamp = s.stamp => r = s
  /\ deletes \in SUBSET [id : Id, stamp : Nat]
  /\ offers \in [TeamCalls -> Offer \cup {NoOffer}]
  /\ \A i \in TeamCalls : offers[i] = NoOffer \/ offers[i].id = i
  /\ teamCall \in [TeamCalls -> {TeamNew, TeamDone} \cup TeamRequest]
  /\ teamFaults \in 0..MaxTeamFaults
  /\ teamRaced \in BOOLEAN /\ overlapped \in BOOLEAN
  /\ twice \in SUBSET Users /\ gone \in SUBSET Users
  /\ joins \in [TeamCalls -> Nat]
  /\ unmarked \in SUBSET TeamCalls

\* What a request knows at each step about what it has read.
HasTarget(r) == r.row \in Row /\ r.row.user = r.target /\ r.row \in r.seen
Knows(c, r) ==
  /\ r.op \in {"updateRole", "remove", "leave", "transfer"} /\ r.at \in {"count", "write"} => HasTarget(r)
  /\ r.op = "transfer" /\ r.at \in {"target", "write"} =>
       /\ r.mine \in Row /\ r.mine.user = r.actor /\ r.mine \in r.seen
       /\ r.actor # r.target
  /\ r.op = "updateRole" /\ r.at = "write" => r.row.role # "owner"
  /\ r.op \in {"remove", "leave"} /\ r.at = "write" /\ r.row.role = "owner" =>
       \E s \in r.seen : s.role = "owner" /\ s # r.row
  /\ r.op = "create" => r.invitation = c /\ r.role # "owner"
  /\ r.op = "accept" /\ r.at \in {"join", "mark"} => r.offer \in Offer /\ r.offer.id = r.invitation
  /\ r.op = "accept" /\ r.at = "join" => r.offer.status = "pending"
  /\ r.op \in {"resend", "revoke"} /\ r.at = "write" =>
       r.offer \in Offer /\ r.offer.id = r.invitation /\ r.offer.status = "pending"
  /\ r.at = "mark" => r.op = "accept"

RequestsKnow == \A c \in TeamCalls : teamCall[c] \in TeamRequest => Knows(c, teamCall[c])

\* A request that has yet to use its own name for an id or an invitation.
Unnamed(c) == teamCall[c] = TeamNew \/ (teamCall[c] \in TeamRequest /\ teamCall[c].at # "mark")
Unoffered(c) == teamCall[c] = TeamNew \/ (teamCall[c] \in TeamRequest /\ teamCall[c].op = "create")

\* Ids tell users apart, and only a user who joined twice has two.
IdsApart ==
  /\ \A r, s \in rows : r.id = s.id => r.user = s.user
  /\ \A r, s \in rows : r.user = s.user /\ r.user \notin twice => r.id = s.id
  /\ \A c \in TeamCalls : Unnamed(c) => \A r \in rows : r.id # c

\* An owner whom no mutation will delete.
SafeOwner(o) == /\ LatestIn(rows, o) /\ o.role = "owner"
                /\ \A d \in deletes : d.id # o.id
OwnerStays == twice = {} => \E o \in rows : SafeOwner(o)

\* Every row of a user who left is about to be deleted.
Leaving == \A u \in gone \ twice : \A r \in rows : r.user = u =>
             \E d \in deletes : d.id = r.id /\ r.stamp < d.stamp

\* d has used the invitation i and not marked it.
Marks(d, i) == teamCall[d] \in TeamRequest /\ teamCall[d].at = "mark" /\ teamCall[d].invitation = i

Invites(r) == r.op \in {"accept", "resend", "revoke"}

OffersUsedOnce ==
  /\ \A c \in TeamCalls : Unoffered(c) => offers[c] = NoOffer
  /\ \A c \in TeamCalls : teamCall[c] \in TeamRequest /\ Invites(teamCall[c]) => offers[teamCall[c].invitation] # NoOffer
  /\ \A i \in TeamCalls : offers[i] = NoOffer => joins[i] = 0
  /\ \A i \in TeamCalls \ unmarked :
       joins[i] = 0 \/ (joins[i] = 1 /\ (offers[i].status = "accepted" \/ \E d \in TeamCalls : Marks(d, i)))

TeamInv == /\ Typed /\ RequestsKnow
           /\ ~teamRaced => IdsApart /\ OwnerStays /\ Leaving /\ OffersUsedOnce

-----------------------------------------------------------------------------
(* Rows and requests. *)

\* Every bounded set of naturals that has a member has a greatest one: the intervals from its members
\* to the bound are well founded.
LEMMA GreatestNatural ==
  ASSUME NEW n \in Nat, NEW S \in SUBSET (0..n), S # {}
  PROVE  \E m \in S : \A x \in S : x <= m
<1> DEFINE F == {m..n : m \in S}
<1>1. IsWellFoundedOn(StrictSubsetOrdering(0..n), FiniteSubsetsOf(0..n))
  BY FS_StrictSubsetOrderingWellFounded
<1>2. F \subseteq FiniteSubsetsOf(0..n)
  <2> SUFFICES ASSUME NEW m \in S PROVE m..n \in FiniteSubsetsOf(0..n)
    OBVIOUS
  <2>1. m \in Int /\ n \in Int /\ 0 <= m
    OBVIOUS
  <2>2. IsFiniteSet(m..n)
    BY <2>1, FS_Interval
  <2>3. m..n \subseteq 0..n
    BY <2>1
  <2>. QED  BY <2>2, <2>3 DEF FiniteSubsetsOf
<1>3. F # {}
  OBVIOUS
<1>4. \E A \in F : \A B \in F : ~(<<B, A>> \in StrictSubsetOrdering(0..n))
  <2> HIDE DEF F
  <2>. QED  BY <1>1, <1>2, <1>3, WFMin
<1>5. PICK m \in S : \A B \in F : ~(<<B, m..n>> \in StrictSubsetOrdering(0..n))
  BY <1>4
<1>6. ASSUME NEW x \in S, m < x PROVE FALSE
  <2>1. x \in Int /\ m \in Int /\ n \in Int /\ 0 <= m /\ m <= n
    OBVIOUS
  <2>2. x..n \in F
    OBVIOUS
  <2>3. /\ x..n \in SUBSET (0..n) /\ m..n \in SUBSET (0..n)
        /\ x..n \subseteq m..n
    BY <1>6, <2>1
  <2>4. m \in m..n /\ m \notin x..n
    BY <1>6, <2>1
  <2>5. <<x..n, m..n>> \in StrictSubsetOrdering(0..n)
    BY <2>3, <2>4 DEF StrictSubsetOrdering
  <2>. QED  BY <1>5, <2>2, <2>5
<1>. QED  BY <1>6

\* The newest row of a user is the one that counts, and there is but one.
LEMMA NewestRows ==
  ASSUME Typed, NEW u \in Users
  PROVE  /\ \A r : r \in Newest(u) <=> LatestIn(rows, r) /\ r.user = u
         /\ \A r, s \in Newest(u) : r = s
<1>1. \A r : r \in Newest(u) <=> LatestIn(rows, r) /\ r.user = u
  BY DEF Newest, LatestIn
<1>2. ASSUME NEW r \in Newest(u), NEW s \in Newest(u) PROVE r = s
  <2>1. r \in rows /\ s \in rows /\ r.user = s.user /\ r.stamp <= s.stamp /\ s.stamp <= r.stamp
    BY DEF Newest
  <2>2. r.stamp \in Nat /\ s.stamp \in Nat
    BY <2>1 DEF Typed, Row
  <2> QED BY <2>1, <2>2 DEF Typed
<1> QED BY <1>1, <1>2

\* FINAL gives the newest row of each user, and one of each.
LEMMA CurrentRows ==
  ASSUME Typed
  PROVE  /\ \A r : r \in Current <=> LatestIn(rows, r)
         /\ \A r, s \in Current : r.user = s.user => r = s
<1>1. \A r \in rows : r.user \in Users
  BY DEF Typed, Row
<1>2. \A r : r \in Current <=> LatestIn(rows, r)
  BY <1>1, NewestRows DEF Current, LatestIn
<1>3. ASSUME NEW r \in Current, NEW s \in Current, r.user = s.user PROVE r = s
  <2>1. r.user \in Users /\ r \in Newest(r.user) /\ s \in Newest(r.user)
    BY <1>1, <1>2, <1>3, NewestRows DEF LatestIn
  <2> QED BY <2>1, NewestRows
<1> QED BY <1>2, <1>3

\* Who has a row is a member.
LEMMA RowsMakeMembers ==
  ASSUME Typed, NEW r \in rows
  PROVE  IsMember(r.user)
<1> DEFINE S == {s.stamp : s \in {s \in rows : s.user = r.user}}
<1>1. S \in SUBSET (0..clock) /\ S # {} /\ clock \in Nat
  BY DEF Typed, Row
<1>2. PICK m \in S : \A x \in S : x <= m
  <2> HIDE DEF S
  <2> QED BY <1>1, GreatestNatural
<1>3. PICK s \in rows : s.user = r.user /\ s.stamp = m
  BY <1>2
<1>4. s \in Newest(r.user)
  BY <1>2, <1>3 DEF Newest
<1> QED BY <1>4 DEF IsMember

\* What a SELECT of a member finds.
LEMMA MembersHaveRows ==
  ASSUME Typed, NEW u \in Users, IsMember(u)
  PROVE  /\ RowOf(u) \in Newest(u)
         /\ RowOf(u) \in Row /\ RowOf(u).user = u
         /\ LatestIn(rows, RowOf(u))
<1>1. RowOf(u) \in Newest(u)
  BY DEF IsMember, RowOf
<1> QED BY <1>1, NewestRows DEF Typed, LatestIn

\* A request in progress is neither new nor done.
LEMMA StatesDiffer ==
  /\ TeamNew \notin TeamRequest /\ TeamDone \notin TeamRequest /\ TeamNew # TeamDone
  /\ \A r \in TeamRequest : r.at \notin {"new", "done"}
<1>1. \A r \in TeamRequest : r.at \in {"mine", "target", "count", "pending", "offer", "write", "join", "mark"}
  BY DEF TeamRequest
<1>2. TeamNew.at = "new" /\ TeamDone.at = "done"
  BY DEF TeamNew, TeamDone
<1> QED BY <1>1, <1>2

\* Requests in progress.
LEMMA InProgressIsRequest ==
  ASSUME Typed
  PROVE  InProgress = {c \in TeamCalls : teamCall[c] \in TeamRequest}
<1>1. \A c \in TeamCalls : teamCall[c] \in {TeamNew, TeamDone} \cup TeamRequest
  BY DEF Typed
<1>2. TeamNew.at = "new" /\ TeamDone.at = "done"
  BY DEF TeamNew, TeamDone
<1> QED BY <1>1, <1>2, StatesDiffer DEF InProgress

\* What a request that is not teamRaced has read is what counts, and no mutation will delete it.
LEMMA FreshReads ==
  ASSUME Typed, NEW c \in TeamCalls, ~Stale(c), NEW r \in teamCall[c].seen
  PROVE  r \in Current /\ LatestIn(rows, r) /\ \A d \in deletes : d.id # r.id
BY CurrentRows DEF Stale

-----------------------------------------------------------------------------
(* Steps that only read. *)

ReadsOn(c) ==
  /\ teamCall' = [teamCall EXCEPT ![c] = teamCall'[c]]
  /\ Unnamed(c)
  /\ \/ teamCall'[c] = TeamDone
     \/ /\ teamCall'[c] \in TeamRequest /\ teamCall'[c].at # "mark" /\ Knows(c, teamCall'[c])
        /\ teamCall'[c].op = "create" => Unoffered(c)
        /\ Invites(teamCall'[c]) => offers[teamCall'[c].invitation] # NoOffer
  /\ overlapped' \in BOOLEAN
  /\ UNCHANGED <<rows, deletes, offers, clock, teamFaults, teamRaced, twice, gone, joins, unmarked>>

\* A request that reads and writes nothing keeps the invariant, if it knows what it has read.
LEMMA ReadingKeeps ==
  ASSUME TeamInv, NEW c \in TeamCalls, ReadsOn(c)
  PROVE  TeamInv'
<1> USE DEF TeamInv
<1>1. /\ UNCHANGED <<rows, deletes, offers, clock, teamFaults, teamRaced, twice, gone, joins, unmarked>>
      /\ overlapped' \in BOOLEAN
  BY DEF ReadsOn
<1>2. /\ teamCall' \in [TeamCalls -> {TeamNew, TeamDone} \cup TeamRequest]
      /\ \A b \in TeamCalls \ {c} : teamCall'[b] = teamCall[b]
  BY DEF ReadsOn, Typed
<1>3. Typed'
  BY <1>1, <1>2 DEF Typed
<1>4. RequestsKnow'
  BY <1>2, StatesDiffer DEF ReadsOn, RequestsKnow
<1>5. \A b \in TeamCalls : Unnamed(b)' => Unnamed(b)
  BY <1>2, StatesDiffer DEF ReadsOn, Unnamed
<1>6. \A b \in TeamCalls : Unoffered(b)' => Unoffered(b)
  BY <1>2, StatesDiffer DEF ReadsOn, Unoffered
<1>7. \A b, i \in TeamCalls : Marks(b, i) => Marks(b, i)'
  <2> SUFFICES ASSUME NEW b \in TeamCalls, NEW i \in TeamCalls, Marks(b, i) PROVE Marks(b, i)'
    OBVIOUS
  <2>1. b # c
    BY StatesDiffer DEF ReadsOn, Unnamed, Marks
  <2> QED BY <1>2, <2>1 DEF Marks
<1>8. IdsApart => IdsApart'
  BY <1>1, <1>5 DEF IdsApart
<1>9. OwnerStays => OwnerStays'
  BY <1>1 DEF OwnerStays, SafeOwner, LatestIn
<1>10. Leaving => Leaving'
  BY <1>1 DEF Leaving
<1>11. OffersUsedOnce => OffersUsedOnce'
  <2> SUFFICES ASSUME OffersUsedOnce PROVE OffersUsedOnce'
    OBVIOUS
  <2>1. \A b \in TeamCalls : Unoffered(b)' => offers'[b] = NoOffer
    BY <1>1, <1>6 DEF OffersUsedOnce
  <2>2. \A i \in TeamCalls : offers'[i] = NoOffer => joins'[i] = 0
    BY <1>1 DEF OffersUsedOnce
  <2>4. ASSUME NEW b \in TeamCalls, teamCall'[b] \in TeamRequest, Invites(teamCall'[b])
        PROVE  offers'[teamCall'[b].invitation] # NoOffer
    BY <1>1, <1>2, <2>4, StatesDiffer DEF ReadsOn, OffersUsedOnce
  <2>3. ASSUME NEW i \in TeamCalls \ unmarked', ~(joins'[i] = 0)
        PROVE  joins'[i] = 1 /\ (offers'[i].status = "accepted" \/ \E d \in TeamCalls : Marks(d, i)')
    BY <1>1, <1>7, <2>3 DEF OffersUsedOnce
  <2>5. \A b \in TeamCalls : teamCall'[b] \in TeamRequest /\ Invites(teamCall'[b]) => offers'[teamCall'[b].invitation] # NoOffer
    BY <2>4
  <2> HIDE DEF Invites
  <2> QED BY <2>1, <2>2, <2>3, <2>5 DEF OffersUsedOnce, Invites
<1> QED BY <1>1, <1>3, <1>4, <1>8, <1>9, <1>10, <1>11

\* The same, for a step that replaces the state of one request.
LEMMA ReadsStep ==
  ASSUME TeamInv, NEW c \in TeamCalls, Unnamed(c), NEW x,
         x = TeamDone \/ (/\ x \in TeamRequest /\ x.at # "mark" /\ Knows(c, x)
                          /\ x.op = "create" => Unoffered(c)
                          /\ Invites(x) => offers[x.invitation] # NoOffer),
         teamCall' = [teamCall EXCEPT ![c] = x], overlapped' \in BOOLEAN,
         UNCHANGED <<rows, deletes, offers, clock, teamFaults, teamRaced, twice, gone, joins, unmarked>>
  PROVE  TeamInv'
<1>1. teamCall'[c] = x
  BY DEF TeamInv, Typed
<1>2. ReadsOn(c)
  BY <1>1 DEF ReadsOn
<1> QED BY <1>2, ReadingKeeps

\* A request that passes its guard starts by knowing the row of its actor.
LEMMA GuardedKeeps ==
  ASSUME TeamInv, NEW c \in TeamCalls, NEW op \in {"updateRole", "remove", "leave", "transfer", "create"},
         NEW actor \in Users, IsMember(actor), NEW roles, NEW target \in Users, NEW role \in Role,
         op = "create" => role # "owner",
         Guarded(c, op, actor, roles, target, role)
  PROVE  TeamInv'
<1>1. PICK x : x = [op |-> op, at |-> IF op = "transfer" THEN "mine" ELSE "target",
                    actor |-> actor, as |-> RowOf(actor).role, target |-> target,
                    role |-> role, row |-> NoMember, mine |-> NoMember, seen |-> Newest(actor),
                    offer |-> NoOffer, invitation |-> c]
  OBVIOUS
<1>2. Typed
  BY DEF TeamInv
<1>3. /\ teamCall[c] = TeamNew /\ teamCall' = [teamCall EXCEPT ![c] = x]
      /\ overlapped' = (overlapped \/ InProgress # {})
      /\ UNCHANGED <<rows, deletes, offers, clock, teamFaults, teamRaced, twice, gone, joins, unmarked>>
  BY <1>1 DEF Guarded, Starts
<1>4. RowOf(actor).role \in Role
  BY <1>2, MembersHaveRows DEF Row
<1>5. Newest(actor) \in SUBSET Row
  BY <1>2 DEF Newest, Typed
<1>6. x \in TeamRequest
  BY <1>1, <1>4, <1>5 DEF TeamRequest
<1>7. Knows(c, x) /\ x.at # "mark" /\ ~Invites(x)
  BY <1>1 DEF Knows, Invites
<1>8. Unnamed(c) /\ Unoffered(c)
  BY <1>3 DEF Unnamed, Unoffered
<1>9. overlapped' \in BOOLEAN
  BY <1>2, <1>3 DEF Typed
<1> QED BY <1>3, <1>6, <1>7, <1>8, <1>9, ReadsStep

\* Every request of an existing member keeps the invariant when it begins.
LEMMA BeginKeeps ==
  ASSUME TeamIsFounded, TeamInv, NEW c \in TeamCalls, TeamBegins(c)
  PROVE  TeamInv'
<1>1. PICK actor \in Users : IsMember(actor) /\
       \/ \E target \in Users :
            \/ \E role \in Asked : Guarded(c, "updateRole", actor, Manager, target, role)
            \/ Guarded(c, "remove", actor, Manager, target, "viewer")
            \/ Guarded(c, "transfer", actor, Role, target, "viewer")
            \/ \E role \in Asked \ {"owner"} :
                  Guarded(c, "create", actor, Manager, target, role)
       \/ Guarded(c, "leave", actor, Role, actor, "viewer")
  BY DEF TeamBegins
<1>2. Asked \subseteq Role /\ "viewer" \in Role /\ "viewer" # "owner"
  BY DEF TeamIsFounded, Role
<1> QED BY <1>1, <1>2, GuardedKeeps

\* So does a request about an invitation.
LEMMA BeginInvitationKeeps ==
  ASSUME TeamInv, NEW c \in TeamCalls, BeginInvitation(c)
  PROVE  TeamInv'
<1>1. PICK i \in TeamCalls, op \in {"accept", "resend", "revoke"} :
        /\ offers[i] # NoOffer
        /\ Starts(c, [op |-> op, at |-> "offer", actor |-> offers[i].user, as |-> "viewer",
                      target |-> offers[i].user, role |-> offers[i].role, row |-> NoMember,
                      mine |-> NoMember, seen |-> {}, offer |-> NoOffer, invitation |-> i])
  BY DEF BeginInvitation
<1>2. PICK x : x = [op |-> op, at |-> "offer", actor |-> offers[i].user, as |-> "viewer",
                    target |-> offers[i].user, role |-> offers[i].role, row |-> NoMember,
                    mine |-> NoMember, seen |-> {}, offer |-> NoOffer, invitation |-> i]
  OBVIOUS
<1>3. Typed
  BY DEF TeamInv
<1>4. /\ teamCall[c] = TeamNew /\ teamCall' = [teamCall EXCEPT ![c] = x]
      /\ overlapped' = (overlapped \/ InProgress # {})
      /\ UNCHANGED <<rows, deletes, offers, clock, teamFaults, teamRaced, twice, gone, joins, unmarked>>
  BY <1>1, <1>2 DEF Starts
<1>5. offers[i].user \in Users /\ offers[i].role \in Role /\ "viewer" \in Role
  BY <1>1, <1>3 DEF Typed, Offer, Role
<1>6. x \in TeamRequest
  BY <1>2, <1>5 DEF TeamRequest
<1>7. Knows(c, x) /\ x.at # "mark" /\ x.op # "create" /\ offers[x.invitation] # NoOffer
  BY <1>1, <1>2 DEF Knows
<1>8. Unnamed(c)
  BY <1>4 DEF Unnamed
<1>9. overlapped' \in BOOLEAN
  BY <1>3, <1>4 DEF Typed
<1> QED BY <1>4, <1>6, <1>7, <1>8, <1>9, ReadsStep

\* A request that has read on is still one, of the same kind.
AfterRow(r, f, at) == [r EXCEPT !.at = at, !.row = f, !.seen = @ \cup {f}]
\* ... when it has read the row of its target,
LEMMA RequestAfterRow ==
  ASSUME NEW r \in TeamRequest, NEW f \in Row, NEW at \in {"count", "write"}, NEW x, x = AfterRow(r, f, at)
  PROVE  /\ x \in TeamRequest
         /\ x.at = at /\ x.row = f /\ x.seen = r.seen \cup {f}
         /\ x.op = r.op /\ x.actor = r.actor /\ x.as = r.as /\ x.target = r.target /\ x.role = r.role
         /\ x.mine = r.mine /\ x.offer = r.offer /\ x.invitation = r.invitation
BY DEF TeamRequest, AfterRow

AfterMine(r, f) == [r EXCEPT !.at = "target", !.mine = f, !.seen = @ \cup {f}]
\* ... when it has read the row of its actor,
LEMMA RequestAfterMine ==
  ASSUME NEW r \in TeamRequest, NEW f \in Row, NEW x, x = AfterMine(r, f)
  PROVE  /\ x \in TeamRequest
         /\ x.at = "target" /\ x.mine = f /\ x.seen = r.seen \cup {f}
         /\ x.op = r.op /\ x.actor = r.actor /\ x.target = r.target
BY DEF TeamRequest, AfterMine

AfterCount(r, S) == [r EXCEPT !.at = "write", !.seen = @ \cup S]
\* ... when it has counted owners,
LEMMA RequestAfterCount ==
  ASSUME NEW r \in TeamRequest, NEW S \in SUBSET Row, NEW x, x = AfterCount(r, S)
  PROVE  /\ x \in TeamRequest
         /\ x.at = "write" /\ x.row = r.row /\ x.seen = r.seen \cup S
         /\ x.op = r.op /\ x.target = r.target
BY DEF TeamRequest, AfterCount

AfterOffer(r, o, at) == [r EXCEPT !.at = at, !.offer = o]
\* ... when it has read the invitation,
LEMMA RequestAfterOffer ==
  ASSUME NEW r \in TeamRequest, NEW o \in Offer, NEW at \in {"join", "write"}, NEW x, x = AfterOffer(r, o, at)
  PROVE  /\ x \in TeamRequest
         /\ x.at = at /\ x.offer = o /\ x.op = r.op /\ x.invitation = r.invitation
BY DEF TeamRequest, AfterOffer

RequestAt(r, at) == [r EXCEPT !.at = at]
\* ... and when it goes on to another read.
LEMMA RequestGoesOn ==
  ASSUME NEW r \in TeamRequest, NEW at \in {"pending", "write"}, NEW x, x = RequestAt(r, at)
  PROVE  /\ x \in TeamRequest
         /\ x.at = at /\ x.op = r.op /\ x.invitation = r.invitation /\ x.role = r.role
BY DEF TeamRequest, RequestAt


\* The target of a request is read.
LEMMA ReadTargetKeeps ==
  ASSUME TeamInv, NEW c \in TeamCalls, ReadTarget(c)
  PROVE  TeamInv'
<1> DEFINE r == teamCall[c]
           f == RowOf(r.target)
<1>1. Typed /\ RequestsKnow
  BY DEF TeamInv
<1>2. /\ c \in InProgress /\ r.at = "target"
      /\ r.op \in {"updateRole", "remove", "leave", "transfer"}
      /\ UNCHANGED <<rows, deletes, offers, clock, teamFaults, teamRaced, overlapped, twice, gone, joins, unmarked>>
  BY DEF ReadTarget, IsAt, Reads, teamPast
<1>3. r \in TeamRequest /\ Knows(c, r)
  BY <1>1, <1>2, InProgressIsRequest DEF RequestsKnow
<1>4. Unnamed(c) /\ overlapped' \in BOOLEAN
  BY <1>1, <1>2, <1>3 DEF Unnamed, Typed
<1>5. \/ teamCall' = [teamCall EXCEPT ![c] = TeamDone]
      \/ /\ IsMember(r.target)
         /\ \E at \in {"count", "write"} :
              /\ teamCall' = [teamCall EXCEPT ![c] = AfterRow(r, f, at)]
              /\ r.op = "updateRole" => MayUpdate(r, f.role)
              /\ r.op \in {"remove", "leave"} => at = IF f.role = "owner" THEN "count" ELSE "write"
  <2>1. CASE IsAt(c, "updateRole", "target") /\ Reads(c, IsMember(r.target) /\ MayUpdate(r, f.role), AfterRow(r, f, "write"))
    BY <2>1 DEF Reads, IsAt
  <2>2. CASE /\ IsAt(c, "remove", "target")
             /\ Reads(c, IsMember(r.target) /\ MayRemove(r, f.role),
                         AfterRow(r, f, IF f.role = "owner" THEN "count" ELSE "write"))
    BY <2>2 DEF Reads, IsAt
  <2>3. CASE /\ IsAt(c, "leave", "target")
             /\ Reads(c, IsMember(r.target), AfterRow(r, f, IF f.role = "owner" THEN "count" ELSE "write"))
    BY <2>3 DEF Reads, IsAt
  <2>4. CASE IsAt(c, "transfer", "target") /\ Reads(c, IsMember(r.target), AfterRow(r, f, "write"))
    BY <2>4 DEF Reads, IsAt
  <2> QED BY <2>1, <2>2, <2>3, <2>4 DEF ReadTarget, AfterRow
<1>6. CASE teamCall' = [teamCall EXCEPT ![c] = TeamDone]
  BY <1>2, <1>4, <1>6, ReadsStep
<1>7. ASSUME IsMember(r.target), NEW at \in {"count", "write"},
             teamCall' = [teamCall EXCEPT ![c] = AfterRow(r, f, at)],
             r.op = "updateRole" => MayUpdate(r, f.role),
             r.op \in {"remove", "leave"} => at = IF f.role = "owner" THEN "count" ELSE "write"
      PROVE TeamInv'
  <2>1. r.target \in Users
    BY <1>3 DEF TeamRequest
  <2>2. f \in Row /\ f.user = r.target
    BY <1>1, <1>7, <2>1, MembersHaveRows
  <2>3. PICK x : x = AfterRow(r, f, at)
    OBVIOUS
  <2>4. /\ x \in TeamRequest
        /\ x.at = at /\ x.row = f /\ x.seen = r.seen \cup {f}
        /\ x.op = r.op /\ x.actor = r.actor /\ x.as = r.as /\ x.target = r.target /\ x.role = r.role
        /\ x.mine = r.mine /\ x.offer = r.offer /\ x.invitation = r.invitation
    BY <1>3, <2>2, <2>3, RequestAfterRow
  <2>5. r.op = "updateRole" => f.role # "owner"
    <3>1. r.as \in Role
      BY <1>3 DEF TeamRequest
    <3> QED BY <1>7, <3>1 DEF MayUpdate, Rank, Role
  <2>6. Knows(c, x)
    <3>1. HasTarget(x)
      BY <2>2, <2>4 DEF HasTarget
    <3>2. x.op = "transfer" => /\ x.mine \in Row /\ x.mine.user = x.actor /\ x.mine \in x.seen
                               /\ x.actor # x.target
      BY <1>2, <1>3, <2>4 DEF Knows
    <3>3. x.op \in {"remove", "leave"} /\ x.at = "write" => x.row.role # "owner"
      BY <1>7, <2>4
    <3>4. x.op = "updateRole" => x.row.role # "owner"
      BY <2>4, <2>5
    <3> QED BY <1>2, <2>4, <3>1, <3>2, <3>3, <3>4 DEF Knows
  <2>7. x.op # "create" /\ x.at # "mark" /\ ~Invites(x)
    BY <1>2, <2>4 DEF Invites
  <2> QED BY <1>2, <1>4, <1>7, <2>3, <2>4, <2>6, <2>7, ReadsStep
<1> QED BY <1>5, <1>6, <1>7

\* The row of the actor is read again.
LEMMA ReadMineKeeps ==
  ASSUME TeamInv, NEW c \in TeamCalls, ReadMine(c)
  PROVE  TeamInv'
<1> DEFINE r == teamCall[c]
           f == RowOf(r.actor)
<1>1. Typed /\ RequestsKnow
  BY DEF TeamInv
<1>2. /\ c \in InProgress /\ r.at = "mine" /\ r.op = "transfer"
      /\ UNCHANGED <<rows, deletes, offers, clock, teamFaults, teamRaced, overlapped, twice, gone, joins, unmarked>>
  BY DEF ReadMine, IsAt, Reads, teamPast
<1>3. r \in TeamRequest
  BY <1>1, <1>2, InProgressIsRequest
<1>4. Unnamed(c) /\ overlapped' \in BOOLEAN
  BY <1>1, <1>2, <1>3 DEF Unnamed, Typed
<1>5. PICK x : x = AfterMine(r, f)
  OBVIOUS
<1>6. \/ teamCall' = [teamCall EXCEPT ![c] = TeamDone]
      \/ IsMember(r.actor) /\ MayTransfer(r, f.role) /\ teamCall' = [teamCall EXCEPT ![c] = x]
  BY <1>5 DEF ReadMine, Reads, AfterMine
<1>7. CASE teamCall' = [teamCall EXCEPT ![c] = TeamDone]
  BY <1>2, <1>4, <1>7, ReadsStep
<1>8. CASE IsMember(r.actor) /\ MayTransfer(r, f.role) /\ teamCall' = [teamCall EXCEPT ![c] = x]
  <2>1. r.actor \in Users
    BY <1>3 DEF TeamRequest
  <2>2. f \in Row /\ f.user = r.actor
    BY <1>1, <1>8, <2>1, MembersHaveRows
  <2>3. /\ x \in TeamRequest
        /\ x.at = "target" /\ x.mine = f /\ x.seen = r.seen \cup {f}
        /\ x.op = r.op /\ x.actor = r.actor /\ x.target = r.target
    BY <1>3, <1>5, <2>2, RequestAfterMine
  <2>4. Knows(c, x)
    BY <1>2, <1>8, <2>2, <2>3 DEF Knows, MayTransfer
  <2>5. x.op # "create" /\ x.at # "mark" /\ ~Invites(x)
    BY <1>2, <2>3 DEF Invites
  <2> QED BY <1>2, <1>4, <1>8, <2>3, <2>4, <2>5, ReadsStep
<1> QED BY <1>6, <1>7, <1>8

\* Of more than one there is another.
LEMMA AnotherOwner ==
  ASSUME NEW S, OwnerLeft(Cardinality(S)), NEW x
  PROVE  \E s \in S : s # x
<1>1. S # {}
  BY FS_EmptySet DEF OwnerLeft
<1>2. S # {x}
  BY FS_Singleton DEF OwnerLeft
<1> QED BY <1>1, <1>2

\* An owner is only taken away when another one was counted.
LEMMA CountOwnersKeeps ==
  ASSUME TeamInv, NEW c \in TeamCalls, CountOwners(c)
  PROVE  TeamInv'
<1> DEFINE r == teamCall[c]
<1>1. Typed /\ RequestsKnow
  BY DEF TeamInv
<1>2. /\ c \in InProgress /\ r.at = "count" /\ r.op \in {"remove", "leave"}
      /\ UNCHANGED <<rows, deletes, offers, clock, teamFaults, teamRaced, overlapped, twice, gone, joins, unmarked>>
  BY DEF CountOwners, IsAt, Reads, teamPast
<1>3. r \in TeamRequest /\ Knows(c, r)
  BY <1>1, <1>2, InProgressIsRequest DEF RequestsKnow
<1>4. Unnamed(c) /\ overlapped' \in BOOLEAN
  BY <1>1, <1>2, <1>3 DEF Unnamed, Typed
<1>5. PICK x : x = AfterCount(r, Owners)
  OBVIOUS
<1>6. \/ teamCall' = [teamCall EXCEPT ![c] = TeamDone]
      \/ OwnerLeft(Cardinality(Owners)) /\ teamCall' = [teamCall EXCEPT ![c] = x]
  BY <1>5 DEF CountOwners, Reads, AfterCount
<1>7. CASE teamCall' = [teamCall EXCEPT ![c] = TeamDone]
  BY <1>2, <1>4, <1>7, ReadsStep
<1>8. CASE OwnerLeft(Cardinality(Owners)) /\ teamCall' = [teamCall EXCEPT ![c] = x]
  <2>1. Owners \in SUBSET Row
    BY <1>1, CurrentRows DEF Owners, LatestIn, Typed
  <2>2. /\ x \in TeamRequest
        /\ x.at = "write" /\ x.row = r.row /\ x.seen = r.seen \cup Owners
        /\ x.op = r.op /\ x.target = r.target
    BY <1>3, <1>5, <2>1, RequestAfterCount
  <2>3. HasTarget(x)
    BY <1>2, <1>3, <2>2 DEF Knows, HasTarget
  <2>4. \E s \in x.seen : s.role = "owner" /\ s # x.row
    <3>1. PICK s \in Owners : s # x.row
      BY <1>8, AnotherOwner
    <3> QED BY <2>2, <3>1 DEF Owners
  <2>5. Knows(c, x)
    BY <1>2, <2>2, <2>3, <2>4 DEF Knows
  <2>6. x.op # "create" /\ x.at # "mark" /\ ~Invites(x)
    BY <1>2, <2>2 DEF Invites
  <2> QED BY <1>2, <1>4, <1>8, <2>2, <2>5, <2>6, ReadsStep
<1> QED BY <1>6, <1>7, <1>8

\* No invitation is like an absent one.
LEMMA OffersDiffer ==
  /\ NoOffer \notin Offer /\ NoOffer.status = "none"
  /\ \A o \in Offer : o # NoOffer
<1>1. NoOffer.status = "none"
  BY DEF NoOffer
<1>2. \A o \in Offer : o.status # "none"
  BY DEF Offer
<1> QED BY <1>1, <1>2

\* What an invitation must not repeat is read.
LEMMA ReadForInvitationKeeps ==
  ASSUME TeamInv, NEW c \in TeamCalls, ReadForInvitation(c)
  PROVE  TeamInv'
<1> DEFINE r == teamCall[c]
<1>1. Typed /\ RequestsKnow
  BY DEF TeamInv
<1>2. /\ c \in InProgress /\ r.at \in {"target", "pending"} /\ r.op = "create"
      /\ UNCHANGED <<rows, deletes, offers, clock, teamFaults, teamRaced, overlapped, twice, gone, joins, unmarked>>
  BY DEF ReadForInvitation, IsAt, Reads, teamPast
<1>3. r \in TeamRequest /\ Knows(c, r)
  BY <1>1, <1>2, InProgressIsRequest DEF RequestsKnow
<1>4. Unnamed(c) /\ Unoffered(c) /\ overlapped' \in BOOLEAN
  BY <1>1, <1>2, <1>3 DEF Unnamed, Unoffered, Typed
<1>5. \/ teamCall' = [teamCall EXCEPT ![c] = TeamDone]
      \/ \E at \in {"pending", "write"} : teamCall' = [teamCall EXCEPT ![c] = RequestAt(r, at)]
  BY DEF ReadForInvitation, Reads, RequestAt
<1>6. CASE teamCall' = [teamCall EXCEPT ![c] = TeamDone]
  BY <1>2, <1>4, <1>6, ReadsStep
<1>7. ASSUME NEW at \in {"pending", "write"}, teamCall' = [teamCall EXCEPT ![c] = RequestAt(r, at)]
      PROVE  TeamInv'
  <2>1. PICK x : x = RequestAt(r, at)
    OBVIOUS
  <2>2. /\ x \in TeamRequest
        /\ x.at = at /\ x.op = r.op /\ x.invitation = r.invitation /\ x.role = r.role
    BY <1>3, <2>1, RequestGoesOn
  <2>3. Knows(c, x) /\ x.at # "mark" /\ ~Invites(x)
    BY <1>2, <1>3, <2>2 DEF Knows, Invites
  <2> QED BY <1>2, <1>4, <1>7, <2>1, <2>2, <2>3, ReadsStep
<1> QED BY <1>5, <1>6, <1>7

\* The invitation is read and must be pending.
LEMMA ReadOfferKeeps ==
  ASSUME TeamInv, NEW c \in TeamCalls, ReadOffer(c)
  PROVE  TeamInv'
<1> DEFINE r == teamCall[c]
           f == offers[r.invitation]
<1>1. Typed /\ RequestsKnow
  BY DEF TeamInv
<1>2. /\ c \in InProgress /\ r.at = "offer" /\ r.op \in {"accept", "resend", "revoke"}
      /\ UNCHANGED <<rows, deletes, offers, clock, teamFaults, teamRaced, overlapped, twice, gone, joins, unmarked>>
  BY DEF ReadOffer, IsAt, Reads, teamPast
<1>3. r \in TeamRequest
  BY <1>1, <1>2, InProgressIsRequest
<1>4. Unnamed(c) /\ overlapped' \in BOOLEAN
  BY <1>1, <1>2, <1>3 DEF Unnamed, Typed
<1>5. \/ teamCall' = [teamCall EXCEPT ![c] = TeamDone]
      \/ /\ f.status = "pending"
         /\ \E at \in {"join", "write"} :
              /\ teamCall' = [teamCall EXCEPT ![c] = AfterOffer(r, f, at)]
              /\ at = IF r.op = "accept" THEN "join" ELSE "write"
  BY DEF ReadOffer, Reads, IsAt, AfterOffer
<1>6. CASE teamCall' = [teamCall EXCEPT ![c] = TeamDone]
  BY <1>2, <1>4, <1>6, ReadsStep
<1>7. ASSUME f.status = "pending", NEW at \in {"join", "write"},
             teamCall' = [teamCall EXCEPT ![c] = AfterOffer(r, f, at)],
             at = IF r.op = "accept" THEN "join" ELSE "write"
      PROVE  TeamInv'
  <2>1. r.invitation \in TeamCalls
    BY <1>3 DEF TeamRequest
  <2>2. f \in Offer /\ f.id = r.invitation /\ f # NoOffer
    BY <1>1, <1>7, <2>1, OffersDiffer DEF Typed
  <2>3. PICK x : x = AfterOffer(r, f, at)
    OBVIOUS
  <2>4. /\ x \in TeamRequest
        /\ x.at = at /\ x.offer = f /\ x.op = r.op /\ x.invitation = r.invitation
    BY <1>3, <2>2, <2>3, RequestAfterOffer
  <2>5. Knows(c, x)
    BY <1>2, <1>7, <2>2, <2>4 DEF Knows
  <2>6. x.op # "create" /\ x.at # "mark" /\ offers[x.invitation] # NoOffer
    BY <1>2, <2>2, <2>4
  <2> QED BY <1>2, <1>4, <1>7, <2>3, <2>4, <2>5, <2>6, ReadsStep
<1> QED BY <1>5, <1>6, <1>7

-----------------------------------------------------------------------------
(* Steps that write. *)

\* The request ends: nobody else does anything.
LEMMA Ending ==
  ASSUME TeamInv, NEW c \in TeamCalls, teamCall[c] \in TeamRequest, teamCall' = [teamCall EXCEPT ![c] = TeamDone]
  PROVE  /\ teamCall' \in [TeamCalls -> {TeamNew, TeamDone} \cup TeamRequest]
         /\ RequestsKnow'
         /\ \A b \in TeamCalls : Unnamed(b)' => Unnamed(b)
         /\ \A b \in TeamCalls : Unoffered(b)' => Unoffered(b) /\ b # c
         /\ \A b \in TeamCalls : teamCall'[b] \in TeamRequest => b # c /\ teamCall'[b] = teamCall[b]
         /\ \A b, i \in TeamCalls : Marks(b, i) /\ b # c => Marks(b, i)'
<1>1. /\ teamCall' \in [TeamCalls -> {TeamNew, TeamDone} \cup TeamRequest]
      /\ teamCall'[c] = TeamDone
      /\ \A b \in TeamCalls \ {c} : teamCall'[b] = teamCall[b]
  BY DEF TeamInv, Typed
<1>2. \A b \in TeamCalls : teamCall'[b] \in TeamRequest => b # c /\ teamCall'[b] = teamCall[b]
  BY <1>1, StatesDiffer
<1>3. RequestsKnow'
  BY <1>2 DEF TeamInv, RequestsKnow
<1>4. \A b \in TeamCalls : Unnamed(b)' => Unnamed(b)
  BY <1>1, <1>2, StatesDiffer DEF Unnamed
<1>5. \A b \in TeamCalls : Unoffered(b)' => Unoffered(b) /\ b # c
  BY <1>1, <1>2, StatesDiffer DEF Unoffered
<1>6. \A b, i \in TeamCalls : Marks(b, i) /\ b # c => Marks(b, i)'
  BY <1>1 DEF Marks
<1> QED BY <1>1, <1>2, <1>3, <1>4, <1>5, <1>6

\* TeamNew rows are stamped with the time, so they count for their users.
LEMMA Inserted ==
  ASSUME Typed, NEW N \in SUBSET Row, rows' = rows \cup N, clock' = clock + 1,
         \A n \in N : n.stamp = clock + 1,
         \A n, m \in N : n.user = m.user => n = m
  PROVE  /\ rows' \in SUBSET Row
         /\ clock' \in Nat /\ \A r \in rows' : r.stamp <= clock'
         /\ \A r, s \in rows' : r.user = s.user /\ r.stamp = s.stamp => r = s
         /\ \A n \in N : LatestIn(rows', n)
         /\ \A o : LatestIn(rows, o) /\ (\A n \in N : n.user # o.user) => LatestIn(rows', o)
<1>1. /\ rows \in SUBSET Row /\ clock \in Nat
      /\ \A r \in rows : r.stamp \in Nat /\ r.stamp <= clock
  BY DEF Typed, Row
<1>2. \A r \in rows, n \in N : r.stamp # n.stamp /\ r.stamp <= n.stamp
  BY <1>1
<1>3. \A r \in rows' : r.stamp <= clock'
  BY <1>1
<1>4. \A r, s \in rows' : r.user = s.user /\ r.stamp = s.stamp => r = s
  BY <1>2 DEF Typed
<1>5. \A n \in N : LatestIn(rows', n)
  BY <1>1, <1>3 DEF LatestIn
<1>6. \A o : LatestIn(rows, o) /\ (\A n \in N : n.user # o.user) => LatestIn(rows', o)
  BY DEF LatestIn
<1>7. rows' \in SUBSET Row /\ clock' \in Nat
  BY <1>1
<1> HIDE DEF LatestIn
<1> QED BY <1>3, <1>4, <1>5, <1>6, <1>7, Zenon

\* What a request ends without touching offers leaves them used once.
LEMMA OffersAsTheyWere ==
  ASSUME TeamInv, NEW c \in TeamCalls, teamCall[c] \in TeamRequest, teamCall[c].at # "mark",
         teamCall' = [teamCall EXCEPT ![c] = TeamDone], UNCHANGED <<offers, joins, unmarked>>, OffersUsedOnce
  PROVE  OffersUsedOnce'
<1>1. \A b \in TeamCalls : Unoffered(b)' => offers'[b] = NoOffer
  BY Ending DEF OffersUsedOnce
<1>2. \A b \in TeamCalls : teamCall'[b] \in TeamRequest /\ Invites(teamCall'[b]) => offers'[teamCall'[b].invitation] # NoOffer
  BY Ending DEF OffersUsedOnce
<1>3. \A i \in TeamCalls : offers'[i] = NoOffer => joins'[i] = 0
  BY DEF OffersUsedOnce
<1>4. ASSUME NEW i \in TeamCalls \ unmarked', ~(joins'[i] = 0)
      PROVE  joins'[i] = 1 /\ (offers'[i].status = "accepted" \/ \E d \in TeamCalls : Marks(d, i)')
  <2>1. joins[i] = 1 /\ (offers[i].status = "accepted" \/ \E d \in TeamCalls : Marks(d, i))
    BY <1>4 DEF OffersUsedOnce
  <2>2. \A d \in TeamCalls : Marks(d, i) => d # c
    BY DEF Marks
  <2> QED BY <2>1, <2>2, Ending
<1>5. ASSUME NEW b \in TeamCalls, (teamCall[b] \in TeamRequest /\ Invites(teamCall[b]))'
      PROVE  (offers[teamCall[b].invitation])' # NoOffer
  BY <1>2, <1>5 DEF Invites
<1> QED BY <1>1, <1>3, <1>4, <1>5 DEF OffersUsedOnce

Rewritten(n, role, t) == [n EXCEPT !.role = role, !.stamp = t]
\* A rewritten row is that of the same user with the same id.
LEMMA RewrittenRow ==
  ASSUME NEW n \in Row, NEW role \in Role, NEW t \in Nat, NEW x, x = Rewritten(n, role, t)
  PROVE  /\ x \in Row /\ x.user = n.user /\ x.id = n.id /\ x.role = role /\ x.stamp = t
BY DEF Row, Rewritten

\* A role is written, or ownership is transferred.
LEMMA WriteMembersKeeps ==
  ASSUME TeamInv, NEW c \in TeamCalls, WriteMembers(c)
  PROVE  TeamInv'
<1> DEFINE r == teamCall[c]
<1>1. Typed /\ RequestsKnow
  BY DEF TeamInv
<1>2. /\ c \in InProgress /\ r.at = "write" /\ r.op \in {"updateRole", "transfer"}
      /\ teamCall' = [teamCall EXCEPT ![c] = TeamDone]
      /\ clock' = clock + 1
      /\ teamRaced' = (teamRaced \/ Stale(c))
      /\ UNCHANGED <<deletes, offers, teamFaults, overlapped, twice, gone, joins, unmarked>>
  BY DEF WriteMembers, IsAt, Insert
<1>3. r \in TeamRequest /\ Knows(c, r)
  BY <1>1, <1>2, InProgressIsRequest DEF RequestsKnow
<1>4. /\ r.row \in Row /\ r.row.user = r.target /\ r.row \in r.seen /\ r.role \in Role
      /\ r.op = "transfer" => /\ r.mine \in Row /\ r.mine.user = r.actor /\ r.mine \in r.seen
                              /\ r.actor # r.target
      /\ r.op = "updateRole" => r.row.role # "owner"
      /\ clock + 1 \in Nat
  BY <1>1, <1>2, <1>3 DEF Knows, HasTarget, TeamRequest, Typed
<1>5. PICK N \in SUBSET Row :
        /\ rows' = rows \cup N
        /\ \A n \in N : /\ n.stamp = clock + 1
                        /\ \E m \in r.seen : m.user = n.user /\ m.id = n.id
        /\ \A n, m \in N : n.user = m.user => n = m
        /\ r.op = "transfer" => \E n \in N : n.role = "owner" /\ n.id = r.row.id
        /\ r.op = "updateRole" => \A n \in N : n.user = r.row.user
  <2>1. PICK z : z = Rewritten(r.row, r.role, clock + 1)
    OBVIOUS
  <2>2. PICK x : x = Rewritten(r.mine, "admin", clock + 1)
    OBVIOUS
  <2>3. PICK y : y = Rewritten(r.row, "owner", clock + 1)
    OBVIOUS
  <2>4. PICK N : N = IF r.op = "updateRole" THEN {z} ELSE {x, y}
    OBVIOUS
  <2>5. rows' = rows \cup N
    BY <1>2, <2>1, <2>2, <2>3, <2>4 DEF WriteMembers, Insert, Rewritten
  <2>6. z \in Row /\ z.user = r.row.user /\ z.id = r.row.id /\ z.stamp = clock + 1
    BY <1>4, <2>1, RewrittenRow
  <2>7. ASSUME r.op = "transfer"
        PROVE  x \in Row /\ x.user = r.mine.user /\ x.id = r.mine.id /\ x.stamp = clock + 1
    <3>1. r.mine \in Row /\ clock + 1 \in Nat
      BY <1>4, <2>7
    <3>2. PICK role \in Role : role = "admin"
      BY DEF Role
    <3>3. x = Rewritten(r.mine, role, clock + 1)
      BY <2>2, <3>2
    <3> QED BY <3>1, <3>3, RewrittenRow
  <2>8. y \in Row /\ y.user = r.row.user /\ y.id = r.row.id /\ y.stamp = clock + 1 /\ y.role = "owner"
    <3>1. PICK role \in Role : role = "owner"
      BY DEF Role
    <3>2. y = Rewritten(r.row, role, clock + 1)
      BY <2>3, <3>1
    <3> QED BY <1>4, <3>1, <3>2, RewrittenRow
  <2>9. /\ N \in SUBSET Row
        /\ \A n \in N : /\ n.stamp = clock + 1
                        /\ \E m \in r.seen : m.user = n.user /\ m.id = n.id
        /\ \A n, m \in N : n.user = m.user => n = m
        /\ r.op = "transfer" => \E n \in N : n.role = "owner" /\ n.id = r.row.id
        /\ r.op = "updateRole" => \A n \in N : n.user = r.row.user
    <3>1. CASE r.op = "updateRole"
      <4>1. N = {z}
        BY <2>4, <3>1
      <4> QED BY <1>4, <2>6, <3>1, <4>1
    <3>2. CASE r.op = "transfer"
      <4>1. N = {x, y} /\ r.op # "updateRole"
        BY <2>4, <3>2
      <4> QED BY <1>4, <2>7, <2>8, <3>2, <4>1
    <3> QED BY <1>2, <3>1, <3>2
  <2> QED BY <2>5, <2>9
<1>6. /\ rows' \in SUBSET Row
      /\ clock' \in Nat /\ \A s \in rows' : s.stamp <= clock'
      /\ \A s, t \in rows' : s.user = t.user /\ s.stamp = t.stamp => s = t
      /\ \A n \in N : LatestIn(rows', n)
      /\ \A o : LatestIn(rows, o) /\ (\A n \in N : n.user # o.user) => LatestIn(rows', o)
  BY <1>1, <1>2, <1>5, Inserted
<1>7. Typed'
  <2>1. teamCall' \in [TeamCalls -> {TeamNew, TeamDone} \cup TeamRequest]
    BY <1>2, <1>3, Ending
  <2>2. teamRaced' \in BOOLEAN
    BY <1>1, <1>2 DEF Typed, Stale
  <2> QED BY <1>1, <1>2, <1>6, <2>1, <2>2 DEF Typed
<1>8. RequestsKnow'
  BY <1>2, <1>3, Ending
<1>9. ASSUME ~teamRaced' PROVE (IdsApart /\ OwnerStays /\ Leaving /\ OffersUsedOnce)'
  <2>1. ~teamRaced /\ ~Stale(c)
    BY <1>2, <1>9
  <2>2. IdsApart /\ OwnerStays /\ Leaving /\ OffersUsedOnce
    BY <2>1 DEF TeamInv
  <2>3. \A m \in r.seen : m \in Current /\ LatestIn(rows, m) /\ \A d \in deletes : d.id # m.id
    BY <1>1, <2>1, FreshReads
  <2>4. \A n \in rows' : \E m \in rows : m.user = n.user /\ m.id = n.id
    BY <1>5, <2>3 DEF LatestIn
  <2>5. IdsApart'
    <3>1. \A b \in TeamCalls : Unnamed(b)' => Unnamed(b)
      BY <1>2, <1>3, Ending
    <3>2. \A s, t \in rows' : s.id = t.id => s.user = t.user
      BY <2>2, <2>4 DEF IdsApart
    <3>3. \A s, t \in rows' : s.user = t.user /\ s.user \notin twice' => s.id = t.id
      BY <1>2, <2>2, <2>4 DEF IdsApart
    <3>4. \A b \in TeamCalls : Unnamed(b)' => \A s \in rows' : s.id # b
      BY <2>2, <2>4, <3>1 DEF IdsApart
    <3> QED BY <3>2, <3>3, <3>4 DEF IdsApart
  <2>6. OwnerStays'
    <3> SUFFICES ASSUME twice' = {} PROVE \E o \in rows' : SafeOwner(o)'
      BY DEF OwnerStays
    <3>1. PICK o \in rows : SafeOwner(o)
      BY <1>2, <2>2 DEF OwnerStays
    <3>2. CASE r.op = "transfer"
      <4>1. PICK n \in N : n.role = "owner" /\ n.id = r.row.id
        BY <1>5, <3>2
      <4>2. LatestIn(rows', n) /\ \A d \in deletes' : d.id # n.id
        BY <1>2, <1>4, <1>6, <2>3, <4>1
      <4>3. n \in rows'
        BY <1>5
      <4> QED BY <4>1, <4>2, <4>3 DEF SafeOwner
    <3>3. CASE r.op = "updateRole"
      <4>1. o.user # r.row.user
        <5>1. r.row \in Current /\ o \in Current /\ o # r.row
          BY <1>1, <1>4, <2>3, <3>1, <3>3, CurrentRows DEF SafeOwner
        <5> QED BY <1>1, <5>1, CurrentRows
      <4>2. LatestIn(rows', o)
        BY <1>5, <1>6, <3>1, <3>3, <4>1 DEF SafeOwner
      <4>3. o \in rows' /\ o.role = "owner" /\ \A d \in deletes' : d.id # o.id
        BY <1>2, <1>5, <3>1 DEF SafeOwner
      <4> QED BY <4>2, <4>3 DEF SafeOwner
    <3> QED BY <1>2, <3>2, <3>3
  <2>7. Leaving'
    <3> SUFFICES ASSUME NEW u \in gone' \ twice', NEW n \in rows', n.user = u
                 PROVE  \E d \in deletes' : d.id = n.id /\ n.stamp < d.stamp
      BY DEF Leaving
    <3>1. n \notin N
      <4> SUFFICES ASSUME n \in N PROVE FALSE
        OBVIOUS
      <4>1. PICK m \in r.seen : m.user = u /\ m.id = n.id
        BY <1>5
      <4>2. m \in rows /\ \A d \in deletes : d.id # m.id
        BY <2>3, <4>1 DEF LatestIn
      <4> QED BY <1>2, <2>2, <4>1, <4>2 DEF Leaving
    <3> QED BY <1>2, <1>5, <2>2, <3>1 DEF Leaving
  <2>8. OffersUsedOnce'
    BY <1>2, <1>3, <2>2, OffersAsTheyWere
  <2> QED BY <2>5, <2>6, <2>7, <2>8
<1> QED BY <1>7, <1>8, <1>9 DEF TeamInv

\* A member is deleted by a mutation that has yet to run.
LEMMA DeleteMemberKeeps ==
  ASSUME TeamInv, NEW c \in TeamCalls, DeleteMember(c)
  PROVE  TeamInv'
<1> DEFINE r == teamCall[c]
<1>1. Typed /\ RequestsKnow
  BY DEF TeamInv
<1>2. /\ c \in InProgress /\ r.at = "write" /\ r.op \in {"remove", "leave"}
      /\ teamCall' = [teamCall EXCEPT ![c] = TeamDone]
      /\ deletes' = deletes \cup {[id |-> r.row.id, stamp |-> clock + 1]}
      /\ clock' = clock + 1
      /\ gone' = gone \cup {r.target}
      /\ teamRaced' = (teamRaced \/ Stale(c))
      /\ UNCHANGED <<rows, offers, teamFaults, overlapped, twice, joins, unmarked>>
  BY DEF DeleteMember, IsAt
<1>3. r \in TeamRequest /\ Knows(c, r)
  BY <1>1, <1>2, InProgressIsRequest DEF RequestsKnow
<1>4. /\ r.row \in Row /\ r.row.user = r.target /\ r.row \in r.seen
      /\ r.row.role = "owner" => \E s \in r.seen : s.role = "owner" /\ s # r.row
      /\ clock \in Nat /\ r.row.id \in Id /\ r.target \in Users
  BY <1>1, <1>2, <1>3 DEF Knows, HasTarget, TeamRequest, Typed, Row
<1>5. Typed'
  <2>1. teamCall' \in [TeamCalls -> {TeamNew, TeamDone} \cup TeamRequest]
    BY <1>2, <1>3, Ending
  <2>2. teamRaced' \in BOOLEAN
    BY <1>1, <1>2 DEF Typed, Stale
  <2>3. \A s \in rows' : s.stamp <= clock'
    BY <1>1, <1>2 DEF Typed, Row
  <2>4. deletes' \in SUBSET [id : Id, stamp : Nat] /\ clock' \in Nat
    BY <1>1, <1>2, <1>4 DEF Typed
  <2>5. gone' \in SUBSET Users
    BY <1>1, <1>2, <1>4 DEF Typed
  <2> QED BY <1>1, <1>2, <2>1, <2>2, <2>3, <2>4, <2>5 DEF Typed
<1>6. RequestsKnow'
  BY <1>2, <1>3, Ending
<1>7. ASSUME ~teamRaced' PROVE (IdsApart /\ OwnerStays /\ Leaving /\ OffersUsedOnce)'
  <2>1. ~teamRaced /\ ~Stale(c)
    BY <1>2, <1>7
  <2>2. IdsApart /\ OwnerStays /\ Leaving /\ OffersUsedOnce
    BY <2>1 DEF TeamInv
  <2>3. \A m \in r.seen : m \in Current /\ LatestIn(rows, m) /\ \A d \in deletes : d.id # m.id
    BY <1>1, <2>1, FreshReads
  <2>4. IdsApart'
    <3>1. \A b \in TeamCalls : Unnamed(b)' => Unnamed(b)
      BY <1>2, <1>3, Ending
    <3> QED BY <1>2, <2>2, <3>1 DEF IdsApart
  <2>5. OwnerStays'
    <3> SUFFICES ASSUME twice' = {} PROVE \E o \in rows' : SafeOwner(o)'
      BY DEF OwnerStays
    <3>1. \E o \in rows : SafeOwner(o) /\ o # r.row
      <4>1. CASE r.row.role = "owner"
        BY <1>4, <2>3, <4>1 DEF SafeOwner, LatestIn
      <4>2. CASE r.row.role # "owner"
        BY <1>2, <2>2, <4>2 DEF OwnerStays, SafeOwner
      <4> QED BY <4>1, <4>2
    <3>2. PICK o \in rows : SafeOwner(o) /\ o # r.row
      BY <3>1
    <3>3. o.id # r.row.id
      <4>1. o \in Current /\ r.row \in Current /\ r.row \in rows
        BY <1>1, <1>4, <2>3, <3>2, CurrentRows DEF SafeOwner, LatestIn
      <4>2. o.user # r.row.user
        BY <1>1, <3>2, <4>1, CurrentRows
      <4> QED BY <2>2, <4>1, <4>2 DEF IdsApart
    <3> QED BY <1>2, <3>2, <3>3 DEF SafeOwner
  <2>6. Leaving'
    <3> SUFFICES ASSUME NEW u \in gone' \ twice', NEW n \in rows', n.user = u
                 PROVE  \E d \in deletes' : d.id = n.id /\ n.stamp < d.stamp
      BY DEF Leaving
    <3>1. CASE u \in gone
      BY <1>2, <2>2, <3>1 DEF Leaving
    <3>2. CASE u = r.target
      <4>1. r.row \in rows
        BY <1>4, <2>3 DEF LatestIn
      <4>2. n.id = r.row.id
        BY <1>2, <1>4, <2>2, <3>2, <4>1 DEF IdsApart
      <4>3. n.stamp < clock + 1
        BY <1>1, <1>2, <1>4 DEF Typed, Row
      <4>4. [id |-> r.row.id, stamp |-> clock + 1] \in deletes'
        BY <1>2
      <4> QED BY <4>2, <4>3, <4>4
    <3> QED BY <1>2, <3>1, <3>2
  <2>7. OffersUsedOnce'
    BY <1>2, <1>3, <2>2, OffersAsTheyWere
  <2> QED BY <2>4, <2>5, <2>6, <2>7
<1> QED BY <1>5, <1>6, <1>7 DEF TeamInv

AfterJoin(r, t) == [r EXCEPT !.at = "mark", !.offer = [@ EXCEPT !.stamp = t]]
\* A request that has inserted the member goes on to mark its invitation.
LEMMA RequestAfterJoin ==
  ASSUME NEW r \in TeamRequest, r.offer \in Offer, NEW t \in Nat, NEW x, x = AfterJoin(r, t)
  PROVE  /\ x \in TeamRequest /\ x.at = "mark" /\ x.op = r.op /\ x.invitation = r.invitation
         /\ x.offer \in Offer /\ x.offer.id = r.offer.id
<1>1. PICK o : o = [r.offer EXCEPT !.stamp = t]
  OBVIOUS
<1>2. o \in Offer /\ o.id = r.offer.id
  BY <1>1 DEF Offer
<1>3. x = [r EXCEPT !.at = "mark", !.offer = o]
  BY <1>1 DEF AfterJoin
<1> QED BY <1>2, <1>3 DEF TeamRequest

\* Whoever accepts an invitation becomes a member.
LEMMA JoinKeeps ==
  ASSUME TeamInv, NEW c \in TeamCalls, Join(c)
  PROVE  TeamInv'
<1> DEFINE r == teamCall[c]
           i == r.invitation
<1>1. Typed /\ RequestsKnow
  BY DEF TeamInv
<1>2. /\ c \in InProgress /\ r.at = "join" /\ r.op = "accept"
      /\ clock' = clock + 1
      /\ teamRaced' = (teamRaced \/ offers[i] # r.offer \/ InUse(c))
      /\ twice' = IF IsMember(r.target) THEN twice \cup {r.target} ELSE twice
      /\ gone' = gone \ {r.target}
      /\ joins' = [joins EXCEPT ![i] = @ + 1]
      /\ UNCHANGED <<deletes, offers, teamFaults, overlapped, unmarked>>
  BY DEF Join, IsAt, Insert
<1>3. r \in TeamRequest /\ Knows(c, r)
  BY <1>1, <1>2, InProgressIsRequest DEF RequestsKnow
<1>4. /\ r.offer \in Offer /\ r.offer.id = i /\ r.offer.status = "pending"
      /\ r.target \in Users /\ i \in TeamCalls /\ clock + 1 \in Nat
  BY <1>1, <1>2, <1>3 DEF Knows, TeamRequest, Typed
<1>5. PICK n : n = [user |-> r.target, id |-> c, role |-> r.offer.role, stamp |-> clock + 1]
  OBVIOUS
<1>6. rows' = rows \cup {n}
  BY <1>5 DEF Join, Insert
<1>7. n \in Row /\ n.user = r.target /\ n.id = c /\ n.stamp = clock + 1
  BY <1>4, <1>5 DEF Row, Id, Offer
<1>8. PICK x : x = AfterJoin(r, clock + 1)
  OBVIOUS
<1>9. /\ x \in TeamRequest /\ x.at = "mark" /\ x.op = r.op /\ x.invitation = i
      /\ x.offer \in Offer /\ x.offer.id = i
  BY <1>3, <1>4, <1>8, RequestAfterJoin
<1>10. teamCall' = [teamCall EXCEPT ![c] = x]
  BY <1>1, <1>8 DEF Join, AfterJoin, Typed
<1>11. /\ teamCall' \in [TeamCalls -> {TeamNew, TeamDone} \cup TeamRequest]
       /\ teamCall'[c] = x
       /\ \A b \in TeamCalls \ {c} : teamCall'[b] = teamCall[b]
  BY <1>1, <1>9, <1>10 DEF Typed
<1>12. /\ rows' \in SUBSET Row
       /\ clock' \in Nat /\ \A s \in rows' : s.stamp <= clock'
       /\ \A s, t \in rows' : s.user = t.user /\ s.stamp = t.stamp => s = t
       /\ \A o : LatestIn(rows, o) /\ o.user # r.target => LatestIn(rows', o)
  <2>1. PICK N \in SUBSET Row : N = {n}
    BY <1>7
  <2>2. rows' = rows \cup N /\ \A m \in N : m = n
    BY <1>6, <2>1
  <2>3. Typed /\ rows' = rows \cup N /\ clock' = clock + 1 /\ (\A m \in N : m.stamp = clock + 1)
    BY <1>1, <1>2, <1>7, <2>2
  <2>4. \A m, k \in N : m.user = k.user => m = k
    BY <2>2
  <2>5. /\ rows' \in SUBSET Row
        /\ clock' \in Nat /\ \A s \in rows' : s.stamp <= clock'
        /\ \A s, t \in rows' : s.user = t.user /\ s.stamp = t.stamp => s = t
        /\ \A o : LatestIn(rows, o) /\ (\A m \in N : m.user # o.user) => LatestIn(rows', o)
    BY <2>3, <2>4, Inserted
  <2> QED BY <1>7, <2>2, <2>5
<1>13. Typed'
  <2>1. teamRaced' \in BOOLEAN
    BY <1>1, <1>2 DEF Typed, InUse
  <2>2. twice' \in SUBSET Users /\ gone' \in SUBSET Users
    BY <1>1, <1>2, <1>4 DEF Typed
  <2>3. joins' \in [TeamCalls -> Nat]
    BY <1>1, <1>2, <1>4 DEF Typed
  <2> QED BY <1>1, <1>2, <1>11, <1>12, <2>1, <2>2, <2>3 DEF Typed
<1>14. RequestsKnow'
  <2>1. Knows(c, x)
    BY <1>2, <1>9 DEF Knows
  <2> QED BY <1>1, <1>11, <2>1 DEF RequestsKnow
<1>15. ASSUME ~teamRaced' PROVE (IdsApart /\ OwnerStays /\ Leaving /\ OffersUsedOnce)'
  <2>1. ~teamRaced /\ offers[i] = r.offer /\ ~InUse(c)
    BY <1>2, <1>15
  <2>2. IdsApart /\ OwnerStays /\ Leaving /\ OffersUsedOnce
    BY <2>1 DEF TeamInv
  <2>3. \A s \in rows : s.id # c
    BY <1>2, <1>3, <2>2 DEF IdsApart, Unnamed
  <2>4. \A s \in rows : s.user = r.target => r.target \in twice'
    BY <1>1, <1>2, RowsMakeMembers
  <2>5. \A b \in TeamCalls : Unnamed(b)' => Unnamed(b) /\ b # c
    BY <1>9, <1>11, StatesDiffer DEF Unnamed
  <2>6. IdsApart'
    <3>1. \A s, t \in rows' : s.id = t.id => s.user = t.user
      BY <1>6, <1>7, <2>2, <2>3 DEF IdsApart
    <3>2. \A s, t \in rows' : s.user = t.user /\ s.user \notin twice' => s.id = t.id
      BY <1>2, <1>6, <1>7, <2>2, <2>4 DEF IdsApart
    <3>3. \A b \in TeamCalls : Unnamed(b)' => \A s \in rows' : s.id # b
      BY <1>6, <1>7, <2>2, <2>5 DEF IdsApart
    <3> QED BY <3>1, <3>2, <3>3 DEF IdsApart
  <2>7. OwnerStays'
    <3> SUFFICES ASSUME twice' = {} PROVE \E o \in rows' : SafeOwner(o)'
      BY DEF OwnerStays
    <3>1. twice = {}
      BY <1>2
    <3>2. PICK o \in rows : SafeOwner(o)
      BY <2>2, <3>1 DEF OwnerStays
    <3>3. o.user # r.target
      BY <2>4
    <3>4. LatestIn(rows', o) /\ o \in rows'
      BY <1>6, <1>12, <3>2, <3>3 DEF SafeOwner
    <3> QED BY <1>2, <3>2, <3>4 DEF SafeOwner
  <2>8. Leaving'
    <3> SUFFICES ASSUME NEW u \in gone' \ twice', NEW m \in rows', m.user = u
                 PROVE  \E d \in deletes' : d.id = m.id /\ m.stamp < d.stamp
      BY DEF Leaving
    <3>1. u \in gone \ twice /\ m \in rows
      BY <1>2, <1>6, <1>7
    <3> QED BY <1>2, <2>2, <3>1 DEF Leaving
  <2>9. OffersUsedOnce'
    <3>1. \A b \in TeamCalls : Unoffered(b)' => offers'[b] = NoOffer
      <4>1. \A b \in TeamCalls : Unoffered(b)' => Unoffered(b)
        BY <1>2, <1>9, <1>11, StatesDiffer DEF Unoffered
      <4> QED BY <1>2, <2>2, <4>1 DEF OffersUsedOnce
    <3>2. offers[i] # NoOffer
      BY <1>4, <2>1, OffersDiffer
    <3>3. ASSUME NEW b \in TeamCalls, (teamCall[b] \in TeamRequest /\ Invites(teamCall[b]))'
          PROVE  (offers[teamCall[b].invitation])' # NoOffer
      <4>1. CASE b = c
        BY <1>2, <1>9, <1>11, <3>2, <4>1
      <4>2. CASE b # c
        <5>1. teamCall'[b] = teamCall[b]
          BY <1>11, <4>2
        <5> QED BY <1>2, <2>2, <3>3, <5>1 DEF OffersUsedOnce, Invites
      <4> QED BY <4>1, <4>2
    <3>4. \A j \in TeamCalls : joins'[j] = IF j = i THEN joins[j] + 1 ELSE joins[j]
      BY <1>1, <1>2 DEF Typed
    <3>5. \A j \in TeamCalls : offers'[j] = NoOffer => joins'[j] = 0
      BY <1>2, <2>2, <3>2, <3>4 DEF OffersUsedOnce
    <3>6. ASSUME NEW j \in TeamCalls \ unmarked', ~(joins'[j] = 0)
          PROVE  joins'[j] = 1 /\ (offers'[j].status = "accepted" \/ \E d \in TeamCalls : Marks(d, j)')
      <4>1. CASE j = i
        <5>1. ASSUME NEW d \in TeamCalls, Marks(d, i) PROVE FALSE
          <6>1. d # c /\ d \in InProgress /\ teamCall[d].at = "mark" /\ teamCall[d].op = "accept"
            BY <1>1, <1>2, <5>1, InProgressIsRequest DEF Marks, RequestsKnow, Knows
          <6> QED BY <2>1, <5>1, <6>1 DEF InUse, IsAt, Marks
        <5>2. offers[i].status # "accepted"
          BY <1>4, <2>1
        <5>3. joins[i] = 0
          BY <1>2, <2>2, <3>6, <4>1, <5>1, <5>2 DEF OffersUsedOnce
        <5>4. Marks(c, j)'
          BY <1>9, <1>11, <4>1 DEF Marks
        <5>5. joins'[i] = 1
          BY <1>4, <3>4, <5>3
        <5> QED BY <4>1, <5>4, <5>5
      <4>2. CASE j # i
        <5>1. joins[j] = 1 /\ (offers[j].status = "accepted" \/ \E d \in TeamCalls : Marks(d, j))
          BY <1>2, <2>2, <3>4, <3>6, <4>2 DEF OffersUsedOnce
        <5>2. \A d \in TeamCalls : Marks(d, j) => Marks(d, j)'
          BY <1>2, <1>11 DEF Marks
        <5>3. joins'[j] = 1
          BY <3>4, <4>2, <5>1
        <5> QED BY <1>2, <5>1, <5>2, <5>3
      <4> QED BY <4>1, <4>2
    <3> QED BY <3>1, <3>3, <3>5, <3>6 DEF OffersUsedOnce
  <2> QED BY <2>6, <2>7, <2>8, <2>9
<1> QED BY <1>13, <1>14, <1>15 DEF TeamInv

\* offers after the insert of the row o of the invitation i.
Put(i, o) == IF offers[i] = NoOffer \/ offers[i].stamp <= o.stamp THEN o ELSE offers[i]

\* A request ends by inserting a row of an invitation.
LEMMA OfferWritten ==
  ASSUME TeamInv, NEW c \in TeamCalls, teamCall[c] \in TeamRequest, teamCall' = [teamCall EXCEPT ![c] = TeamDone],
         NEW i \in TeamCalls, NEW o \in Offer, o.id = i, offers' = [offers EXCEPT ![i] = Put(i, o)],
         clock' \in Nat, clock <= clock', teamRaced' \in BOOLEAN, teamRaced => teamRaced',
         UNCHANGED <<rows, deletes, teamFaults, overlapped, twice, gone, joins, unmarked>>,
         ~teamRaced' => /\ (i = c /\ teamCall[c].op = "create") \/ offers[i] # NoOffer
                        /\ i \notin unmarked =>
                             joins[i] = 0 \/ (joins[i] = 1 /\ (offers'[i].status = "accepted" \/ \E d \in TeamCalls \ {c} : Marks(d, i))),
         ~teamRaced' => \A j \in TeamCalls \ {i} : ~Marks(c, j)
  PROVE  TeamInv'
<1>1. Typed
  BY DEF TeamInv
<1>2. /\ offers'[i] \in Offer /\ offers'[i].id = i /\ offers'[i] # NoOffer
      /\ \A j \in TeamCalls \ {i} : offers'[j] = offers[j]
      /\ offers' \in [TeamCalls -> Offer \cup {NoOffer}]
  BY <1>1, OffersDiffer DEF Typed, Put
<1>3. Typed'
  <2>1. teamCall' \in [TeamCalls -> {TeamNew, TeamDone} \cup TeamRequest]
    BY Ending
  <2>2. \A j \in TeamCalls : offers'[j] = NoOffer \/ offers'[j].id = j
    BY <1>1, <1>2 DEF Typed
  <2>3. \A s \in rows' : s.stamp <= clock'
    BY <1>1 DEF Typed, Row
  <2> QED BY <1>1, <1>2, <2>1, <2>2, <2>3 DEF Typed
<1>4. RequestsKnow'
  BY Ending
<1>5. ASSUME ~teamRaced' PROVE (IdsApart /\ OwnerStays /\ Leaving /\ OffersUsedOnce)'
  <2>1. IdsApart /\ OwnerStays /\ Leaving /\ OffersUsedOnce
    BY <1>5 DEF TeamInv
  <2>2. IdsApart'
    <3>1. \A b \in TeamCalls : Unnamed(b)' => Unnamed(b)
      BY Ending
    <3> QED BY <2>1, <3>1 DEF IdsApart
  <2>3. OwnerStays'
    BY <2>1 DEF OwnerStays, SafeOwner, LatestIn
  <2>4. Leaving'
    BY <2>1 DEF Leaving
  <2>5. \A b \in TeamCalls : Unoffered(b)' => offers'[b] = NoOffer
    <3>1. \A b \in TeamCalls : Unoffered(b)' => Unoffered(b) /\ b # c
      BY Ending
    <3>2. \A b \in TeamCalls : Unoffered(b) => offers[b] = NoOffer
      BY <2>1 DEF OffersUsedOnce
    <3>3. i = c \/ offers[i] # NoOffer
      BY <1>5
    <3> HIDE DEF Unoffered
    <3> QED BY <1>2, <3>1, <3>2, <3>3
  <2>6. ASSUME NEW b \in TeamCalls, (teamCall[b] \in TeamRequest /\ Invites(teamCall[b]))'
        PROVE  (offers[teamCall[b].invitation])' # NoOffer
    <3>1. teamCall[b] \in TeamRequest /\ Invites(teamCall[b]) /\ teamCall'[b] = teamCall[b]
      BY <2>6, Ending DEF Invites
    <3>2. teamCall[b].invitation \in TeamCalls
      BY <3>1 DEF TeamRequest
    <3>3. offers[teamCall[b].invitation] # NoOffer
      BY <2>1, <3>1 DEF OffersUsedOnce
    <3> QED BY <1>2, <3>1, <3>2, <3>3
  <2>7. \A j \in TeamCalls : offers'[j] = NoOffer => joins'[j] = 0
    BY <1>2, <2>1 DEF OffersUsedOnce
  <2>8. ASSUME NEW j \in TeamCalls \ unmarked', ~(joins'[j] = 0)
        PROVE  joins'[j] = 1 /\ (offers'[j].status = "accepted" \/ \E d \in TeamCalls : Marks(d, j)')
    <3>1. CASE j = i
      BY <1>5, <2>8, <3>1, Ending
    <3>2. CASE j # i
      <4>1. joins[j] = 1 /\ (offers[j].status = "accepted" \/ \E d \in TeamCalls : Marks(d, j))
        BY <2>1, <2>8 DEF OffersUsedOnce
      <4>2. \A d \in TeamCalls : Marks(d, j) => Marks(d, j)'
        <5>1. ~Marks(c, j)
          BY <1>5, <3>2
        <5>2. \A d \in TeamCalls : Marks(d, j) /\ d # c => Marks(d, j)'
          BY Ending
        <5> QED BY <5>1, <5>2
      <4>3. joins'[j] = 1 /\ offers'[j] = offers[j]
        BY <1>2, <3>2, <4>1
      <4> QED BY <4>1, <4>2, <4>3
    <3> QED BY <3>1, <3>2
  <2> QED BY <2>2, <2>3, <2>4, <2>5, <2>6, <2>7, <2>8 DEF OffersUsedOnce
<1> QED BY <1>3, <1>4, <1>5 DEF TeamInv

Marked(o) == [o EXCEPT !.status = StatusMarked]
\* A marked invitation is accepted and otherwise the same.
LEMMA MarkedOffer ==
  ASSUME NEW o \in Offer, NEW x, x = Marked(o)
  PROVE  x \in Offer /\ x.id = o.id /\ x.stamp = o.stamp /\ x.status = "accepted"
BY DEF Offer, Marked, StatusMarked

\* The invitation is marked.
LEMMA MarkAcceptedKeeps ==
  ASSUME TeamInv, NEW c \in TeamCalls, MarkAccepted(c)
  PROVE  TeamInv'
<1>1. Typed /\ RequestsKnow
  BY DEF TeamInv
<1>2. PICK r : r = teamCall[c]
  OBVIOUS
<1>3. /\ c \in InProgress /\ r.at = "mark" /\ r.op = "accept"
      /\ teamCall' = [teamCall EXCEPT ![c] = TeamDone]
      /\ teamRaced' = (teamRaced \/ offers[r.invitation].stamp > r.offer.stamp)
      /\ UNCHANGED <<rows, deletes, clock, teamFaults, overlapped, twice, gone, joins, unmarked>>
  BY <1>2 DEF MarkAccepted, IsAt
<1>4. r \in TeamRequest /\ Knows(c, r)
  BY <1>1, <1>2, <1>3, InProgressIsRequest DEF RequestsKnow
<1>5. PICK i \in TeamCalls : i = r.invitation
  BY <1>4 DEF TeamRequest
<1>6. r.offer \in Offer /\ r.offer.id = i
  BY <1>3, <1>4, <1>5 DEF Knows
<1>7. PICK o : o = Marked(r.offer)
  OBVIOUS
<1>8. o \in Offer /\ o.id = i /\ o.stamp = r.offer.stamp /\ o.status = "accepted"
  BY <1>6, <1>7, MarkedOffer
<1>9. offers' = [offers EXCEPT ![i] = Put(i, o)]
  BY <1>1, <1>2, <1>5, <1>7 DEF MarkAccepted, PutOffer, Put, Marked, Typed
<1>10. teamRaced' \in BOOLEAN /\ (teamRaced => teamRaced')
  BY <1>1, <1>3 DEF Typed
<1>11. ASSUME ~teamRaced' PROVE offers[i] # NoOffer /\ offers'[i].status = "accepted"
  <2>1. ~teamRaced /\ ~(offers[i].stamp > r.offer.stamp)
    BY <1>3, <1>5, <1>11
  <2>2. offers[i] # NoOffer
    BY <1>2, <1>3, <1>4, <1>5, <2>1 DEF TeamInv, OffersUsedOnce, Invites
  <2>3. offers[i].stamp <= o.stamp
    <3>1. offers[i] \in Offer
      BY <1>1, <2>2 DEF Typed
    <3>2. offers[i].stamp \in Nat /\ r.offer.stamp \in Nat
      BY <1>6, <3>1 DEF Offer
    <3> QED BY <1>8, <2>1, <3>2
  <2>4. offers'[i] = o
    BY <1>1, <1>9, <2>3 DEF Put, Typed
  <2> QED BY <1>8, <2>2, <2>4
<1>12. ASSUME ~teamRaced', i \notin unmarked PROVE joins[i] = 0 \/ joins[i] = 1
  BY <1>10, <1>12 DEF TeamInv, OffersUsedOnce
<1>13. \A j \in TeamCalls \ {i} : ~Marks(c, j)
  BY <1>2, <1>5 DEF Marks
<1>14. clock' \in Nat /\ clock <= clock'
  BY <1>1, <1>3 DEF Typed
<1> QED BY <1>2, <1>3, <1>4, <1>8, <1>9, <1>10, <1>11, <1>12, <1>13, <1>14, OfferWritten

Renewed(o, t) == [o EXCEPT !.expired = FALSE, !.stamp = t]
InvitationRevoked(o, t) == [o EXCEPT !.status = "revoked", !.stamp = t]
\* An invitation that is renewed or revoked is otherwise the same.
LEMMA ChangedOffers ==
  ASSUME NEW o \in Offer, NEW t \in Nat
  PROVE  /\ Renewed(o, t) \in Offer /\ Renewed(o, t).id = o.id
         /\ InvitationRevoked(o, t) \in Offer /\ InvitationRevoked(o, t).id = o.id
BY DEF Offer, Renewed, InvitationRevoked

\* An invitation is created, renewed or revoked.
LEMMA WriteOfferKeeps ==
  ASSUME TeamInv, NEW c \in TeamCalls, WriteOffer(c)
  PROVE  TeamInv'
<1>1. Typed /\ RequestsKnow
  BY DEF TeamInv
<1>2. PICK r : r = teamCall[c]
  OBVIOUS
<1>3. /\ c \in InProgress /\ r.at = "write" /\ r.op \in {"create", "resend", "revoke"}
      /\ teamCall' = [teamCall EXCEPT ![c] = TeamDone]
      /\ clock' = clock + 1
      /\ UNCHANGED <<rows, deletes, teamFaults, overlapped, twice, gone, joins, unmarked>>
  BY <1>2 DEF WriteOffer, IsAt
<1>4. r \in TeamRequest /\ Knows(c, r)
  BY <1>1, <1>2, <1>3, InProgressIsRequest DEF RequestsKnow
<1>5. PICK i \in TeamCalls : i = r.invitation
  BY <1>4 DEF TeamRequest
<1>6. clock + 1 \in Nat /\ clock' \in Nat /\ clock <= clock'
  BY <1>1, <1>3 DEF Typed
<1>7. \A j \in TeamCalls : ~Marks(c, j)
  BY <1>2, <1>3 DEF Marks
<1>8. CASE r.op = "create"
  <2>1. PICK o : o = [id |-> i, user |-> r.target, role |-> r.role,
                      stamp |-> clock + 1, status |-> "pending", expired |-> FALSE]
    OBVIOUS
  <2>2. o \in Offer /\ o.id = i
    BY <1>4, <1>6, <1>8, <2>1 DEF Knows, TeamRequest, Offer
  <2>3. offers' = [offers EXCEPT ![i] = Put(i, o)] /\ teamRaced' = teamRaced
    BY <1>1, <1>2, <1>5, <1>8, <2>1 DEF WriteOffer, PutOffer, Put, IsAt, Typed
  <2>4. i = c
    BY <1>4, <1>5, <1>8 DEF Knows
  <2>5. ASSUME ~teamRaced' PROVE joins[i] = 0
    <3>1. OffersUsedOnce /\ Unoffered(c)
      BY <1>2, <1>4, <1>8, <2>3, <2>5 DEF TeamInv, Unoffered
    <3> QED BY <2>4, <3>1 DEF OffersUsedOnce
  <2>6. teamRaced' \in BOOLEAN
    BY <1>1, <2>3 DEF Typed
  <2> QED BY <1>2, <1>3, <1>4, <1>6, <1>7, <1>8, <2>2, <2>3, <2>4, <2>5, <2>6, OfferWritten
<1>9. CASE r.op \in {"resend", "revoke"}
  <2>1. r.offer \in Offer /\ r.offer.id = i /\ r.offer.status = "pending"
    BY <1>3, <1>4, <1>5, <1>9 DEF Knows
  <2>2. PICK o : o = IF r.op = "resend" THEN Renewed(r.offer, clock + 1) ELSE InvitationRevoked(r.offer, clock + 1)
    OBVIOUS
  <2>3. o \in Offer /\ o.id = i
    BY <1>6, <2>1, <2>2, ChangedOffers
  <2>4. offers' = [offers EXCEPT ![i] = Put(i, o)] /\ teamRaced' = (teamRaced \/ offers[i] # r.offer)
    <3>1. CASE r.op = "resend"
      BY <1>1, <1>2, <1>5, <2>2, <3>1 DEF WriteOffer, PutOffer, Put, IsAt, Typed, Renewed
    <3>2. CASE r.op = "revoke"
      BY <1>1, <1>2, <1>5, <2>2, <3>2 DEF WriteOffer, PutOffer, Put, IsAt, Typed, InvitationRevoked
    <3> QED BY <1>9, <3>1, <3>2
  <2>5. teamRaced' \in BOOLEAN /\ (teamRaced => teamRaced')
    BY <1>1, <2>4 DEF Typed
  <2>6. ASSUME ~teamRaced'
        PROVE  /\ offers[i] # NoOffer
               /\ i \notin unmarked => joins[i] = 0 \/ (joins[i] = 1 /\ \E d \in TeamCalls \ {c} : Marks(d, i))
    <3>1. ~teamRaced /\ offers[i] = r.offer
      BY <2>4, <2>6
    <3>2. offers[i] # NoOffer /\ offers[i].status # "accepted"
      BY <2>1, <3>1, OffersDiffer
    <3> QED BY <1>7, <3>1, <3>2 DEF TeamInv, OffersUsedOnce
  <2> QED BY <1>2, <1>3, <1>4, <1>6, <1>7, <2>3, <2>4, <2>5, <2>6, OfferWritten
<1> QED BY <1>3, <1>8, <1>9

-----------------------------------------------------------------------------
(* The surroundings. *)

\* A request that fails between two steps leaves what it has done, and an invitation it has used unmarked.
LEMMA FailsKeeps ==
  ASSUME TeamIsFounded, TeamInv, NEW c \in TeamCalls, TeamFails(c)
  PROVE  TeamInv'
<1>1. Typed /\ RequestsKnow
  BY DEF TeamInv
<1>2. /\ c \in InProgress
      /\ teamCall' = [teamCall EXCEPT ![c] = TeamDone]
      /\ teamFaults < MaxTeamFaults /\ teamFaults' = teamFaults + 1
      /\ unmarked' = IF IsAt(c, "accept", "mark") THEN unmarked \cup {teamCall[c].invitation} ELSE unmarked
      /\ UNCHANGED <<rows, deletes, offers, clock, teamRaced, overlapped, twice, gone, joins>>
  BY DEF TeamFails
<1>3. teamCall[c] \in TeamRequest /\ Knows(c, teamCall[c])
  BY <1>1, <1>2, InProgressIsRequest DEF RequestsKnow
<1>4. teamCall[c].invitation \in TeamCalls
  BY <1>3 DEF TeamRequest
<1>5. Typed'
  <2>1. teamCall' \in [TeamCalls -> {TeamNew, TeamDone} \cup TeamRequest]
    BY <1>2, <1>3, Ending
  <2>2. unmarked' \in SUBSET TeamCalls
    BY <1>1, <1>2, <1>4 DEF Typed
  <2>3. teamFaults' \in 0..MaxTeamFaults
    BY <1>1, <1>2 DEF Typed, TeamIsFounded
  <2> QED BY <1>1, <1>2, <2>1, <2>2, <2>3 DEF Typed
<1>6. RequestsKnow'
  BY <1>2, <1>3, Ending
<1>7. ASSUME ~teamRaced' PROVE (IdsApart /\ OwnerStays /\ Leaving /\ OffersUsedOnce)'
  <2>1. IdsApart /\ OwnerStays /\ Leaving /\ OffersUsedOnce
    BY <1>2, <1>7 DEF TeamInv
  <2>2. IdsApart'
    <3>1. \A b \in TeamCalls : Unnamed(b)' => Unnamed(b)
      BY <1>2, <1>3, Ending
    <3> QED BY <1>2, <2>1, <3>1 DEF IdsApart
  <2>3. OwnerStays'
    BY <1>2, <2>1 DEF OwnerStays, SafeOwner, LatestIn
  <2>4. Leaving'
    BY <1>2, <2>1 DEF Leaving
  <2>5. \A b \in TeamCalls : Unoffered(b)' => offers'[b] = NoOffer
    BY <1>2, <1>3, <2>1, Ending DEF OffersUsedOnce
  <2>6. ASSUME NEW b \in TeamCalls, (teamCall[b] \in TeamRequest /\ Invites(teamCall[b]))'
        PROVE  (offers[teamCall[b].invitation])' # NoOffer
    <3>1. teamCall[b] \in TeamRequest /\ Invites(teamCall[b]) /\ teamCall'[b] = teamCall[b]
      BY <1>2, <1>3, <2>6, Ending DEF Invites
    <3> QED BY <1>2, <2>1, <3>1 DEF OffersUsedOnce
  <2>7. ASSUME NEW j \in TeamCalls \ unmarked', ~(joins'[j] = 0)
        PROVE  joins'[j] = 1 /\ (offers'[j].status = "accepted" \/ \E d \in TeamCalls : Marks(d, j)')
    <3>1. joins[j] = 1 /\ (offers[j].status = "accepted" \/ \E d \in TeamCalls : Marks(d, j))
      BY <1>2, <2>1, <2>7 DEF OffersUsedOnce
    <3>2. ~Marks(c, j)
      BY <1>2, <1>3, <2>7 DEF Marks, IsAt, Knows
    <3>3. \A d \in TeamCalls : Marks(d, j) => Marks(d, j)'
      BY <1>2, <1>3, <3>2, Ending
    <3>4. joins'[j] = 1 /\ offers'[j] = offers[j]
      BY <1>2, <3>1
    <3> QED BY <3>1, <3>3, <3>4
  <2>8. \A j \in TeamCalls : offers'[j] = NoOffer => joins'[j] = 0
    BY <1>2, <2>1 DEF OffersUsedOnce
  <2> QED BY <2>2, <2>3, <2>4, <2>5, <2>6, <2>7, <2>8 DEF OffersUsedOnce
<1> QED BY <1>5, <1>6, <1>7 DEF TeamInv

\* Steps that no request takes.
LEMMA RequestsAsTheyWere ==
  ASSUME TeamInv, UNCHANGED teamCall
  PROVE  /\ RequestsKnow'
         /\ \A b \in TeamCalls : Unnamed(b)' => Unnamed(b)
         /\ \A b \in TeamCalls : Unoffered(b)' => Unoffered(b)
         /\ \A b, i \in TeamCalls : Marks(b, i) => Marks(b, i)'
BY DEF TeamInv, RequestsKnow, Unnamed, Unoffered, Marks

\* Fewer rows: mutations and merges.
LEMMA RowsGo ==
  ASSUME TeamInv, rows' \subseteq rows, deletes' \subseteq deletes,
         UNCHANGED <<offers, clock, teamCall, teamFaults, teamRaced, overlapped, twice, gone, joins, unmarked>>,
         \A o \in rows : SafeOwner(o) => o \in rows',
         \A r \in rows', d \in deletes : d.id = r.id /\ r.stamp < d.stamp => d \in deletes'
  PROVE  TeamInv'
<1>1. Typed'
  BY DEF TeamInv, Typed
<1>2. ASSUME ~teamRaced' PROVE (IdsApart /\ OwnerStays /\ Leaving /\ OffersUsedOnce)'
  <2>1. IdsApart /\ OwnerStays /\ Leaving /\ OffersUsedOnce
    BY <1>2 DEF TeamInv
  <2>2. IdsApart'
    BY <2>1, RequestsAsTheyWere DEF IdsApart
  <2>3. OwnerStays'
    BY <2>1 DEF OwnerStays, SafeOwner, LatestIn
  <2>4. Leaving'
    BY <2>1 DEF Leaving
  <2>5. OffersUsedOnce'
    BY <2>1 DEF OffersUsedOnce, Unoffered, Invites, Marks
  <2> QED BY <2>2, <2>3, <2>4, <2>5
<1> QED BY <1>1, <1>2, RequestsAsTheyWere DEF TeamInv

\* A mutation deletes only rows that were there when it was submitted, so never those of a safe owner.
LEMMA MutateKeeps ==
  ASSUME TeamInv, Mutate
  PROVE  TeamInv'
<1>1. PICK d \in deletes :
        /\ rows' = rows \ TeamDeleted(d)
        /\ deletes' = deletes \ {d}
        /\ UNCHANGED <<offers, clock, teamCall, teamFaults, teamRaced, overlapped, twice, gone, joins, unmarked>>
  BY DEF Mutate, teamPast
<1>2. \A o \in rows : SafeOwner(o) => o \in rows'
  BY <1>1 DEF SafeOwner, TeamDeleted
<1>3. \A r \in rows', e \in deletes : e.id = r.id /\ r.stamp < e.stamp => e \in deletes'
  BY <1>1 DEF TeamDeleted
<1> QED BY <1>1, <1>2, <1>3, RowsGo

\* A merge drops only rows that count no more.
LEMMA MergeKeeps ==
  ASSUME TeamInv, Merge
  PROVE  TeamInv'
<1>1. PICK u \in Users :
        /\ rows' = {r \in rows : r.user # u} \cup Newest(u)
        /\ UNCHANGED <<deletes, offers, clock, teamCall, teamFaults, teamRaced, overlapped, twice, gone, joins, unmarked>>
  BY DEF Merge, teamPast
<1>2. \A o \in rows : SafeOwner(o) => o \in rows'
  BY <1>1 DEF SafeOwner, LatestIn, Newest
<1>3. rows' \subseteq rows
  BY <1>1 DEF Newest
<1> QED BY <1>1, <1>2, <1>3, RowsGo

\* An invitation that expires stays what it is.
LEMMA ExpireKeeps ==
  ASSUME TeamInv, OfferExpires
  PROVE  TeamInv'
<1>1. PICK i \in TeamCalls :
        /\ offers[i] # NoOffer /\ offers[i].status = "pending"
        /\ offers' = [offers EXCEPT ![i].expired = TRUE]
        /\ UNCHANGED <<rows, deletes, clock, teamCall, teamFaults, teamRaced, overlapped, twice, gone, joins, unmarked>>
  BY DEF OfferExpires, teamPast
<1>2. Typed
  BY DEF TeamInv
<1>3. offers[i] \in Offer
  BY <1>1, <1>2 DEF Typed
<1>4. /\ offers' \in [TeamCalls -> Offer \cup {NoOffer}]
      /\ offers'[i] \in Offer /\ offers'[i].id = offers[i].id /\ offers'[i].status = offers[i].status
      /\ \A j \in TeamCalls \ {i} : offers'[j] = offers[j]
  BY <1>1, <1>2, <1>3 DEF Typed, Offer
<1>5. \A j \in TeamCalls : /\ offers'[j] = NoOffer <=> offers[j] = NoOffer
                           /\ offers'[j].status = offers[j].status
  BY <1>1, <1>4, OffersDiffer
<1>6. Typed'
  BY <1>1, <1>2, <1>4 DEF Typed
<1>7. ASSUME ~teamRaced' PROVE (IdsApart /\ OwnerStays /\ Leaving /\ OffersUsedOnce)'
  <2>1. IdsApart /\ OwnerStays /\ Leaving /\ OffersUsedOnce
    BY <1>1, <1>7 DEF TeamInv
  <2>2. IdsApart' /\ OwnerStays' /\ Leaving'
    BY <1>1, <2>1, RequestsAsTheyWere DEF IdsApart, OwnerStays, SafeOwner, LatestIn, Leaving
  <2>3. \A b \in TeamCalls : Unoffered(b)' => offers'[b] = NoOffer
    BY <1>1, <1>5, <2>1, RequestsAsTheyWere DEF OffersUsedOnce
  <2>4. ASSUME NEW b \in TeamCalls, (teamCall[b] \in TeamRequest /\ Invites(teamCall[b]))'
        PROVE  (offers[teamCall[b].invitation])' # NoOffer
    <3>1. teamCall[b] \in TeamRequest /\ Invites(teamCall[b]) /\ teamCall'[b] = teamCall[b] /\ teamCall[b].invitation \in TeamCalls
      BY <1>1, <2>4 DEF Invites, TeamRequest
    <3> QED BY <1>5, <2>1, <3>1 DEF OffersUsedOnce
  <2>5. \A j \in TeamCalls : offers'[j] = NoOffer => joins'[j] = 0
    BY <1>1, <1>5, <2>1 DEF OffersUsedOnce
  <2>6. ASSUME NEW j \in TeamCalls \ unmarked', ~(joins'[j] = 0)
        PROVE  joins'[j] = 1 /\ (offers'[j].status = "accepted" \/ \E d \in TeamCalls : Marks(d, j)')
    <3>1. joins[j] = 1 /\ (offers[j].status = "accepted" \/ \E d \in TeamCalls : Marks(d, j))
      BY <1>1, <2>1, <2>6 DEF OffersUsedOnce
    <3>2. joins'[j] = 1 /\ offers'[j].status = offers[j].status
      BY <1>1, <1>5, <3>1
    <3> QED BY <1>1, <3>1, <3>2, RequestsAsTheyWere
  <2> QED BY <2>2, <2>3, <2>4, <2>5, <2>6 DEF OffersUsedOnce
<1> QED BY <1>1, <1>6, <1>7, RequestsAsTheyWere DEF TeamInv

-----------------------------------------------------------------------------
(* The invariant. *)

\* A workspace is founded with an owner.
LEMMA FoundedTeam == TeamIsFounded /\ TeamInit => TeamInv
<1> SUFFICES ASSUME TeamIsFounded, TeamInit PROVE TeamInv
  OBVIOUS
<1> DEFINE Founder(u) == [user |-> u, id |-> u, role |-> InitialRole[u], stamp |-> 0]
<1>1. rows = {Founder(u) : u \in DOMAIN InitialRole}
  BY DEF TeamInit
<1>2. \A r \in rows : /\ r \in Row /\ r.stamp = 0 /\ r.id = r.user
                      /\ \E u \in DOMAIN InitialRole : r = Founder(u)
  BY <1>1 DEF TeamIsFounded, Row, Id
<1>3. \A r, s \in rows : r.user = s.user => r = s
  BY <1>1
<1>4. /\ deletes = {} /\ clock = 0 /\ teamFaults = 0 /\ teamRaced = FALSE /\ overlapped = FALSE
      /\ twice = {} /\ gone = {} /\ unmarked = {}
      /\ teamCall = [c \in TeamCalls |-> TeamNew] /\ offers = [c \in TeamCalls |-> NoOffer] /\ joins = [c \in TeamCalls |-> 0]
  BY DEF TeamInit
<1>5. Typed
  <2>1. rows \in SUBSET Row /\ \A r \in rows : r.stamp <= clock
    BY <1>2, <1>4
  <2>2. \A r, s \in rows : r.user = s.user /\ r.stamp = s.stamp => r = s
    BY <1>3
  <2>3. /\ teamCall \in [TeamCalls -> {TeamNew, TeamDone} \cup TeamRequest]
        /\ offers \in [TeamCalls -> Offer \cup {NoOffer}]
        /\ joins \in [TeamCalls -> Nat]
        /\ \A i \in TeamCalls : offers[i] = NoOffer
    BY <1>4
  <2>4. teamFaults \in 0..MaxTeamFaults
    BY <1>4 DEF TeamIsFounded
  <2> QED BY <1>4, <2>1, <2>2, <2>3, <2>4 DEF Typed
<1>6. \A c \in TeamCalls : teamCall[c] \notin TeamRequest /\ offers[c] = NoOffer /\ joins[c] = 0
  BY <1>4, StatesDiffer
<1>7. RequestsKnow
  BY <1>6 DEF RequestsKnow
<1>8. IdsApart
  <2>1. \A c \in TeamCalls : \A r \in rows : r.id # c
    BY <1>2 DEF TeamIsFounded, Row
  <2> QED BY <1>2, <1>3, <2>1 DEF IdsApart
<1>9. OwnerStays
  <2>1. PICK u \in DOMAIN InitialRole : InitialRole[u] = "owner"
    BY DEF TeamIsFounded
  <2>2. Founder(u) \in rows /\ Founder(u).role = "owner"
    BY <1>1, <2>1
  <2> HIDE DEF Founder
  <2>3. LatestIn(rows, Founder(u))
    BY <1>2, <2>2 DEF LatestIn
  <2> QED BY <1>4, <2>2, <2>3 DEF OwnerStays, SafeOwner
<1>10. Leaving
  BY <1>4 DEF Leaving
<1>11. OffersUsedOnce
  BY <1>6 DEF OffersUsedOnce
<1> QED BY <1>5, <1>7, <1>8, <1>9, <1>10, <1>11 DEF TeamInv

\* Every step keeps the invariant.
LEMMA TeamStep ==
  ASSUME TeamIsFounded, TeamInv, [TeamNext]_teamVars
  PROVE  TeamInv'
<1>1. CASE UNCHANGED teamVars
  <2>1. UNCHANGED <<rows, deletes, offers, clock, teamCall, teamFaults, teamRaced, overlapped, twice, gone, joins, unmarked>>
    BY <1>1 DEF teamVars, teamPast
  <2> QED BY <2>1, RowsGo
<1>2. ASSUME NEW c \in TeamCalls,
             \/ TeamBegins(c) \/ ReadTarget(c) \/ ReadMine(c) \/ CountOwners(c) \/ WriteMembers(c)
             \/ DeleteMember(c) \/ ReadForInvitation(c) \/ BeginInvitation(c) \/ ReadOffer(c)
             \/ WriteOffer(c) \/ Join(c) \/ MarkAccepted(c) \/ TeamFails(c)
      PROVE  TeamInv'
  BY <1>2, BeginKeeps, ReadTargetKeeps, ReadMineKeeps, CountOwnersKeeps, WriteMembersKeeps,
     DeleteMemberKeeps, ReadForInvitationKeeps, BeginInvitationKeeps, ReadOfferKeeps,
     WriteOfferKeeps, JoinKeeps, MarkAcceptedKeeps, FailsKeeps
<1>3. CASE Mutate
  BY <1>3, MutateKeeps
<1>4. CASE Merge
  BY <1>4, MergeKeeps
<1>5. CASE OfferExpires
  BY <1>5, ExpireKeeps
<1> QED BY <1>1, <1>2, <1>3, <1>4, <1>5 DEF TeamNext

\* The invariant holds in every behaviour.
LEMMA TeamHolds ==
  ASSUME TeamInv
  PROVE  TeamTypeOK /\ MembershipHolds
<1>1. Typed
  BY DEF TeamInv
<1>2. TeamTypeOK
  BY <1>1 DEF Typed, TeamTypeOK
<1>3. OwnerRemains
  <2> SUFFICES ASSUME ~teamRaced, twice = {} PROVE Owners # {}
    BY DEF OwnerRemains, HasOwner
  <2>1. PICK o \in rows : SafeOwner(o)
    BY DEF TeamInv, OwnerStays
  <2>2. o \in Current /\ o.role = "owner"
    BY <1>1, <2>1, CurrentRows DEF SafeOwner
  <2> QED BY <2>2 DEF Owners
<1>4. RemovedStaysOut
  <2> SUFFICES ASSUME NEW u \in gone, deletes = {}, IsMember(u), ~teamRaced, u \notin twice PROVE FALSE
    BY DEF RemovedStaysOut
  <2>1. \E r \in rows : r.user = u
    BY DEF IsMember, Newest
  <2> QED BY <2>1 DEF TeamInv, Leaving
<1>5. AcceptedOnce
  <2> SUFFICES ASSUME NEW i \in TeamCalls, ~teamRaced, i \notin unmarked PROVE joins[i] <= 1
    BY DEF AcceptedOnce
  <2>1. joins[i] = 0 \/ joins[i] = 1
    BY DEF TeamInv, OffersUsedOnce
  <2> QED BY <2>1
<1> QED BY <1>2, <1>3, <1>4, <1>5 DEF MembershipHolds, MembersWereLetIn

\* For any team and any number of overlapping requests: the workspace keeps an owner, who left stays
\* out and an invitation is used once, as long as no request writes what has changed since it read it.
THEOREM TeamsHold == TeamIsFounded => (TeamSpec => []MembershipHolds)
<1> SUFFICES ASSUME TeamIsFounded PROVE TeamSpec => []MembershipHolds
  OBVIOUS
<1>1. TeamInit => TeamInv
  BY FoundedTeam
<1>2. TeamInv /\ [TeamNext]_teamVars => TeamInv'
  BY TeamStep
<1>3. TeamInv => MembershipHolds
  BY TeamHolds
<1> QED BY <1>1, <1>2, <1>3, PTL DEF TeamSpec

\* Rows, invitations and requests are well typed, and a user has one row of a stamp.
THEOREM TeamTypeCorrect == TeamIsFounded => (TeamSpec => []TeamTypeOK)
<1> SUFFICES ASSUME TeamIsFounded PROVE TeamSpec => []TeamTypeOK
  OBVIOUS
<1>1. TeamInit => TeamInv
  BY FoundedTeam
<1>2. TeamInv /\ [TeamNext]_teamVars => TeamInv'
  BY TeamStep
<1>3. TeamInv => TeamTypeOK
  BY TeamHolds
<1> QED BY <1>1, <1>2, <1>3, PTL DEF TeamSpec
=============================================================================
