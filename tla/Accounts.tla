------------------------------ MODULE Accounts ------------------------------
(***************************************************************************)
(* An account: its row, its sessions, the tokens that reset its password    *)
(* (api/src/auth, api/src/users) and the two caches from which the JWT       *)
(* strategy answers.  All state is kept per user, so there is one.          *)
(*                                                                          *)
(* Requests overlap: each step is what a request does between two awaits.   *)
(* The row of the user is rewritten as a whole by every operation, and the  *)
(* row with the newest stamp counts, whenever it arrives.  Rows of sessions  *)
(* change in one way only: revoked_at gets set.                             *)
(***************************************************************************)
EXTENDS Integers

CONSTANTS
  Calls,        \* bound: requests; a session is named by the login that created it, a
                \* password by the request that chose it, a token by the one that asked for it
  First,        \* the session and the password that exist at the beginning
  MaxAttempts,  \* 5: failed logins that lock the account
  MaxFaults     \* bound: requests that stop half-way

ASSUME AccountsAssumption ==
  /\ First \notin Calls
  /\ (Calls \cup {First}) \cap {"none", "user"} = {}
  /\ MaxAttempts \in Nat \ {0} /\ MaxFaults \in Nat

Names == Calls \cup {First}
None == "none"
NoRow == [deleted |-> TRUE]    \* nothing read, nothing cached

VARIABLES
  user,      \* the row that counts
  stamps,    \* the time, counted in stamps
  lapsed,    \* locks of 15 minutes that are over; a lock is named by its stamp
  sessions,  \* none | live | revoked
  tokens,    \* none | pending | used | expired
  userCache,     \* the row cached under user:<id>, or none
  sessionCache,  \* what is cached under session:<id>:<user id>, or none
  call,      \* what each request does
  faults,    \* counted against its bound
  \* History variables: they record the past and guard nothing.
  past,      \* what the operations that stored a row of the user have recorded
  raced,     \* a row was stored by a request that had begun before the row it replaced
  ended,     \* sessions whose revocation was acknowledged
  closed,    \* the deletion of the user was acknowledged
  late       \* cache entries filled with what had been read before it was changed

pastVars == <<past, raced, ended, closed, late>>
vars == <<user, stamps, lapsed, sessions, tokens, userCache, sessionCache, call, faults, pastVars>>

User == [password : Names, attempts : Nat, lock : Nat,
         deleted : BOOLEAN, stamp : Nat]

Op == {"login", "change", "reset", "profile", "delete", "revoke", "revokeAll", "validate"}
New == [at |-> "new"]
Done == [at |-> "done"]

\* What a request has: the stamp of the row when it began (since), the row it has read
\* (row), sessions to revoke (todo), the sessions live when it began (before), the password,
\* token or session it is about (name), an answer (yes), and why it has to be refused (due).
Request ==
  [op : Op, at : {"lock", "find", "token", "read", "stamp", "save", "uncache", "mark", "list",
                  "revoke", "forget", "open", "ask", "check", "fill", "askUser", "findUser",
                  "fillUser", "accepted"},
   since : Nat, row : User \cup {NoRow}, todo : SUBSET Names, before : SUBSET Names,
   name : Names \cup {None}, yes : BOOLEAN, due : SUBSET {"session", "user"}]

TypeOK ==
  /\ user \in User
  /\ stamps \in Nat /\ user.stamp <= stamps
  /\ lapsed \in Nat
  /\ sessions \in [Names -> {None, "live", "revoked"}]
  /\ tokens \in [Calls -> {None, "pending", "used", "expired"}]
  /\ userCache \in User \cup {NoRow}
  /\ sessionCache \in [Names -> {None, "valid", "invalid"}]
  /\ call \in [Calls -> {New, Done} \cup Request]
  /\ faults \in 0..MaxFaults
  /\ past \in [password : Names, attempts : Nat, deleted : BOOLEAN]
  /\ raced \in BOOLEAN /\ closed \in BOOLEAN
  /\ ended \subseteq Names /\ late \subseteq Names \cup {"user"}

Init ==
  /\ user = [password |-> First, attempts |-> 0, lock |-> 0, deleted |-> FALSE, stamp |-> 0]
  /\ stamps = 0 /\ lapsed = 0
  /\ sessions = [n \in Names |-> IF n = First THEN "live" ELSE None]
  /\ tokens = [c \in Calls |-> None]
  /\ userCache = NoRow
  /\ sessionCache = [n \in Names |-> None]
  /\ call = [c \in Calls |-> New]
  /\ faults = 0
  /\ past = [password |-> First, attempts |-> 0, deleted |-> FALSE]
  /\ raced = FALSE /\ ended = {} /\ closed = FALSE /\ late = {}

-----------------------------------------------------------------------------
(* The steps of a request. *)

Is(c, place) == call[c].at = place
GoesTo(c, place) == call' = [call EXCEPT ![c].at = place]
Ends(c) == call' = [call EXCEPT ![c] = Done]

Begins(c, op, place, name) ==
  /\ call[c] = New
  /\ call' = [call EXCEPT ![c] =
       [op |-> op, at |-> place, since |-> user.stamp, row |-> NoRow, todo |-> {},
        before |-> {n \in Names : sessions[n] = "live"}, name |-> name, yes |-> FALSE,
        due |-> (IF name \in ended THEN {"session"} ELSE {})
                \cup (IF closed THEN {"user"} ELSE {})]]

Begin(c) ==
  /\ \/ \E guess \in {user.password, None} : Begins(c, "login", "lock", guess)
     \/ Begins(c, "change", "read", user.password)
     \/ Begins(c, "profile", "read", None)
     \/ Begins(c, "delete", "read", None)
     \/ Begins(c, "revokeAll", "list", None)
     \/ \E t \in Calls : tokens[t] # None /\ Begins(c, "reset", "token", t)
     \/ \E n \in Names : /\ sessions[n] # None
                         /\ Begins(c, "revoke", "revoke", n) \/ Begins(c, "validate", "ask", n)
  /\ UNCHANGED <<user, stamps, lapsed, sessions, tokens, userCache, sessionCache, faults, pastVars>>

IsLocked == ~user.deleted /\ user.lock > lapsed

\* forgotPassword: its only effect is the token; the limit on requests per hour is left out.
ForgotPassword(c) ==
  /\ call[c] = New
  /\ ~user.deleted /\ ~IsLocked
  /\ tokens' = [tokens EXCEPT ![c] = "pending"]
  /\ Ends(c)
  /\ UNCHANGED <<user, stamps, lapsed, sessions, userCache, sessionCache, faults, pastVars>>

\* The steps that only read.
Check(c) ==
  /\ \/ /\ Is(c, "lock")
        /\ IF IsLocked THEN Ends(c) ELSE GoesTo(c, "find")
     \/ /\ Is(c, "find")
        /\ IF user.deleted THEN Ends(c)
           ELSE call' = [call EXCEPT ![c].at = "read", ![c].yes = call[c].name = user.password]
     \/ /\ Is(c, "token")
        /\ IF tokens[call[c].name] = "pending" THEN GoesTo(c, "read") ELSE Ends(c)
  /\ UNCHANGED <<user, stamps, lapsed, sessions, tokens, userCache, sessionCache, faults, pastVars>>

\* findById or findByEmail, of which the new row is made.
RowFound == user

Read(c) ==
  LET r == call[c]
  IN /\ Is(c, "read")
     /\ IF user.deleted
        THEN IF r.op = "login" /\ r.yes THEN GoesTo(c, "open") ELSE Ends(c)
        ELSE IF r.op = "change" /\ r.name # user.password THEN Ends(c)
        ELSE call' = [call EXCEPT ![c].at = IF r.op = "change" THEN "stamp" ELSE "save",
                                  ![c].row = RowFound]
     /\ UNCHANGED <<user, stamps, lapsed, sessions, tokens, userCache, sessionCache, faults,
                    pastVars>>

\* changePassword takes the time before it hashes the new password, the others when they
\* insert the row.
Stamp(c) ==
  /\ Is(c, "stamp")
  /\ stamps' = stamps + 1
  /\ call' = [call EXCEPT ![c].at = "save", ![c].row.stamp = stamps + 1]
  /\ UNCHANGED <<user, lapsed, sessions, tokens, userCache, sessionCache, faults, pastVars>>

\* recordFailedLogin: the failed login that reaches the limit locks the account.
Attempted(row) == row.attempts + 1

FailedTooOften(row, stamp) ==   \* mutant: the limit itself does not lock yet
  [row EXCEPT !.attempts = Attempted(row),
              !.lock = IF Attempted(row) > MaxAttempts THEN stamp ELSE 0]
Failed(row, stamp) ==
  [row EXCEPT !.attempts = Attempted(row),
              !.lock = IF Attempted(row) >= MaxAttempts THEN stamp ELSE 0]

Changed(c, row, stamp) ==
  CASE call[c].op \in {"change", "reset"} -> [row EXCEPT !.password = c]
    [] call[c].op = "profile" -> row
    [] call[c].op = "delete" -> [row EXCEPT !.deleted = TRUE]
    [] call[c].op = "login" /\ call[c].yes -> [row EXCEPT !.attempts = 0, !.lock = 0]
    [] OTHER -> Failed(row, stamp)

Recorded(c) ==
  CASE call[c].op \in {"change", "reset"} -> [past EXCEPT !.password = c]
    [] call[c].op = "profile" -> past
    [] call[c].op = "delete" -> [past EXCEPT !.deleted = TRUE]
    [] call[c].op = "login" -> [past EXCEPT !.attempts = IF call[c].yes THEN 0 ELSE @ + 1]

\* c began before the row that counts was stored, and has not read that row.  What change
\* has read is not known any more once it is stamped.
Overtaken(c) ==
  /\ call[c].since # user.stamp
  /\ call[c].op = "change" \/ call[c].row.stamp # user.stamp

\* The time after a row was stamped.
LaterTime(stamp) == IF stamp > stamps THEN stamp ELSE stamps

Save(c) ==
  LET r == call[c]
      stamp == IF r.op = "change" THEN r.row.stamp ELSE stamps + 1
      new == [Changed(c, r.row, stamp) EXCEPT !.stamp = stamp]
  IN /\ Is(c, "save")
     /\ user' = IF stamp > user.stamp THEN new ELSE user
     /\ stamps' = LaterTime(stamp)
     /\ past' = Recorded(c)
     /\ raced' = (raced \/ Overtaken(c))
     /\ GoesTo(c, IF r.op = "login" /\ r.yes THEN "open"
                  ELSE IF r.op = "reset" THEN "mark" ELSE "uncache")
     /\ UNCHANGED <<lapsed, sessions, tokens, userCache, sessionCache, faults, ended, closed, late>>

\* invalidateUserCache, the last step of those that have changed the row.
Uncache(c) ==
  /\ Is(c, "uncache")
  /\ userCache' = NoRow
  /\ late' = late \ {"user"}
  /\ closed' = (closed \/ call[c].op = "delete")
  /\ Ends(c)
  /\ UNCHANGED <<user, stamps, lapsed, sessions, tokens, sessionCache, faults, past, raced, ended>>

Open(c) ==
  /\ Is(c, "open")
  /\ sessions' = [sessions EXCEPT ![c] = "live"]
  /\ Ends(c)
  /\ UNCHANGED <<user, stamps, lapsed, tokens, userCache, sessionCache, faults, pastVars>>

MarkToken(c) ==
  /\ Is(c, "mark")
  /\ tokens' = [tokens EXCEPT ![call[c].name] = "used"]
  /\ GoesTo(c, "list")
  /\ UNCHANGED <<user, stamps, lapsed, sessions, userCache, sessionCache, faults, pastVars>>

-----------------------------------------------------------------------------
(* Revocation. *)

\* SELECT ... WHERE revoked_at IS NULL; a mutant has it the other way round.
ToRevokeAgain == {n \in Names : sessions[n] = "revoked"}
ToRevoke == {n \in Names : sessions[n] = "live"}

\* A request that has revoked what it had to ends, a reset after invalidating the user.
Revoked(c, todo) ==
  IF todo # {} THEN call' = [call EXCEPT ![c].at = "revoke", ![c].todo = todo]
  ELSE IF call[c].op = "reset" THEN GoesTo(c, "uncache") ELSE Ends(c)

List(c) ==
  /\ Is(c, "list")
  /\ Revoked(c, ToRevoke)
  /\ UNCHANGED <<user, stamps, lapsed, sessions, tokens, userCache, sessionCache, faults, pastVars>>

Revoke(c) ==
  /\ Is(c, "revoke")
  /\ \E n \in IF call[c].op = "revoke" THEN {call[c].name} ELSE call[c].todo :
       /\ sessions' = [sessions EXCEPT ![n] = "revoked"]
       /\ call' = [call EXCEPT ![c].at = "forget", ![c].name = n]
  /\ UNCHANGED <<user, stamps, lapsed, tokens, userCache, sessionCache, faults, pastVars>>

\* invalidateSessionCache
CacheKept(n) == sessionCache
CacheWithout(n) == [sessionCache EXCEPT ![n] = None]

Forget(c) ==
  /\ Is(c, "forget")
  /\ sessionCache' = CacheWithout(call[c].name)
  /\ late' = late \ {call[c].name}
  /\ ended' = ended \cup {call[c].name}
  /\ Revoked(c, call[c].todo \ {call[c].name})
  /\ UNCHANGED <<user, stamps, lapsed, sessions, tokens, userCache, faults, past, raced, closed>>

-----------------------------------------------------------------------------
(* JwtStrategy.validate. *)

\* An answer from an entry that was filled too late is no longer held against the request.
Ask(c) ==
  LET n == call[c].name
  IN /\ \/ /\ Is(c, "ask") /\ sessionCache[n] = None
           /\ GoesTo(c, "check")
        \/ /\ Is(c, "ask") /\ sessionCache[n] = "invalid"
           /\ Ends(c)
        \/ /\ Is(c, "ask") /\ sessionCache[n] = "valid"
           /\ call' = [call EXCEPT ![c].at = "askUser",
                                   ![c].due = IF n \in late THEN @ \ {"session"} ELSE @]
        \/ /\ Is(c, "askUser") /\ userCache = NoRow
           /\ GoesTo(c, "findUser")
        \/ /\ Is(c, "askUser") /\ userCache # NoRow
           /\ call' = [call EXCEPT ![c].at = "accepted",
                                   ![c].due = IF "user" \in late THEN @ \ {"user"} ELSE @]
     /\ UNCHANGED <<user, stamps, lapsed, sessions, tokens, userCache, sessionCache, faults,
                    pastVars>>

Answer(c) ==
  /\ \/ /\ Is(c, "check")
        /\ call' = [call EXCEPT ![c].at = "fill", ![c].yes = sessions[call[c].name] = "live"]
     \/ /\ Is(c, "findUser")
        /\ IF user.deleted THEN Ends(c)
           ELSE call' = [call EXCEPT ![c].at = "fillUser", ![c].row = user]
  /\ UNCHANGED <<user, stamps, lapsed, sessions, tokens, userCache, sessionCache, faults, pastVars>>

Fill(c) ==
  LET n == call[c].name
  IN /\ \/ /\ Is(c, "fill")
           /\ IF call[c].yes
              THEN /\ sessionCache' = [sessionCache EXCEPT ![n] = "valid"]
                   /\ late' = IF sessions[n] = "revoked" THEN late \cup {n} ELSE late \ {n}
                   /\ GoesTo(c, "askUser")
              ELSE /\ sessionCache' = [sessionCache EXCEPT ![n] = "invalid"]
                   /\ late' = late \ {n}
                   /\ Ends(c)
           /\ UNCHANGED userCache
        \/ /\ Is(c, "fillUser")
           /\ userCache' = call[c].row
           /\ late' = IF user.deleted THEN late \cup {"user"} ELSE late \ {"user"}
           /\ GoesTo(c, "accepted")
           /\ UNCHANGED sessionCache
     /\ UNCHANGED <<user, stamps, lapsed, sessions, tokens, faults, past, raced, ended, closed>>

-----------------------------------------------------------------------------
(* The surroundings. *)

\* The time of a token, of a lock or of an entry of a cache is over.
Expire ==
  /\ \/ /\ \E t \in Calls : tokens[t] = "pending" /\ tokens' = [tokens EXCEPT ![t] = "expired"]
        /\ UNCHANGED <<lapsed, userCache, sessionCache, late>>
     \/ /\ IsLocked
        /\ lapsed' = user.lock
        /\ UNCHANGED <<tokens, userCache, sessionCache, late>>
     \/ /\ userCache # NoRow
        /\ userCache' = NoRow /\ late' = late \ {"user"}
        /\ UNCHANGED <<tokens, lapsed, sessionCache>>
     \/ /\ \E n \in Names : /\ sessionCache[n] # None
                            /\ sessionCache' = CacheWithout(n) /\ late' = late \ {n}
        /\ UNCHANGED <<tokens, lapsed, userCache>>
  /\ UNCHANGED <<user, stamps, sessions, call, faults, past, raced, ended, closed>>

\* A call of the database fails: the request stops where it is.
Fails(c) ==
  /\ call[c].at \notin {"new", "done", "accepted"}
  /\ faults < MaxFaults
  /\ faults' = faults + 1
  /\ Ends(c)
  /\ UNCHANGED <<user, stamps, lapsed, sessions, tokens, userCache, sessionCache, pastVars>>

Next ==
  \/ \E c \in Calls :
       \/ Begin(c) \/ ForgotPassword(c) \/ Check(c) \/ Read(c) \/ Stamp(c) \/ Save(c)
       \/ Uncache(c) \/ Open(c) \/ MarkToken(c) \/ List(c) \/ Revoke(c) \/ Forget(c)
       \/ Ask(c) \/ Answer(c) \/ Fill(c) \/ Fails(c)
  \/ Expire

Spec == Init /\ [][Next]_vars

-----------------------------------------------------------------------------
(* What an account guarantees. *)

\* What operations have recorded is what the account says: the password chosen last, the
\* failed logins since the last good one and the lock that follows from them, the
\* deletion.  Nothing of it is lost to other operations that rewrite the row, unless
\* requests overlapped and one made its row from one that was replaced in the meantime.
NothingRecordedIsLost ==
  raced \/ /\ user.password = past.password
           /\ user.attempts = past.attempts
           /\ user.deleted = past.deleted
           /\ user.attempts >= MaxAttempts => user.lock # 0

\* A request that begins when a session is revoked and its cache entry invalidated, or the
\* user deleted, is refused, unless the answer comes from an entry that another request
\* filled with what it had read before, or a deletion was lost.
EndedIsRefused ==
  \A c \in Calls :
     call[c].at = "accepted" => call[c].due = {} \/ (raced /\ call[c].due = {"user"})

\* When resetPassword returns, every session that was live when it began is revoked.
ResetEndsSessions ==
  [][\A c \in Calls :
        Is(c, "uncache") /\ call[c].op = "reset" /\ call'[c] = Done /\ faults' = faults =>
           \A n \in call[c].before : sessions[n] = "revoked"]_vars
=============================================================================
