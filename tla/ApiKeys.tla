------------------------------ MODULE ApiKeys -------------------------------
(***************************************************************************)
(* An API key of a workspace: its rows (api/src/api-keys) and the strategy   *)
(* that accepts it (api/src/auth/strategies/api-key.strategy.ts).  A use of  *)
(* the key rewrites its row, and the request does not wait for that; a        *)
(* revocation deletes the rows and inserts one.  The row with the newest      *)
(* stamp counts, whenever it was inserted.                                   *)
(***************************************************************************)
EXTENDS Integers, FiniteSets

CONSTANTS
  Uses,         \* bound: requests that bring the key
  Revocations   \* bound: calls of apiKeys.revoke

VARIABLES
  keyRows,     \* [stamp, status, lapses]: lapses says whether expires_at is set
  keyDoomed,   \* rows ClickHouse was told to delete
  keyMade,     \* the key was created
  keyStamps,   \* the stamps given so far
  keyLapsed,   \* expires_at has passed
  use,         \* what each request does
  revocation,  \* what each revocation does
  keyPurged,   \* the workspace was deleted, and its keys with it
  \* History variables: they record the past and guard nothing.
  keyCrossed,  \* a use was stamped or read a row while its end was on the way
  keyEnded     \* a revocation or the deletion of the workspace was acknowledged

keyVars == <<keyRows, keyDoomed, keyMade, keyStamps, keyLapsed, use, revocation, keyPurged,
             keyCrossed, keyEnded>>

Unmade == [at |-> "new"]
Over == [at |-> "over"]
LatestKey == CHOOSE r \in keyRows : \A o \in keyRows : o.stamp <= r.stamp

KeysInit ==
  /\ keyRows = {} /\ keyDoomed = {} /\ keyMade = FALSE /\ keyStamps = 0
  /\ keyLapsed = FALSE /\ keyPurged = FALSE /\ keyCrossed = FALSE /\ keyEnded = FALSE
  /\ use = [u \in Uses |-> Unmade] /\ revocation = [v \in Revocations |-> Unmade]

Create ==
  \E lapses \in BOOLEAN :
    /\ ~keyMade /\ keyMade' = TRUE
    /\ keyStamps' = keyStamps + 1
    /\ keyRows' = {[stamp |-> keyStamps', status |-> "active", lapses |-> lapses]}
    /\ UNCHANGED <<keyDoomed, keyLapsed, use, revocation, keyPurged, keyCrossed, keyEnded>>

\* ApiKeyStrategy.validate
Accepted == /\ keyRows # {} /\ LatestKey.status = "active"
            /\ ~(LatestKey.lapses /\ keyLapsed)

\* The request is accepted, and goes on; updateLastUsed has taken its stamp and not yet read.
UseAccepted(u) ==
  /\ use[u] = Unmade /\ Accepted
  /\ keyStamps' = keyStamps + 1
  /\ use' = [use EXCEPT ![u] = [at |-> "read", stamp |-> keyStamps', late |-> keyEnded]]
  /\ keyCrossed' = (keyCrossed \/ \E v \in Revocations : revocation[v].at \in {"delete", "insert"})
  /\ UNCHANGED <<keyRows, keyDoomed, keyMade, keyLapsed, revocation, keyPurged, keyEnded>>

UseRefused(u) ==
  /\ use[u] = Unmade /\ keyMade /\ ~Accepted
  /\ use' = [use EXCEPT ![u] = Over]
  /\ UNCHANGED <<keyRows, keyDoomed, keyMade, keyStamps, keyLapsed, revocation, keyPurged,
                 keyCrossed, keyEnded>>

\* updateLastUsed: nothing happens when the key is gone.
UsedReads(u) ==
  /\ use[u].at = "read"
  /\ use' = [use EXCEPT ![u] = IF keyRows = {} THEN [@ EXCEPT !.at = "used"]
                               ELSE [at |-> "insert", late |-> @.late,
                                     row |-> [LatestKey EXCEPT !.stamp = use[u].stamp]]]
  /\ keyCrossed' = (keyCrossed \/ (keyPurged /\ keyRows # {}))
  /\ UNCHANGED <<keyRows, keyDoomed, keyMade, keyStamps, keyLapsed, revocation, keyPurged, keyEnded>>

UsedStampLate(u) == keyStamps + 1   \* mutant: the time at which the row is inserted
\* The stamp that is stored is the one taken at first.
UsedStamp(u) == use[u].row.stamp

UsedInserts(u) ==
  /\ use[u].at = "insert"
  /\ keyRows' = keyRows \cup {[use[u].row EXCEPT !.stamp = UsedStamp(u)]}
  /\ use' = [use EXCEPT ![u] = [at |-> "used", late |-> @.late]]
  /\ keyStamps' = keyStamps + 1
  /\ UNCHANGED <<keyDoomed, keyMade, keyLapsed, revocation, keyPurged, keyCrossed, keyEnded>>

RevokeReads(v) ==   \* else NotFoundException
  /\ revocation[v] = Unmade /\ keyRows # {}
  /\ keyStamps' = keyStamps + 1
  /\ revocation' = [revocation EXCEPT ![v] =
       [at |-> "delete", row |-> [LatestKey EXCEPT !.status = "revoked", !.stamp = keyStamps']]]
  /\ UNCHANGED <<keyRows, keyDoomed, keyMade, keyLapsed, use, keyPurged, keyCrossed, keyEnded>>

RevokeDeletes(v) ==
  /\ revocation[v].at = "delete"
  /\ keyDoomed' = keyRows
  /\ revocation' = [revocation EXCEPT ![v] = [@ EXCEPT !.at = "insert"]]
  /\ UNCHANGED <<keyRows, keyMade, keyStamps, keyLapsed, use, keyPurged, keyCrossed, keyEnded>>

RevokeInserts(v) ==
  /\ revocation[v].at = "insert"
  /\ keyRows' = keyRows \cup {revocation[v].row}
  /\ revocation' = [revocation EXCEPT ![v] = Over]
  /\ keyEnded' = TRUE
  /\ UNCHANGED <<keyDoomed, keyMade, keyStamps, keyLapsed, use, keyPurged, keyCrossed>>

\* WorkspacesService.delete deletes the keys of the workspace.
Purge ==
  /\ ~keyPurged /\ keyMade
  /\ keyDoomed' = keyRows /\ keyPurged' = TRUE
  /\ keyCrossed' = \/ keyCrossed
                   \/ \E u \in Uses : use[u].at \in {"read", "insert"}
                   \/ \E v \in Revocations : revocation[v].at \in {"delete", "insert"}
  /\ UNCHANGED <<keyRows, keyMade, keyStamps, keyLapsed, use, revocation, keyEnded>>

KeyMutation ==   \* ClickHouse carries out the deletions; those of a workspace end there
  /\ keyDoomed # {}
  /\ keyRows' = keyRows \ keyDoomed /\ keyDoomed' = {}
  /\ keyEnded' = (keyEnded \/ keyPurged)
  /\ UNCHANGED <<keyMade, keyStamps, keyLapsed, use, revocation, keyPurged, keyCrossed>>

Lapse ==
  /\ ~keyLapsed /\ keyLapsed' = TRUE
  /\ UNCHANGED <<keyRows, keyDoomed, keyMade, keyStamps, use, revocation, keyPurged, keyCrossed,
                 keyEnded>>

KeysNext ==
  \/ Create \/ Purge \/ KeyMutation \/ Lapse
  \/ \E u \in Uses : UseAccepted(u) \/ UseRefused(u) \/ UsedReads(u) \/ UsedInserts(u)
  \/ \E v \in Revocations : RevokeReads(v) \/ RevokeDeletes(v) \/ RevokeInserts(v)

KeysSpec == KeysInit /\ [][KeysNext]_keyVars

-----------------------------------------------------------------------------
\* A key that was revoked, or went with its workspace, is refused from then on, although uses
\* that began earlier go on rewriting its row: their stamps are older than the revocation's
\* (api-keys.service.ts, updateLastUsed).  Not so when a use is stamped while the revocation
\* is between its own stamp and its insert, or reads rows that are about to be deleted.
EndedKeyIsRefused ==
  ~keyCrossed => \A u \in Uses : use[u].at \in {"read", "insert", "used"} => ~use[u].late
=============================================================================
