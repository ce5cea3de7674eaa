------------------------------ MODULE Visitor ------------------------------
(***************************************************************************)
(* Who a visitor is to the SDK: the session with its custom dimensions and   *)
(* user id (sdk/src/core/session.ts), kept as one value in the memory of     *)
(* each page and as three values in the storage the pages of a site share    *)
(* (storage/storage.ts), and carried to another site of the same owner by a  *)
(* decorated link (core/cross-domain.ts).                                    *)
(*                                                                         *)
(* A page reads the storage once, when it loads; from then on it writes its  *)
(* own copy.  A page whose storage fails goes on in memory of its own.       *)
(***************************************************************************)
EXTENDS Integers, FiniteSets

CONSTANTS
  Sites, PageTabs,      \* the sites of the owner; the tabs of the browser
  Indexes, Texts, UrlTexts,   \* custom dimensions, their values in calls and in addresses
  Users,                \* user ids
  Unset,                \* null, and a dimension or a key that is not there
  Timeout, CrossDomainExpiry,   \* sessionTimeout, crossDomainExpiry
  MaxVisit, MaxStorageFaults   \* bounds: the steps of a visit, the pages whose storage fails

Dims == [Indexes -> Texts \union UrlTexts \union {Unset}]
ASSUME VisitorAssumption == Unset \notin Dims

VARIABLES
  now,        \* the time
  storages,   \* localStorage of each site: its keys session, dimensions and user_id
  tab,        \* the page in each tab: its site, its storage object, its session, its link
  links,      \* the addresses that were decorated: [session, time]
  sessionIds, steps, storageFaults,   \* how many there were
  truth,      \* of each site, the dimensions and the user id last asked for
  upToDate,   \* of each tab: nobody else changed the identity since it loaded
  confused    \* of each site: whether a page out of date wrote, whether the storage failed

visitorVars == <<now, storages, tab, links, sessionIds, steps, storageFaults, truth, upToDate,
                 confused>>

NoDims == [i \in Indexes |-> Unset]
NoKeys == [session |-> Unset, dimensions |-> Unset, user |-> Unset]
Closed == [site |-> Unset, memory |-> FALSE, kept |-> NoKeys, session |-> Unset, link |-> Unset]

----------------------------------------------------------------------------
(* The storage object: what is in localStorage, whether the page has given it  *)
(* up, and what it keeps in memory instead.  room: how many more values        *)
(* localStorage takes before setItem throws; denied: every access throws.      *)

Get(st, key) == IF st.memory \/ st.denied THEN st.kept[key] ELSE st.local[key]

Put(st, key, value) ==
  IF ~st.memory /\ st.room > 0 THEN [st EXCEPT !.local[key] = value, !.room = @ - 1]
  ELSE [st EXCEPT !.memory = TRUE, !.kept[key] = value]

\* A removal that fails forgets what memory has, and does not give localStorage up.
RemoveItem(st, key) ==
  IF st.memory \/ st.denied THEN [st EXCEPT !.kept[key] = Unset]
  ELSE [st EXCEPT !.local[key] = Unset]

----------------------------------------------------------------------------
(* The session manager: each operation yields the storage and the session.    *)

SaveSession(st, session) == [st |-> Put(st, "session", session), session |-> session]

SaveDimensions(st, session) == SaveSession(Put(st, "dimensions", session.dims), session)

SaveUserId(st, session) ==
  SaveSession(IF session.user = Unset THEN RemoveItem(st, "user")
              ELSE Put(st, "user", session.user), session)

LoadDimensions(st) == IF Get(st, "dimensions") = Unset THEN NoDims ELSE Get(st, "dimensions")

NewSession(st, id) ==
  [id |-> id, active |-> now, dims |-> LoadDimensions(st), user |-> Get(st, "user")]

IsSessionExpired(session) == now - session.active > Timeout

\* isValidCrossDomain, and the same test in readParam.  The sites have the clock of one browser,
\* so no link comes from the future.
IsValidLink(link) == link # Unset /\ now - link.time <= CrossDomainExpiry

\* The session that is taken up again has the dimensions and the user stored with it.
Resumed(session) == [session EXCEPT !.active = now]

CanResume(st) == Get(st, "session") # Unset /\ ~IsSessionExpired(Get(st, "session"))

GetOrCreate(st, link, newId) ==
  SaveSession(st, IF IsValidLink(link) THEN NewSession(st, link.session)
                  ELSE IF CanResume(st) THEN Resumed(Get(st, "session"))
                  ELSE NewSession(st, newId))

\* A dimension of the address counts where there is none yet.
Added(dims, url) == [i \in Indexes |-> IF dims[i] = Unset THEN url[i] ELSE dims[i]]

ApplyUrlDimensions(at, url) ==
  LET dims == Added(at.session.dims, url)
  IN IF dims = at.session.dims THEN at
     ELSE SaveDimensions(at.st, [at.session EXCEPT !.dims = dims])

\* Mutant: the user id is left in the storage.
ResetButUser(st, link, newId) ==
  LET emptied == RemoveItem(RemoveItem(st, "session"), "dimensions")
  IN GetOrCreate(SaveSession(emptied, NewSession(emptied, newId)).st, link, newId)

\* reset() of the SDK: the keys are removed and a session is created, and then asked for again,
\* so that a link that has not expired is taken up once more.
ResetAll(st, link, newId) ==
  LET emptied == RemoveItem(RemoveItem(RemoveItem(st, "session"), "dimensions"), "user")
  IN GetOrCreate(SaveSession(emptied, NewSession(emptied, newId)).st, link, newId)

----------------------------------------------------------------------------
(* The actions.                                                              *)

VisitorInit ==
  /\ now = 0
  /\ storages = [s \in Sites |-> NoKeys]
  /\ tab = [t \in PageTabs |-> Closed]
  /\ links = {}
  /\ sessionIds = 0 /\ steps = 0 /\ storageFaults = 0
  /\ truth = [s \in Sites |-> [dims |-> NoDims, user |-> Unset]]
  /\ upToDate = [t \in PageTabs |-> FALSE]
  /\ confused = [s \in Sites |-> {}]

\* How localStorage answers during one operation: it takes everything, is full at one of the
\* three values an operation may save, or is denied.
Plenty == 3
Fine == [room |-> Plenty, denied |-> FALSE]
Answers ==
  {Fine} \union IF storageFaults = MaxStorageFaults THEN {}
                ELSE [room : 0..Plenty-1, denied : {FALSE}] \union {[room |-> 0, denied |-> TRUE]}

Storage(s, page, answer) ==
  [local |-> storages[s], memory |-> page.memory, kept |-> page.kept,
   room |-> answer.room, denied |-> answer.denied]

\* What an operation of tab t leaves behind on site s: page was there, asked is the identity now
\* asked for, inStep says that the page did not act on something out of date.
Leaves(t, s, page, at, asked, inStep) ==
  /\ storages' = [storages EXCEPT ![s] = at.st.local]
  /\ tab' = [tab EXCEPT ![t] = [page EXCEPT !.memory = at.st.memory, !.kept = at.st.kept,
                                            !.session = at.session]]
  /\ storageFaults' = storageFaults + (IF at.st.memory /\ ~tab[t].memory THEN 1 ELSE 0)
  /\ truth' = [truth EXCEPT ![s] = asked]
  /\ upToDate' = [u \in PageTabs |->
       IF u = t THEN inStep ELSE upToDate[u] /\ (tab[u].site = s => asked = truth[s])]
  /\ confused' = [confused EXCEPT ![s] = @ \union (IF inStep THEN {} ELSE {"stale"})
                                           \union (IF at.st.memory THEN {"failed"} ELSE {})]

\* init: a tab opens a page of a site, with dimensions in its address, by a decorated link or not.
\* A storage object that is denied localStorage starts in memory (testStorage).
LoadPage(t, s, url, link, answer) ==
  /\ LET page == [Closed EXCEPT !.site = s, !.memory = answer.denied,
                                !.link = IF IsValidLink(link) THEN link ELSE Unset]
         at == GetOrCreate(Storage(s, page, answer), page.link, sessionIds + 1)
     IN /\ sessionIds' = IF at.session.id > sessionIds THEN sessionIds + 1 ELSE sessionIds
        /\ Leaves(t, s, page, ApplyUrlDimensions(at, url),
                  [truth[s] EXCEPT !.dims = Added(@, url)],
                  ~answer.denied /\ confused[s] = {})
  /\ UNCHANGED <<now, links>>

Here(t) == tab[t].session # Unset

\* A call of the site's own code, in a page that is there.
Calls(t, at, asked) ==
  /\ Here(t)
  /\ Leaves(t, tab[t].site, tab[t], at, asked, upToDate[t])
  /\ UNCHANGED <<now, links>>

Place(t, answer) == Storage(tab[t].site, tab[t], answer)
Asked(t) == truth[tab[t].site]

SetDimension(t, i, v, answer) ==
  /\ Calls(t, SaveDimensions(Place(t, answer), [tab[t].session EXCEPT !.dims[i] = v]),
           [Asked(t) EXCEPT !.dims[i] = v])
  /\ UNCHANGED sessionIds

ClearDimensions(t, answer) ==
  /\ Calls(t, SaveDimensions(Place(t, answer), [tab[t].session EXCEPT !.dims = NoDims]),
           [Asked(t) EXCEPT !.dims = NoDims])
  /\ UNCHANGED sessionIds

SetUserId(t, u, answer) ==
  /\ Calls(t, SaveUserId(Place(t, answer), [tab[t].session EXCEPT !.user = u]),
           [Asked(t) EXCEPT !.user = u])
  /\ UNCHANGED sessionIds

ResetVisitor(t, answer) ==
  /\ sessionIds' = sessionIds + 1
  /\ Calls(t, ResetAll(Place(t, answer), tab[t].link, sessionIds + 1),
           [dims |-> NoDims, user |-> Unset])

\* decorateUrl, handleClick and handleSubmit: the address of another site gets the session.
Decorate(t) ==
  /\ Here(t)
  /\ links' = links \union {[session |-> tab[t].session.id, time |-> now]}
  /\ UNCHANGED <<now, storages, tab, sessionIds, storageFaults, truth, upToDate,
                 confused>>

Pass ==
  /\ now' = now + 1
  /\ UNCHANGED <<storages, tab, links, sessionIds, storageFaults, truth, upToDate,
                 confused>>

Page(t) ==
  \/ Decorate(t)
  \/ \E answer \in Answers :
       \/ \E s \in Sites, url \in [Indexes -> UrlTexts \union {Unset}],
             link \in links \union {Unset} : LoadPage(t, s, url, link, answer)
       \/ \E i \in Indexes, v \in Texts : SetDimension(t, i, v, answer)
       \/ ClearDimensions(t, answer)
       \/ \E u \in Users \union {Unset} : SetUserId(t, u, answer)
       \/ ResetVisitor(t, answer)

VisitorNext ==
  /\ steps < MaxVisit /\ steps' = steps + 1
  /\ \/ Pass
     \/ \E t \in PageTabs : Page(t)

VisitorSpec == VisitorInit /\ [][VisitorNext]_visitorVars

----------------------------------------------------------------------------
(* Properties.                                                               *)

VisitorTypeOK ==
  /\ \A t \in PageTabs : tab[t].session # Unset =>
       tab[t].session.id \in 1..sessionIds /\ tab[t].session.active \in 0..now
  /\ \A l \in links : l.session \in 1..sessionIds /\ l.time \in 0..now

Identity(session) == [dims |-> session.dims, user |-> session.user]

\* A page that found the storage in order when it loaded says of the visitor what was last asked
\* for on its site, whatever its storage does later, until another tab asks for something else:
\* through expiry of the session, a link from the other site and a reset.
PagesKnowTheVisitor ==
  \A t \in PageTabs : Here(t) /\ upToDate[t] => Identity(tab[t].session) = Asked(t)

\* The three keys agree, as the next page to load needs: it may take the dimensions and the user
\* from the stored session, or from the keys of their own.
KeysAgree ==
  \A s \in Sites : confused[s] = {} =>
    /\ storages[s].user = truth[s].user
    /\ \/ storages[s].dimensions = truth[s].dims
       \/ storages[s].dimensions = Unset /\ truth[s].dims = NoDims
    /\ storages[s].session # Unset => Identity(storages[s].session) = truth[s]

\* However tabs overlap, the user id stored is the last one set, as long as the storage works.
LastUserStands ==
  \A s \in Sites : "failed" \notin confused[s] => storages[s].user = truth[s].user

\* A visitor is who the site said last: the pages, the stored keys and the keys of different tabs.
VisitorIsKnown == VisitorTypeOK /\ PagesKnowTheVisitor /\ KeysAgree /\ LastUserStands
===========================================================================
