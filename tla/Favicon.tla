------------------------------ MODULE Favicon ------------------------------
(***************************************************************************)
(* GET /icon for one origin: the cached answer while it is fresh, else a   *)
(* fetch of the site's page and of the icons it names, one after another,  *)
(* and the upsert of what was found. Requests run side by side, the site   *)
(* changes under them, clients go away and the database fails.             *)
(***************************************************************************)
EXTENDS Integers, Sequences

CONSTANTS
  Requests,        \* clients that ask again and again
  Sites,           \* what the site may be
  OkTtl, ErrTtl,   \* ICON_CACHE_OK_TTL_SECONDS, ICON_CACHE_ERR_TTL_SECONDS
  MaxChanges,      \* bound of the model: changes of the site
  MaxFaults        \* bound of the model: clients gone, database errors

\* What the links of a page lead to, and the icon every site may have.  A
\* resource answers with an image, with other bytes declared as image/*, with
\* something else, or not within the caps.
Resources == {"touch", "icon", "ico"}
Answers == {"image", "declared", "text", "none"}

\* An href is inline data, taken for an image or not, a link to a resource, or
\* of another scheme.  A page that cannot be had has none.
Hrefs == {"inline", "junk", "other"} \cup Resources
SiteType == [hrefs : Seq(Hrefs), has : [Resources -> Answers]]

FaviconAssumption ==
  /\ Sites \subseteq SiteType
  /\ OkTtl \in Nat /\ ErrTtl \in Nat /\ MaxChanges \in Nat /\ MaxFaults \in Nat

VARIABLES
  site, changes, faults,
  row,     \* favicon_cache: what was found, and its age
  pc,      \* of each request: "idle", "lookup", "page", "icons", "store"
  left,    \* the candidates it has left: a place in their order, a resource
  found,   \* what its fetch found, and where
  seen,    \* history: the site its fetch began with, if it is the same still
  answer   \* its last answer: "image", "404", "500", or "" before one

vars == <<site, changes, faults, row, pc, left, found, seen, answer>>
world == <<site, changes>>
fetch == <<left, found, seen>>

Old == OkTtl + ErrTtl + 1   \* ages are not told apart beyond this
NotFound == [from |-> "nowhere", is |-> "none"]
NoRow == [found |-> NotFound, age |-> Old]
Changed == [hrefs |-> <<"changed">>, has |-> [x \in Resources |-> "none"]]

Init ==
  /\ site \in Sites /\ changes = 0 /\ faults = 0
  /\ row = NoRow
  /\ pc = [r \in Requests |-> "idle"]
  /\ left = [r \in Requests |-> {}]
  /\ found = [r \in Requests |-> NotFound]
  /\ seen = [r \in Requests |-> Changed]
  /\ answer = [r \in Requests |-> ""]

-----------------------------------------------------------------------------

Fresh == row.age <= IF row.found = NotFound THEN ErrTtl ELSE OkTtl

Go(r, at) == pc' = [pc EXCEPT ![r] = at]
Reply(r, what) == Go(r, "idle") /\ answer' = [answer EXCEPT ![r] = what]
Show(r, f) == Reply(r, IF f = NotFound THEN "404" ELSE "image")

Ask(r) ==
  /\ pc[r] = "idle" /\ Go(r, "lookup")
  /\ UNCHANGED <<world, faults, row, fetch, answer>>

\* favicon_cache_lookup: a fresh row is the answer, an image or not.
Lookup(r) ==
  /\ pc[r] = "lookup"
  /\ IF Fresh THEN Show(r, row.found) ELSE Go(r, "page") /\ UNCHANGED answer
  /\ UNCHANGED <<world, faults, row, fetch>>

\* The links to resources where they are on the page, and then /favicon.ico.
Candidates(s) ==
  {<<i, s.hrefs[i]>> : i \in {j \in DOMAIN s.hrefs : s.hrefs[j] \in Resources}}
  \cup {<<Len(s.hrefs) + 1, "ico">>}
Inline(s) == \E i \in DOMAIN s.hrefs : s.hrefs[i] = "inline"

\* fetch_favicon: the page's hrefs; an inline image ends the search at once,
\* wherever it is on the page.
FetchPage(r) ==
  /\ pc[r] = "page"
  /\ seen' = [seen EXCEPT ![r] = site]
  /\ IF Inline(site)
     THEN /\ found' = [found EXCEPT ![r] = [from |-> "inline", is |-> "image"]]
          /\ Go(r, "store") /\ UNCHANGED left
     ELSE /\ left' = [left EXCEPT ![r] = Candidates(site)]
          /\ Go(r, "icons") /\ UNCHANGED found
  /\ UNCHANGED <<world, faults, row, answer>>

\* fetch_image: a declared image/* is believed, other bytes are looked at.
Accepted(response) == response \in {"image", "declared"}

\* One candidate: the first image ends the fetch, the last miss too.
Try(r, c) ==
  LET response == site.has[c[2]]
  IN IF Accepted(response)
     THEN /\ found' = [found EXCEPT ![r] = [from |-> c[2], is |-> response]]
          /\ left' = [left EXCEPT ![r] = {}]
          /\ Go(r, "store")
     ELSE /\ left' = [left EXCEPT ![r] = @ \ {c}]
          /\ IF left[r] = {c} THEN Go(r, "store") ELSE UNCHANGED pc
          /\ UNCHANGED found

\* fault: the candidates are taken from the end of their list
FetchIconLast(r) ==
  /\ pc[r] = "icons"
  /\ \E c \in left[r] : (\A d \in left[r] : d[1] <= c[1]) /\ Try(r, c)
  /\ UNCHANGED <<world, faults, row, seen, answer>>

\* The candidates are fetched in their order.
FetchIcon(r) ==
  /\ pc[r] = "icons"
  /\ \E c \in left[r] : (\A d \in left[r] : c[1] <= d[1]) /\ Try(r, c)
  /\ UNCHANGED <<world, faults, row, seen, answer>>

\* favicon_cache_store, and the answer.
Store(r) ==
  /\ pc[r] = "store"
  /\ row' = [found |-> found[r], age |-> 0]
  /\ Show(r, found[r])
  /\ found' = [found EXCEPT ![r] = NotFound]
  /\ seen' = [seen EXCEPT ![r] = Changed]
  /\ UNCHANGED <<world, faults, left>>

Reset(r) ==
  /\ left' = [left EXCEPT ![r] = {}]
  /\ found' = [found EXCEPT ![r] = NotFound]
  /\ seen' = [seen EXCEPT ![r] = Changed]

\* A query fails.
Fault(r) ==
  /\ pc[r] \in {"lookup", "store"} /\ faults < MaxFaults
  /\ faults' = faults + 1
  /\ Reply(r, "500") /\ Reset(r)
  /\ UNCHANGED <<world, row>>

\* The client goes away and its handler is dropped.
Leave(r) ==
  /\ pc[r] # "idle" /\ faults < MaxFaults
  /\ faults' = faults + 1
  /\ Go(r, "idle") /\ Reset(r)
  /\ UNCHANGED <<world, row, answer>>

Change ==
  /\ changes < MaxChanges
  /\ changes' = changes + 1
  /\ site' \in Sites \ {site}
  /\ seen' = [r \in Requests |-> Changed]
  /\ UNCHANGED <<faults, row, pc, left, found, answer>>

Older(age) == IF age < Old THEN age + 1 ELSE age
Tick ==
  /\ row' = [row EXCEPT !.age = Older(@)]
  /\ UNCHANGED <<world, faults, pc, fetch, answer>>

Handle(r) == Lookup(r) \/ FetchPage(r) \/ FetchIcon(r) \/ Store(r)

Next ==
  \/ \E r \in Requests :
       \/ Ask(r)
       \/ Lookup(r) \/ FetchPage(r) \/ FetchIcon(r) \/ Store(r)
       \/ Fault(r) \/ Leave(r)
  \/ Change \/ Tick

Spec == Init /\ [][Next]_vars

\* Clients ask on, handlers run, time passes.
FairSpec ==
  /\ Spec
  /\ WF_vars(Tick)
  /\ \A r \in Requests : WF_vars(Ask(r)) /\ WF_vars(Handle(r))

-----------------------------------------------------------------------------

TypeOK ==
  /\ site \in Sites /\ changes \in 0..MaxChanges /\ faults \in 0..MaxFaults
  /\ row.age \in 0..Old
  /\ \A r \in Requests :
       /\ pc[r] \in {"idle", "lookup", "page", "icons", "store"}
       /\ (left[r] = {}) = (pc[r] # "icons")
       /\ answer[r] \in {"", "404", "500", "image"}

\* The places of a page, with /favicon.ico behind them, that lead to an image.
Tried(s) == Append(s.hrefs, "ico")
Images(s) ==
  {i \in DOMAIN Tried(s) : Tried(s)[i] \in Resources /\ Accepted(s.has[Tried(s)[i]])}
HasIcon(s) == Inline(s) \/ Images(s) # {}

\* What a search of a site that keeps still is to find: an inline image where
\* the page has one, else what the first of those places leads to, in the order
\* of the page.
IsIcon(f, s) ==
  \/ Inline(s) /\ f.from = "inline"
  \/ /\ ~Inline(s)
     /\ \E i \in Images(s) :
          /\ \A j \in Images(s) : i <= j
          /\ f = [from |-> Tried(s)[i], is |-> s.has[Tried(s)[i]]]
  \/ ~HasIcon(s) /\ f = NotFound

(***************************************************************************)
(* A fetch during which the site did not change stores what the site has,  *)
(* whatever the other requests do: an inline image, or the first response  *)
(* in the order of the page that is accepted, be it an image or declared   *)
(* as one, and a miss only where there is none (fetch_favicon).            *)
(***************************************************************************)
FetchFindsIcon ==
  \A r \in Requests :
    (pc[r] = "store" /\ seen[r] # Changed) => IsIcon(found[r], seen[r])

(***************************************************************************)
(* "The first response whose bytes are a real image wins"                  *)
(* (docs/icon.html, and the comment on fetch_favicon).  It does not hold:  *)
(* fetch_image believes what is declared as image/*.                       *)
(***************************************************************************)
RealImageWins ==
  \A r \in Requests : pc[r] = "store" => found[r].is # "declared"

(***************************************************************************)
(* Once a site has an icon and keeps it, everybody who asks on is shown an *)
(* image at last: a miss, and one stored late by a slow fetch too, does    *)
(* not last (favicon_cache_lookup, favicon_cache_store).                   *)
(***************************************************************************)
IconReturns ==
  <>[]HasIcon(site) => <>[](\A r \in Requests : answer[r] # "404")

=============================================================================
