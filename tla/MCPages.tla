------------------------------- MODULE MCPages ------------------------------
(***************************************************************************)
(* The components behind the pages of cc.me: screenshots, fonts, favicons, *)
(* statistics and the handlers that read a query.  A behaviour runs one of *)
(* them, its part, and the variables of the others stand still.  A .cfg    *)
(* chooses parts and bounds.                                               *)
(***************************************************************************)
EXTENDS Integers, Sequences, TLC

CONSTANTS
  ann, bob, cat, dan, None,
  Parts,
  Renders, ChromeRenders,
  ShotClients, ShotPages, ShotPermits, ShotRenders, ShotTtl, ShotBrowsers,
  GateBits, GateBytes, GateLevel, GateDim, GateWindow, GateSkew,
  Families, FontFiles, FontDirs, FontClients, FontPulls, FontPanics,
  IconSites, IconChanges,
  StatServers, StatMembers, StatQueue, StatBatch, StatHour, StatDay, StatHours, StatDays,
  StatEvents, StatClock, StatLoads, FigureEvents,
  TextLines, QueryLen

VARIABLES
  part,
  handle, renders, job, guard, queue, pending, nextId, waiters, fired, running,
  up, todo, wire, contexts, loading, heard,
  req, age, browser, disposing, managed, mutex,
  token, digest, spec, gate, bits, next, verdict, resolved,
  tree, pulls, panics, touched, index, from, load, fetcher, want, status,
  text, depth, block, font, axis, found,
  site, changes, faults, row, visit, left, icon, seen, answer,
  clock, channel, batch, statements, done, table, figures, loads, sent, lost,
  query

cdpVars == <<handle, renders, job, guard, queue, pending, nextId, waiters, fired,
             running, up, todo, wire, contexts, loading, heard>>
shotVars == <<req, age, browser, disposing, managed, mutex>>
gateVars == <<token, digest, spec, gate, bits, next, verdict, resolved>>
fontVars == <<tree, pulls, panics, touched, index, from, load, fetcher, want, status>>
textVars == <<text, depth, block, font, axis, found>>
iconVars == <<site, changes, faults, row, visit, left, icon, seen, answer>>
statVars == <<clock, channel, batch, statements, done, table, figures, loads, sent, lost>>
vars == <<part, cdpVars, shotVars, gateVars, fontVars, textVars, iconVars, statVars, query>>

-----------------------------------------------------------------------------
(* The parts *)

\* A browser, recycled after ChromeRenders renders.
Chromium == INSTANCE Cdp WITH MaxRenders <- ChromeRenders

\* Requests for pages.
Shots == INSTANCE Shot WITH
  Clients <- ShotClients, Keys <- ShotPages, Permits <- ShotPermits,
  MaxRenders <- ShotRenders, Ttl <- ShotTtl, MaxBrowsers <- ShotBrowsers

\* Digests of GateBytes bytes of GateBits bits, pictures of up to GateDim by GateDim.
Gate == INSTANCE ShotGate WITH
  Width <- GateBits, DigestLen <- GateBytes, Level <- GateLevel, MaxDim <- GateDim,
  TsWindow <- GateWindow, MaxSkew <- GateSkew,
  pc <- gate, status <- verdict

Clone == INSTANCE Fonts WITH
  Files <- FontFiles, Dirs <- FontDirs, Clients <- FontClients,
  MaxPulls <- FontPulls, MaxPanics <- FontPanics, pc <- fetcher

\* All texts of up to TextLines lines.
Metadata == INSTANCE FontText WITH MaxLines <- TextLines

\* Sites with each way to an icon, and without one.
Site(hrefs, touch, icon_, ico) ==
  [hrefs |-> hrefs, has |-> [touch |-> touch, icon |-> icon_, ico |-> ico]]
Sites ==
  "linked" :> Site(<<"junk", "touch", "icon", "other">>, "image", "declared", "image")
  @@ "inline" :> Site(<<"icon", "inline", "touch">>, "text", "declared", "none")
  @@ "declared" :> Site(<<"touch", "other", "icon">>, "none", "declared", "image")
  @@ "fallback" :> Site(<<"icon", "touch", "icon">>, "text", "text", "image")
  @@ "none" :> Site(<<>>, "image", "image", "none")
Icons == INSTANCE Favicon WITH
  Requests <- {ann, bob}, Sites <- {Sites[s] : s \in IconSites}, OkTtl <- 2, ErrTtl <- 1,
  MaxChanges <- IconChanges, MaxFaults <- 1, pc <- visit, found <- icon

\* Servers that count and answer.
StatKinds == <<"Redirect", "Message">>
Counting == INSTANCE Stats WITH
  Servers <- StatServers, Counted <- StatKinds, Members <- StatMembers,
  QueueMax <- StatQueue, BatchMax <- StatBatch, HourLen <- StatHour, DayLen <- StatDay,
  Hours <- StatHours, Days <- StatDays,
  MaxEvents <- StatEvents, MaxClock <- StatClock, Loads <- StatLoads,
  queue <- channel, todo <- statements, load <- figures

\* Every query of up to QueryLen parameters.
Parameters ==
  ({"at", "hub.topic", "source", "target"} \X {"url", "mailto"})
  \cup ({"hub.mode"} \X {"subscribe", "unsubscribe", "publish"})
  \cup ({"hub.challenge", "hub.verify_token", "v", "verify_token"} \X {"x", "y"})
  \cup {<<"code", "x">>}
Own == <<<<"code", "x">>>>
Query == INSTANCE Queries WITH
  Params <- Parameters, OwnQuery <- Own, MaxLen <- QueryLen

ASSUME PartsAssumption ==
  /\ Chromium!CdpAssumption /\ Shots!ShotAssumption /\ Gate!GateAssumption
  /\ Clone!FontsAssumption /\ Metadata!FontTextAssumption /\ Icons!FaviconAssumption
  /\ Counting!StatsAssumption /\ Query!QueriesAssumption

-----------------------------------------------------------------------------
(* The behaviours *)

\* The variables of components that do not run.
NoCdp ==
  /\ handle = None /\ renders = None /\ job = None /\ guard = None
  /\ queue = None /\ pending = None /\ nextId = None /\ waiters = None
  /\ fired = None /\ running = None /\ up = None /\ todo = None /\ wire = None
  /\ contexts = None /\ loading = None /\ heard = None
NoShot ==
  /\ req = None /\ age = None /\ browser = None /\ disposing = None
  /\ managed = None /\ mutex = None
NoGate ==
  /\ token = None /\ digest = None /\ spec = None /\ gate = None /\ bits = None
  /\ next = None /\ verdict = None /\ resolved = None
NoFonts ==
  /\ tree = None /\ pulls = None /\ panics = None /\ touched = None
  /\ index = None /\ from = None /\ load = None /\ fetcher = None
  /\ want = None /\ status = None
NoText ==
  /\ text = None /\ depth = None /\ block = None /\ font = None /\ axis = None
  /\ found = None
NoIcon ==
  /\ site = None /\ changes = None /\ faults = None /\ row = None /\ visit = None
  /\ left = None /\ icon = None /\ seen = None /\ answer = None
NoStats ==
  /\ clock = None /\ channel = None /\ batch = None /\ statements = None
  /\ done = None /\ table = None /\ figures = None /\ loads = None
  /\ sent = None /\ lost = None

Init ==
  /\ part \in Parts
  /\ IF part \in {"renders", "recycled"} THEN Chromium!Init ELSE NoCdp
  /\ IF part = "shots" THEN Shots!Init ELSE NoShot
  /\ IF part = "gate" THEN Gate!Init ELSE NoGate
  /\ IF part = "fonts" THEN Clone!Init ELSE NoFonts
  /\ IF part = "metadata" THEN Metadata!Init ELSE NoText
  /\ IF part = "icons" THEN Icons!Init ELSE NoIcon
  /\ IF part \in {"workers", "figures"} THEN Counting!Init ELSE NoStats
  /\ IF part = "query" THEN Query!Init ELSE query = None

\* A step of one component.
InCdp(A) ==
  /\ A
  /\ UNCHANGED <<part, shotVars, gateVars, fontVars, textVars, iconVars, statVars, query>>
InShots(A) ==
  /\ part = "shots" /\ A
  /\ UNCHANGED <<part, cdpVars, gateVars, fontVars, textVars, iconVars, statVars, query>>
InGate(A) ==
  /\ part = "gate" /\ A
  /\ UNCHANGED <<part, cdpVars, shotVars, fontVars, textVars, iconVars, statVars, query>>
InFonts(A) ==
  /\ part = "fonts" /\ A
  /\ UNCHANGED <<part, cdpVars, shotVars, gateVars, textVars, iconVars, statVars, query>>
InText(A) ==
  /\ part = "metadata" /\ A
  /\ UNCHANGED <<part, cdpVars, shotVars, gateVars, fontVars, iconVars, statVars, query>>
InIcons(A) ==
  /\ part = "icons" /\ A
  /\ UNCHANGED <<part, cdpVars, shotVars, gateVars, fontVars, textVars, statVars, query>>
InStats(A) ==
  /\ A
  /\ UNCHANGED <<part, cdpVars, shotVars, gateVars, fontVars, textVars, iconVars, query>>
InQuery(A) ==
  /\ part = "query" /\ A
  /\ UNCHANGED <<part, cdpVars, shotVars, gateVars, fontVars, textVars, iconVars, statVars>>

Next ==
  \/ part \in {"renders", "recycled"} /\ InCdp(Chromium!Next)
  \/ InShots(Shots!Next)
  \/ InGate(Gate!Next)
  \/ InFonts(Clone!Next)
  \/ InText(Metadata!Next)
  \/ InIcons(Icons!Next)
  \/ part = "workers" /\ InStats(Counting!Next) /\ UNCHANGED loads
  \/ part = "figures" /\ InStats(Counting!Next) /\ Counting!Happened' <= FigureEvents
  \/ InQuery(Query!Next)

Spec == Init /\ [][Next]_vars

\* The fairness of each component's own fair specification: Chromium works or
\* dies where renders have no timer, and may hang where they have.
Both(A) == part \in {"renders", "recycled"} /\ InCdp(A)
FairSpec ==
  /\ Spec
  /\ WF_vars(Both(Chromium!ActorStep))
  /\ WF_vars(part = "renders" /\ InCdp(Chromium!Execute))
  /\ \A r \in Renders :
       /\ WF_vars(Both(Chromium!RenderStep(r))) /\ WF_vars(Both(Chromium!NavTimeout(r)))
       /\ WF_vars(part = "recycled" /\ InCdp(Chromium!Cancel(r)))
       /\ WF_vars(part = "recycled" /\ InCdp(Chromium!DisposeTimeout(r)))
  /\ \A x \in ShotClients :
       /\ WF_vars(InShots(Shots!Handle(x)))
       /\ SF_vars(InShots(Shots!Permit(x) \/ Shots!Lock(x)))
  /\ \A b \in Shots!Browsers : WF_vars(InShots(Shots!Task(b)))
  /\ WF_vars(InFonts(Clone!Loads))
  /\ WF_vars(InIcons(Icons!Tick))
  /\ \A x \in {ann, bob} :
       /\ WF_vars(InIcons(Icons!Ask(x))) /\ WF_vars(InIcons(Icons!Handle(x)))
  /\ \A s \in StatServers : WF_vars(part = "workers" /\ InStats(Counting!Work(s)))

\* The names are alike within each part.  A permutation that takes one state of
\* a part to another keeps the domains of its functions, so it moves cat only
\* among three who ask for screenshots: elsewhere cat names a family, or nothing.
Symmetry == Permutations({ann, bob, cat})

-----------------------------------------------------------------------------
(* Properties *)

\* An answer of Chromium reaches the call it is for and no other, and no render
\* waits for a load event that has passed (cdp_actor, wait_event).
AnswersReachCalls ==
  part = "renders" => Chromium!TypeOK /\ Chromium!AnswersMatch /\ Chromium!LoadNotMissed

\* Browsers render little more than their share and keep no more contexts than
\* that, none that has some of it left is abandoned, and what is cached is not
\* rendered again by all who waited (chrome_client, shot, ShotContextGuard).
BrowsersBounded ==
  part = "shots" => /\ Shots!TypeOK /\ Shots!RendersBounded /\ Shots!SparesAreSpent
                    /\ Shots!ContextsBounded /\ Shots!NoRedundantRender

\* A managed browser is only replaced when it is closed or has rendered its
\* share: requests that come at once do not each start one (chrome_client).
ReplacedOnlyWhenSpent == [][part = "shots" => Shots!ReplacedOnlyWhenSpent]_vars

\* The level of a token is that of its digest, names are looked up only for who
\* has paid, and a picture has a size (pow_trailing_zero_bits, ShotSpec).
GateHolds ==
  part = "gate" => Gate!LevelExact /\ Gate!LookupIsPaid /\ Gate!ImageInRange

\* The index lists what pulls left alone as it is, and a family by the messages
\* of its METADATA.pb (FontIndex::load, parse_font_metadata).
FontsFound ==
  /\ part = "fonts" => Clone!TypeOK /\ Clone!UntouchedIsListed
  /\ part = "metadata" => Metadata!FindsAll /\ Metadata!OwnName

\* A path that a search returned is served, unless a pull changed its family
\* after the load that listed it began (fonts_search, font_file).
ListedIsServed == [][part = "fonts" => Clone!ListedIsServed]_vars

\* A fetch during which the site did not change stores the first icon the site
\* has, a miss only where it has none (fetch_favicon).
FetchFindsIcon == part = "icons" => Icons!TypeOK /\ Icons!FetchFindsIcon

\* "The first response whose bytes are a real image wins" (docs/icon.html).
RealImageWins == part = "icons" => Icons!RealImageWins

\* Events are counted once or dropped, hours add up to days, workers of several
\* servers never wait in a circle, and the figures of one answer agree though
\* they are read one after the other (record_stat_batch, load_stats).
StatsAddUp ==
  part \in {"workers", "figures"} =>
    /\ Counting!TypeOK /\ Counting!CountedOnce /\ Counting!PeriodsAgree
    /\ Counting!NoLockCycle /\ Counting!SeriesCoversTotal /\ Counting!WindowsNest

\* Targets get all parameters in their order, by trampoline and by alias, and
\* challenges are answered alike in whatever order they come (callback_target,
\* append_query_params, websub_challenge, meta_challenge).
QueriesAgree ==
  part = "query" => /\ Query!TargetGetsAll /\ Query!AliasAgrees
                    /\ Query!ChallengeStands /\ Query!OrderIsFree

\* What still waits in each part, the n-th of its kind.
Waits(n) ==
  LET r == CHOOSE x \in Renders : TRUE
      x == <<ann, bob>>[n]
      \* Names are given in their order, so the first is used and reused.
  IN CASE part = "renders" /\ n = 1 -> Chromium!Begun(r)
       [] part = "renders" /\ n = 2 -> guard[r] # "none" /\ r \in contexts
       [] part = "recycled" -> ~handle /\ running
       [] part = "shots" /\ n = 1 -> ~Shots!At(x, "idle")
       [] part = "shots" /\ n = 2 -> Shots!Spare(1)
       [] part = "fonts" -> index # Clone!Indexed
       [] part = "icons" -> answer[x] = "404" /\ Icons!HasIcon(site)
       [] part = "workers" -> channel[x] # <<>>
       [] OTHER -> FALSE

\* A render ends and its context is disposed of, a browser that was replaced
\* exits, every screenshot is answered, the index of fonts and the answers of
\* /icon catch up with what they show, and events leave their channel.
PagesSettle == \A n \in 1..2 : Waits(n) ~> ~Waits(n)
=============================================================================
