------------------------------- MODULE Router --------------------------------
(* router.py: which platform a piece of work may run on. The state is what the *)
(* ledger holds about the platforms (readings per quota window, holds, project *)
(* holds, rejected models, the free list, the peak override) and the events    *)
(* are what writes it: probes, the endings of runs (finalize), holds lifted    *)
(* by hand or by a login probe, time. pick, diagnose, explore and              *)
(* capacity_recovery are operators on that state.                              *)
(* A percentage is a small number on the scale Full; lines are multiplied by   *)
(* 7, as a progressive line is so many sevenths of the configured one.         *)
EXTENDS Integers, Sequences, FiniteSets, SequencesExt

CONSTANTS Platforms, Projects,
          PConf,      \* each platform's configuration
          Policy,     \* each project's accounts, account mode and own routes
          Routes,     \* [account -> [role -> sequence of platforms]]
          Proof,      \* scorecard verdict of each platform: [status, cost]
          PeakHours,  \* the times in Claude's peak window
          Stale,      \* stale_minutes, and the 15 minutes of burst_status
          Asked,      \* what may be asked of the router
          Probed,     \* the readings a probe may bring: [pct, left]
          HoldTime,   \* backoff_minutes
          LastHour, MaxNews    \* bounds: the clock, and the events

None == "none"
Full == 4
Windows == {"5h", "weekly", "long"}
NoSample == [pct |-> 0, resets |-> 0, sampled |-> -1]
NoHold == [until |-> 0, why |-> None]
NoReport == [windows |-> {}, blocked |-> FALSE, sampled |-> -1]
Manual == LastHour + 1

IsRoutes(table) == \A role \in DOMAIN table : table[role] \in Seq(Platforms)
RouterAssumption ==
  /\ None \notin Platforms
  /\ Stale \in Nat \ {0} /\ {HoldTime, LastHour, MaxNews} \subseteq Nat /\ PeakHours \subseteq 0..LastHour
  /\ \A p \in Platforms :
       LET c == PConf[p] IN
       /\ c.kind \in {"claude", "codex", "other"} /\ c.windows \subseteq Windows
       /\ {c.enabled, c.approval, c.metered, c.paid, c.progressive, c.managed, c.login} \subseteq BOOLEAN
       /\ {c.tier, c.min, c.max, c.soft, c.hard} \subseteq Nat
       /\ Proof[p].status \in {"good", "unproven", "below"} /\ Proof[p].cost \in Nat
  /\ \A j \in Projects :
       LET pol == Policy[j] IN
       /\ pol.accounts \in Seq(DOMAIN Routes) \ {<< >>}
       /\ pol.mode \in {"order", "equal", "priority"} /\ {pol.measured, pol.explore} \subseteq BOOLEAN
       /\ IsRoutes(pol.routing)
  /\ \A a \in DOMAIN Routes : IsRoutes(Routes[a])
  /\ Asked \subseteq [project : Projects, role : STRING, pin : Platforms \cup {None}, size : Nat,
                      tier : Nat, busy : SUBSET Platforms, exclude : SUBSET Platforms]
  /\ Probed \subseteq [pct : Nat, left : Nat]

VARIABLES hour,
          usage,      \* the newest reading of each platform's windows
          hold,       \* the pseudo-window "hold", with hold_reason
          report,     \* codex:quota, the shape and the block Codex reported
          held,       \* auth_hold: until when a project may not use a platform
          rejected,   \* <<platform, model>> the CLI refused
          free,       \* free models listed and not rejected
          credit,     \* failures in a row for want of credit
          human,      \* when each login was last used by its owner
          peakOff,    \* peak_override_until
          asked,      \* the requests there are, the same throughout
          news        \* what remains of MaxNews

routerVars == <<hour, usage, hold, report, held, rejected, free, credit, human, peakOff, asked, news>>

Groups == {PConf[p].group : p \in Platforms}
quota_peers(p) == {q \in Platforms : PConf[q].group = PConf[p].group
                                      /\ PConf[q].account = PConf[p].account}

RouterInit ==
  /\ hour = 0
  /\ usage = [p \in Platforms |-> [w \in Windows |-> NoSample]]
  /\ hold = [p \in Platforms |-> NoHold]
  /\ report = [p \in Platforms |-> NoReport]
  /\ held = [x \in Projects \X Platforms |-> 0]
  /\ rejected = {}
  /\ free = [p \in Platforms |-> 1]
  /\ credit = [p \in Platforms |-> 0]
  /\ human = [g \in Groups |-> -1]
  /\ peakOff = 0
  /\ asked \in SUBSET Asked
  /\ news = MaxNews

------------------------------------------------------------------------------
(* Readings and lines *)

route_role(role) == IF role = "design" THEN "plan" ELSE role
peak_active == hour \in PeakHours /\ ~(peakOff = Manual \/ peakOff > hour)
PeakUntil == CHOOSE t \in hour..(LastHour + 1) :
               t \notin PeakHours /\ \A s \in hour..(t - 1) : s \in PeakHours

IsFresh(u) == u.sampled >= 0 /\ hour - u.sampled <= Stale

is_long == {"long"}
is_supported_codex_shape(ws) == ws = {"5h", "weekly"} \/ ws = is_long
target_windows(p) == IF PConf[p].kind = "codex" /\ report[p].windows = is_long
                     THEN is_long ELSE PConf[p].windows

(* the last lead-time before a reset raises Claude's lines *)
burst_status(p) ==
  LET five == usage[p]["5h"]
      week == usage[p]["weekly"]
      Leads(u, lead) == u.resets > hour /\ u.resets - hour < lead
  IN  IF ~(IsFresh(five) /\ IsFresh(week) /\ five.resets > 0 /\ week.resets > 0) THEN {}
      ELSE IF Leads(week, 3) THEN {"5h", "weekly"} ELSE IF Leads(five, 2) THEN {"5h"} ELSE {}
(* never while the owner uses the login *)
InUse(g) == human[g] >= 0 /\ hour - human[g] < Stale
platform_burst(p) ==
  IF PConf[p].kind # "claude" \/ InUse(PConf[p].group) THEN {}
  ELSE UNION {burst_status(q) : q \in {q \in Platforms : PConf[q].kind = "claude"
                                                          /\ PConf[q].group = PConf[p].group}}

Clamp(x, lo, hi) == IF x < lo THEN lo ELSE IF x > hi THEN hi ELSE x
effective_lines(p, w) ==
  LET u == usage[p][w]
      day == IF u.resets > 0 THEN Clamp(7 - (u.resets - hour), 1, 7) ELSE 1
      share == IF w = "weekly" /\ PConf[p].progressive THEN day ELSE 7
  IN  IF w \in platform_burst(p) THEN [soft |-> 7 * (Full - 1), hard |-> 7 * Full]
      ELSE [soft |-> PConf[p].soft * share, hard |-> PConf[p].hard * share]

AgainstLines(x, lines) == IF x >= lines.hard THEN "hard" ELSE IF x >= lines.soft THEN "soft" ELSE "ok"
WindowState(p, w) ==
  LET u == usage[p][w] IN
  IF u = NoSample \/ (u.resets > 0 /\ u.resets <= hour) \/ ~IsFresh(u) THEN "stale"
  ELSE AgainstLines(7 * u.pct, effective_lines(p, w))

Worst(states) == IF "stale" \in states THEN "stale" ELSE IF "hard" \in states THEN "hard"
                 ELSE IF "soft" \in states THEN "soft" ELSE "ok"
_quota_usage_state(p) ==
  LET h == hold[p]
  IN  IF h.until > hour
      THEN CASE h.why = "auth" -> "blocked" [] h.why = "no_credit" -> "no_credit" [] OTHER -> "soft"
      ELSE IF ~PConf[p].metered
      THEN IF \E w \in Windows : usage[p][w].pct >= Full /\ usage[p][w].resets > hour
           THEN "hard" ELSE "ok"
      ELSE IF report[p].blocked /\ hour - report[p].sampled < Stale THEN "hard"
      ELSE IF report[p] # NoReport /\ ~is_supported_codex_shape(report[p].windows) THEN "stale"
      ELSE Worst({WindowState(p, w) : w \in target_windows(p)})

(* model_availability.blocked: a role of "any" is diagnosis without a role *)
Model(p, role) == IF role \in {"sort", "plan", "design"} THEN PConf[p].sort_model ELSE PConf[p].build_model
model_blocked(p, role) == \E m \in {x[2] : x \in {y \in rejected : y[1] = p}} :
                            role = "any" \/ m = Model(p, role)

Refused(state, bad) == IF bad /\ state # "hard" THEN "soft" ELSE state
usage_state(p, role) ==
  IF PConf[p].managed /\ free[p] = 0 THEN "hard"
  ELSE Refused(_quota_usage_state(p), model_blocked(p, role))

------------------------------------------------------------------------------
(* Candidates *)

Enabled(p) == PConf[p].enabled
Given(table, role) == IF role \in DOMAIN table THEN table[role] ELSE << >>
Route(table, role) == IF Given(table, role) # << >> THEN Given(table, role) ELSE Given(table, "build")
Only(order, S) ==
  FlattenSeq([i \in 1..Len(order) |-> IF order[i] \in S THEN <<order[i]>> ELSE << >>])
First(order, S) == Only(order, S) \o Only(order, Platforms \ S)
BurstFirst(order, role) ==
  IF role # "build" THEN order ELSE First(order, {p \in Platforms : platform_burst(p) # {}})

candidates(role, pin, account) ==
  Only(IF pin # None THEN <<pin>> ELSE BurstFirst(Route(Routes[account], role), role),
       {p \in Platforms : Enabled(p) /\ PConf[p].account = account})

Longest(each) == CHOOSE n \in {Len(each[i]) : i \in DOMAIN each} :
                   \A i \in DOMAIN each : Len(each[i]) <= n
Dealt(each) ==
  FlattenSeq([n \in 1..Longest(each) |->
                FlattenSeq([i \in 1..Len(each) |->
                              IF n <= Len(each[i]) THEN <<each[i][n]>> ELSE << >>])])
FirstHit(each) ==
  LET hits == {i \in DOMAIN each : each[i] # << >>}
  IN  IF hits = {} THEN << >> ELSE each[CHOOSE i \in hits : \A j \in hits : i <= j]
candidates_for_accounts(role, accts, pin) ==
  LET each == [i \in 1..Len(accts) |-> candidates(role, pin, accts[i])]
  IN  IF pin = None THEN Dealt(each) ELSE FirstHit(each)

candidates_for_priority(role, pol, pin) ==
  LET table == pol.routing
      own == CASE role = "fix" -> Given(table, "build")
               [] role = "review" -> Route(table, "review")
               [] OTHER -> Given(table, role)
  IN  Only(IF pin # None THEN <<pin>> ELSE BurstFirst(own, role),
           {p \in Platforms : Enabled(p) /\ PConf[p].account \in ToSet(pol.accounts)})

(* every account's candidates, in the order the project's mode gives them *)
CandidatesOf(r, role) ==
  LET pol == Policy[r.project] IN
  CASE pol.mode = "priority" -> candidates_for_priority(role, pol, r.pin)
    [] pol.mode = "equal" -> candidates_for_accounts(role, pol.accounts, r.pin)
    [] pol.mode = "order" -> FlattenSeq([i \in 1..Len(pol.accounts) |->
                                           candidates(role, r.pin, pol.accounts[i])])

StatusRank == [good |-> 0, unproven |-> 1, below |-> 2]
Before(p, q) ==
  LET class(x) == IF PConf[x].paid THEN 1 ELSE 0
      cost(x) == IF Proof[x].status = "good" THEN Proof[x].cost ELSE 99
  IN  \/ class(p) < class(q)
      \/ class(p) = class(q) /\ StatusRank[Proof[p].status] < StatusRank[Proof[q].status]
      \/ class(p) = class(q) /\ Proof[p].status = Proof[q].status /\ cost(p) < cost(q)
(* a stable sort: of two that tie, the earlier in the route stays first *)
Place(order, i) == Cardinality({j \in DOMAIN order : Before(order[j], order[i])
                                   \/ (~Before(order[i], order[j]) /\ j <= i)})
Sorted(order) == [n \in 1..Len(order) |->
                    order[CHOOSE i \in DOMAIN order : Place(order, i) = n]]
measured_order(order, role) == BurstFirst(Sorted(order), role)

------------------------------------------------------------------------------
(* Choosing *)

slots(ps) == {PConf[p].slot : p \in ps}
Rated(role) == role \in {"build", "fix", "review"}
FitsSize(r, role, p, extra) ==
  LET c == PConf[p]
      rank == IF r.size = 0 THEN 2 ELSE r.size
  IN  CASE role = "sort" -> r.size = 0 \/ rank <= c.max \/ p = r.pin
        [] role \in {"plan", "review"} -> TRUE
        [] OTHER -> p = r.pin \/ (rank <= c.max + extra /\ rank >= c.min)

(* the gates of pick, each of which passes over a candidate *)
NotBusy(r, p) == p \notin r.busy /\ PConf[p].slot \notin slots(r.exclude)
Approved(r, p) == ~PConf[p].approval \/ p = r.pin
(* Mutant: a platform held back is a candidate.                               *)
NotHeld_Ever(r, p) == TRUE

NotHeld(r, p) == held[<<r.project, p>>] <= hour
Strong(r, role, p) == r.pin # None \/ ~Rated(role) \/ PConf[p].tier >= r.tier
OffPeak(r, p) == ~(peak_active /\ PConf[p].kind = "claude" /\ r.pin = None)

Passes(r, role, p, explore) ==
  /\ NotBusy(r, p) /\ Enabled(p) /\ Approved(r, p) /\ NotHeld(r, p)
  /\ Strong(r, role, p)
  /\ FitsSize(r, role, p, IF explore /\ ~PConf[p].metered THEN 1 ELSE 0)
  /\ OffPeak(r, p)
  /\ usage_state(p, role) = "ok"

FirstOf(fit) == IF fit = << >> THEN None ELSE fit[1]
pick(r, role, order) ==
  FirstOf(Only(order, {p \in ToSet(order) : Passes(r, role, p, FALSE)}))

Ordered(r, role, order) == IF Policy[r.project].measured /\ r.pin = None
                           THEN measured_order(order, role) ELSE order
pick_for_project(r) ==
  LET role == route_role(r.role) IN pick(r, role, Ordered(r, role, CandidatesOf(r, role)))

preferred_for_project(r, p) ==
  LET role == route_role(r.role) IN
  IF p \in ToSet(CandidatesOf(r, role)) THEN pick(r, role, <<p>>) ELSE None

(* the cheapest unproven platform that would do, for exploration *)
Cheapest(fit) ==
  LET Dearer(p, q) == \/ (PConf[p].paid /\ ~PConf[q].paid)
                      \/ (PConf[p].paid = PConf[q].paid /\ Proof[p].cost > Proof[q].cost)
  IN  IF fit = {} THEN None ELSE CHOOSE p \in fit : \A q \in fit : ~Dearer(p, q)
explore_for_project(r) ==
  LET role == route_role(r.role) IN
  IF r.pin # None \/ ~Policy[r.project].explore THEN None
  ELSE Cheapest({p \in ToSet(CandidatesOf(r, role)) :
                   Proof[p].status = "unproven" /\ Passes(r, role, p, TRUE)})

(* every blocker of every platform, none of them short-circuited *)
diagnose(r) ==
  LET pol == Policy[r.project]
      route == ToSet(CandidatesOf([r EXCEPT !.pin = None], route_role(r.role)))
      excluded == slots(r.exclude)
      Is(code, when) == IF when THEN {code} ELSE {}
      Of(p, c, isPin, state) ==
        Is("disabled", ~c.enabled)
        \cup (IF c.account \notin ToSet(pol.accounts) THEN {"account"}
              ELSE IF r.pin # None /\ ~isPin THEN {"pin"}
              ELSE Is("route", p \notin route /\ ~isPin))
        \cup Is("excluded", c.slot \in excluded)
        \cup Is("slots_busy", p \in r.busy)
        \cup Is("tier", ~isPin /\ Rated(r.role) /\ c.tier < r.tier)
        \cup Is("approval", ~isPin /\ c.approval)
        \cup Is("size", ~FitsSize(r, r.role, p, 0))
        \cup Is("peak", ~isPin /\ peak_active /\ c.kind = "claude")
        \cup (CASE state = "no_credit" -> {"no_credit"}
                [] \/ model_blocked(p, r.role)
                   \/ held[<<r.project, p>>] > hour
                   \/ state = "blocked" -> {"hold"}
                [] state \in {"soft", "hard"} -> {IF hold[p].until > hour THEN "hold" ELSE "quota"}
                [] state = "stale" -> {"unknown"}
                [] OTHER -> {})
  IN  [p \in Platforms |-> Of(p, PConf[p], p = r.pin, usage_state(p, r.role))]

------------------------------------------------------------------------------
(* When capacity comes back *)

LatestOf(ts) == CHOOSE t \in ts : \A s \in ts : s <= t
EarliestOf(ts) == CHOOSE t \in ts : \A s \in ts : s >= t

Lasting(r, p) ==
  LET role == route_role(r.role)
      c == PConf[p]
      rank == IF r.size = 0 THEN 2 ELSE r.size
  IN  /\ Approved(r, p)
      /\ c.slot \notin slots(r.exclude)
      /\ r.pin = None /\ role \in {"review", "fix"} => c.tier >= r.tier
      /\ r.pin = None /\ role = "fix" => rank >= c.min /\ rank <= c.max
      /\ ~model_blocked(p, role)

(* when the windows over their line have reset; 0: not known *)
Over(p, w) == /\ usage[p][w] # NoSample
              /\ 7 * usage[p][w].pct >= IF PConf[p].metered THEN effective_lines(p, w).soft
                                        ELSE 7 * Full
ResetsOf(p, ws) == {usage[p][w].resets : w \in {w \in ws : Over(p, w)}}
AfterReset(p, over, peak) ==
  LET times == peak \cup {t \in over : t > hour}
      exhausted == \E w \in report[p].windows : usage[p][w].pct >= Full
  IN  IF \/ times = {}
         \/ IF report[p].blocked
            THEN hour - report[p].sampled >= Stale \/ ~exhausted \/ \E t \in over : t <= hour
            ELSE LET state == usage_state(p, "any")
                 IN  state = "stale" \/ (state # "ok" /\ \E t \in over : t <= hour)
      THEN 0 ELSE LatestOf(times)

RecoveryOf(r, p) ==
  LET peak == IF OffPeak(r, p) THEN {} ELSE {PeakUntil}
      until == LatestOf({hold[p].until, held[<<r.project, p>>]})
  IN  IF p \in r.busy THEN 0
      ELSE IF until > hour THEN LatestOf(peak \cup {until})
      ELSE AfterReset(p, ResetsOf(p, IF report[p].blocked THEN report[p].windows ELSE Windows), peak)

Recovered(times) == IF times \ {0} = {} THEN 0 ELSE EarliestOf(times \ {0})
Capacity(eligible, times) ==
  [eligible |-> eligible, recovery |-> Recovered(times),
   retry |-> IF 0 \in times THEN 0 ELSE Recovered(times)]
CapacityAmong(r, eligible) == Capacity(eligible, {RecoveryOf(r, p) : p \in eligible})
capacity_recovery(r) ==
  CapacityAmong(r, {p \in ToSet(CandidatesOf(r, route_role(r.role))) : Lasting(r, p)})

stale_candidates(r) ==
  LET role == route_role(r.role) IN
  {p \in ToSet(CandidatesOf(r, role)) :
     /\ Approved(r, p) /\ NotBusy(r, p) /\ NotHeld(r, p) /\ ~model_blocked(p, role)
     /\ r.pin = None /\ role = "review" => PConf[p].tier >= r.tier
     /\ usage_state(p, "any") = "stale"}

------------------------------------------------------------------------------
(* What writes the state *)

News == news > 0 /\ news' = news - 1
Reading(x) == [pct |-> x.pct, resets |-> IF x.left = 0 THEN 0 ELSE hour + x.left, sampled |-> hour]
Write(u, ps, ws, f) ==
  [p \in Platforms |-> IF p \notin ps THEN u[p]
                       ELSE [w \in Windows |-> IF w \in ws[p] THEN f[w] ELSE u[p][w]]]
OwnWindows == [p \in Platforms |-> PConf[p].windows]

(* note_human_rise: a 5h reading that rose with no run of Mahler's alive is the *)
(* owner's own use                                                              *)
UsedElsewhere(p, ps, ws, f, alone) ==
  human' = IF alone /\ "5h" \in ws
              /\ \E q \in ps : usage[q]["5h"] # NoSample /\ f["5h"].pct > usage[q]["5h"].pct
           THEN [human EXCEPT ![PConf[p].group] = hour] ELSE human

(* a probe of one login feeds every platform on it                              *)
record_claude_usage(p) ==
  /\ News /\ PConf[p].metered /\ PConf[p].kind # "codex"
  /\ \E f \in [PConf[p].windows -> Probed], alone \in BOOLEAN :
       /\ usage' = Write(usage, quota_peers(p), [q \in Platforms |-> PConf[p].windows],
                         [w \in PConf[p].windows |-> Reading(f[w])])
       /\ UsedElsewhere(p, quota_peers(p), PConf[p].windows, f, alone)
  /\ UNCHANGED <<hour, hold, report, held, rejected, free, credit, peakOff>>

refresh_codex(p) ==
  /\ News /\ PConf[p].metered /\ PConf[p].kind = "codex"
  /\ \E ws \in {{"5h", "weekly"}, {"long"}, {"5h"}}, b, alone \in BOOLEAN, x \in Probed :
       LET peers == {q \in quota_peers(p) : PConf[q].metered} IN
       /\ report' = [q \in Platforms |-> IF q \in peers
                       THEN [windows |-> ws, blocked |-> b, sampled |-> hour] ELSE report[q]]
       /\ usage' = Write(usage, peers, [q \in Platforms |-> ws], [w \in ws |-> Reading(x)])
       /\ UsedElsewhere(p, {p}, ws, [w \in ws |-> x], alone)
  /\ UNCHANGED <<hour, hold, held, rejected, free, credit, peakOff>>

(* the endings of a run that finalize turns into state of its platform *)
Penalty(p, until) == Write(usage, quota_peers(p), OwnWindows,
                           [w \in Windows |-> [pct |-> Full, resets |-> until, sampled |-> hour]])

EndsOverQuota(p) ==
  /\ News
  /\ usage' = Penalty(p, hour + HoldTime)
  /\ UNCHANGED <<hour, hold, report, held, rejected, free, credit, human, peakOff>>

CreditWaits == <<1, 2, 4>>
EndsWithoutCredit(p) ==
  LET until == hour + CreditWaits[Clamp(credit[p] + 1, 1, Len(CreditWaits))] IN
  /\ News /\ ~PConf[p].managed
  /\ hold' = [hold EXCEPT ![p] = [until |-> until, why |-> "no_credit"]]
  /\ usage' = Penalty(p, until)
  /\ credit' = [credit EXCEPT ![p] = @ + 1]
  /\ UNCHANGED <<hour, report, held, rejected, free, human, peakOff>>

_model_billed(p) ==
  /\ News /\ PConf[p].managed /\ free[p] > 0
  /\ free' = [free EXCEPT ![p] = @ - 1]
  /\ hold' = IF free[p] > 1 THEN hold
             ELSE [hold EXCEPT ![p] = [until |-> hour + HoldTime, why |-> "no_free_models"]]
  /\ UNCHANGED <<hour, usage, report, held, rejected, credit, human, peakOff>>

(* cline_free.refresh: a changed list forgets the verdicts of what left it *)
FreeListRead(p) ==
  /\ News /\ PConf[p].managed
  /\ \E n \in 0..2 : n # free[p] /\ free' = [free EXCEPT ![p] = n]
  /\ UNCHANGED <<hour, usage, hold, report, held, rejected, credit, human, peakOff>>

_hold_platform(p) ==
  /\ News
  /\ hold' = [hold EXCEPT ![p] = [until |-> hour + HoldTime, why |-> "silent"]]
  /\ UNCHANGED <<hour, usage, report, held, rejected, free, credit, human, peakOff>>

_hold_auth_denied(p, j) ==
  /\ News
  /\ IF PConf[p].login
     THEN hold' = [hold EXCEPT ![p] = [until |-> Manual, why |-> "auth"]] /\ UNCHANGED held
     ELSE held' = [held EXCEPT ![<<j, p>>] = hour + HoldTime] /\ UNCHANGED hold
  /\ UNCHANGED <<hour, usage, report, rejected, free, credit, human, peakOff>>

_hold_model_unavailable(p, role) ==
  /\ News
  /\ rejected' = rejected \cup {<<p, Model(p, role)>>}
  /\ UNCHANGED <<hour, usage, hold, report, held, free, credit, human, peakOff>>

_record_credit_recovery(p) ==
  /\ credit[p] > 0
  /\ hold' = [hold EXCEPT ![p] = NoHold]
  /\ credit' = [credit EXCEPT ![p] = 0]
  /\ UNCHANGED <<hour, usage, report, held, rejected, free, human, peakOff, news>>

(* holds.clear: the hold, and the penalty rows that came with it *)
clear(p) ==
  LET Synthetic(w) == w \in {"5h", "weekly"} /\ usage[p][w].pct >= Full
                      /\ (~PConf[p].metered \/ usage[p][w].resets = hold[p].until)
  IN  /\ usage' = [usage EXCEPT ![p] = [w \in Windows |->
                      IF hold[p].until > 0 /\ Synthetic(w) THEN NoSample ELSE usage[p][w]]]
      /\ hold' = [hold EXCEPT ![p] = NoHold]
      /\ credit' = [credit EXCEPT ![p] = 0]
Unhold(p) ==
  /\ News /\ hold[p] # NoHold
  /\ clear(p)
  /\ UNCHANGED <<hour, report, held, rejected, free, human, peakOff>>
refresh_cline_holds(p) ==
  /\ PConf[p].login /\ hold[p].why = "auth"
  /\ clear(p)
  /\ UNCHANGED <<hour, report, held, rejected, free, human, peakOff, news>>

SetPeak ==
  /\ News
  /\ \E t \in {0, hour + 1, Manual} : t # peakOff /\ peakOff' = t
  /\ UNCHANGED <<hour, usage, hold, report, held, rejected, free, credit, human>>
record_discussion_usage(g) ==
  /\ News
  /\ human' = [human EXCEPT ![g] = hour]
  /\ UNCHANGED <<hour, usage, hold, report, held, rejected, free, credit, peakOff>>

Elapse ==
  /\ hour < LastHour /\ hour' = hour + 1
  /\ UNCHANGED <<usage, hold, report, held, rejected, free, credit, human, peakOff, news>>

RouterNext ==
  /\ UNCHANGED asked
  /\ \/ Elapse
     \/ SetPeak
     \/ \E g \in Groups : record_discussion_usage(g)
     \/ \E p \in Platforms :
          \/ record_claude_usage(p)
          \/ refresh_codex(p)
          \/ EndsOverQuota(p)
          \/ EndsWithoutCredit(p)
          \/ _model_billed(p)
          \/ FreeListRead(p)
          \/ _hold_platform(p)
          \/ \E j \in Projects : _hold_auth_denied(p, j)
          \/ \E role \in {"sort", "build"} : _hold_model_unavailable(p, role)
          \/ _record_credit_recovery(p)
          \/ Unhold(p)
          \/ refresh_cline_holds(p)

RouterSpec == RouterInit /\ [][RouterNext]_routerVars

------------------------------------------------------------------------------
(* Two readings of the same gates agree. pick stops at the first candidate that *)
(* passes; diagnose, which the console and the capacity history show, lists     *)
(* every blocker of every platform. Whatever pick returns has no blocker, it    *)
(* returns nothing only when every platform has one, and neither exploration    *)
(* nor a preference goes round the gates (exploration may exceed a size). A     *)
(* platform worth re-probing has no blocker but its unknown reading (or the     *)
(* peak window, which stale_candidates does not ask about).                     *)
Mirrors(why, chosen, explored, stale) ==
  /\ IF chosen = None THEN \A p \in Platforms : why[p] # {} ELSE why[chosen] = {}
  /\ explored = None \/ why[explored] \subseteq {"size"}
  /\ \A p \in stale : why[p] \ {"peak"} = {"unknown"}
PickMirrorsDiagnose ==
  \A r \in {r \in asked : r.role # "design"} :
    /\ Mirrors(diagnose(r), pick_for_project(r), explore_for_project(r),
               IF r.role = "review" THEN stale_candidates(r) ELSE {})
    /\ r.role = "review" /\ preferred_for_project(r, "claude") # None
         => diagnose(r)["claude"] = {}

(* Waiting for capacity never hides capacity: when capacity_recovery names a    *)
(* time to retry at, on which a review, fix or design pass waits without asking *)
(* pick, pick would have found nothing. A reading left over from windows the    *)
(* platform no longer reports is excepted: its reset counts as a recovery.      *)
NothingLeft(p) == PConf[p].metered =>
                    {w \in Windows : usage[p][w] # NoSample} \subseteq target_windows(p)
WaitIsSound(r, c) == c.retry # 0 /\ (\A p \in c.eligible : NothingLeft(p)) => pick_for_project(r) = None
RecoveryNeverHidesWork ==
  \A r \in {r \in asked : r.role \in {"review", "fix", "design"}} :
    WaitIsSound(r, capacity_recovery(r))

(* What is chosen, what blockers are shown and what is worth waiting for agree. *)
RoutingAgrees == PickMirrorsDiagnose /\ RecoveryNeverHidesWork
=============================================================================
