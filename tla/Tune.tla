-------------------------------- MODULE Tune --------------------------------
(***************************************************************************)
(* One kernel from its kernel.toml to the screen: the spec is parsed       *)
(* (Space), its configurations are enumerated under its constraints        *)
(* (Constraints), the gate judges them, those to be measured get their     *)
(* launch, the search orders them, each is timed and summarized (Stats),   *)
(* and the result is ranked in the terminal UI (launchbound-tui) and       *)
(* correlated with the analytical model (Estimates).                       *)
(*                                                                         *)
(* The insides of the gate, of a launch and of the run directory are in    *)
(* Gate, Sweep and RunDir: here the gate gives any verdict and a candidate *)
(* takes any times.  `space' stops after the enumeration, `tune' gates,    *)
(* `metal' does not.                                                       *)
(***************************************************************************)
EXTENDS Estimates, Ranking

CONSTANTS
  Listed,     \* specs that are enumerated
  Tuned,      \* specs that are enumerated and tuned
  Samples,    \* by number of repeats, the sequences of times there may be
  Room,       \* lines of the overview left for the field
  MaxScroll   \* bound on scrolling

ASSUME TuneAssumption ==
  /\ \A s \in Listed \cup Tuned : s \in Specs
  /\ \A s \in Tuned : s.repeats \in DOMAIN Samples
  /\ \A n \in DOMAIN Samples : \A times \in Samples[n] :
       n \in Nat /\ times \in [1..n -> Timings]
  /\ Room \in Nat /\ MaxScroll \in Nat

VARIABLES
  phase,
  command,   \* space, tune or metal
  spec,      \* what kernel.toml holds
  indices,   \* the odometer
  space,     \* the configurations kept so far, by their indices
  verdict,   \* of each of them
  cands,     \* the candidates of the plan
  order,     \* the order in which they are measured
  at,        \* the position the shuffle is at, or the next to measure
  rows,      \* the measurements
  view, scroll,
  costs,     \* what the model estimates of each of the space
  rho        \* what model --results printed

vars == <<phase, command, spec, indices, space, verdict, cands, order, at,
          rows, view, scroll, costs, rho>>

Init ==
  /\ phase = "load"
  /\ \/ command = "space" /\ spec \in Listed
     \/ command \in {"tune", "metal"} /\ spec \in Tuned
  /\ indices = <<>> /\ space = <<>> /\ verdict = <<>> /\ cands = <<>>
  /\ order = <<>> /\ at = 0 /\ rows = <<>>
  /\ view = "overview" /\ scroll = 0
  /\ costs = <<>> /\ rho = NoCorrelation

-----------------------------------------------------------------------------
(* The space.                                                              *)

Load ==
  /\ phase = "load"
  /\ IF Parses(spec) THEN phase' = "enumerate" /\ indices' = First(spec)
                     ELSE phase' = "refused" /\ UNCHANGED indices
  /\ UNCHANGED <<command, spec, space, verdict, cands, order, at, rows, view,
                 scroll, costs, rho>>

(* One turn of the loop of enumerate.                                      *)
Visit ==
  /\ phase = "enumerate"
  /\ IF ~AllCompute(spec, indices)
     THEN phase' = "uncomputable" /\ UNCHANGED <<space, indices>>
     ELSE /\ space' = IF Kept(spec, indices) THEN Append(space, indices)
                                             ELSE space
          /\ IF IsLast(spec, indices)
             THEN /\ phase' = IF command = "space" THEN "listed" ELSE "gate"
                  /\ UNCHANGED indices
             ELSE indices' = Turned(spec, indices) /\ UNCHANGED phase
  /\ UNCHANGED <<command, spec, verdict, cands, order, at, rows, view, scroll,
                 costs, rho>>

-----------------------------------------------------------------------------
(* The plan.                                                               *)

Identity(n) == [k \in 1..n |-> k]

(* stage takes the admitted configurations and, under --allow-unsafe, the  *)
(* refused ones; metal takes all.  One that has no launch ends the command.*)
Plan(allow) ==
  /\ phase = "gate"
  /\ verdict' \in [DOMAIN space -> IF command = "metal" THEN {"ungated"}
                                   ELSE {"clean", "disqualified"}]
  /\ LET taken == {k \in DOMAIN space :
                     verdict'[k] # "disqualified" \/ allow}
         n == Cardinality(taken)
         id == Ascending(taken)
     IN  IF \E k \in taken : ~Resolves(spec, space[k])
         THEN phase' = "failed" /\ UNCHANGED <<cands, order, at>>
         ELSE /\ cands' = [p \in 1..n |->
                             Candidate(spec, id[p], space[id[p]])]
              /\ order' = Identity(n)
              /\ \/ phase' = "measure" /\ at' = 1
                 \/ /\ command = "tune"
                    /\ phase' = "shuffle" /\ at' = n
  /\ UNCHANGED <<command, spec, indices, space, rows, view, scroll, costs,
                 rho>>

(* Mutant: one side of the swap is written.                                *)
HalfSwapped(f, i, j) == [f EXCEPT ![i] = f[j]]

Swapped(f, i, j) == [f EXCEPT ![i] = f[j], ![j] = f[i]]

(* Strategy::order: Fisher-Yates from the end.  The generator may draw any *)
(* index.                                                                  *)
Shuffle ==
  /\ phase = "shuffle"
  /\ IF at > 1 THEN /\ \E j \in 1..at : order' = Swapped(order, at, j)
                    /\ at' = at - 1
                    /\ UNCHANGED phase
               ELSE phase' = "measure" /\ at' = 1 /\ UNCHANGED order
  /\ UNCHANGED <<command, spec, indices, space, verdict, cands, rows, view,
                 scroll, costs, rho>>

-----------------------------------------------------------------------------
(* The measurements: the loop of run_plan and of run_metal.                *)

Measure ==
  /\ phase = "measure" /\ at <= Len(order)
  /\ \/ \E times \in Samples[spec.repeats] :
          rows' = Append(rows, [id |-> cands[order[at]].id, status |-> "ok",
                                times |-> times, summary |-> Summarize(times)])
     \/ rows' = Append(rows, [id |-> cands[order[at]].id, status |-> "error",
                              times |-> <<>>, summary |-> NoSummary])
  /\ at' = at + 1
  /\ UNCHANGED <<phase, command, spec, indices, space, verdict, cands, order,
                 view, scroll, costs, rho>>

(* Every candidate is measured, or the budget is spent.                    *)
Measured ==
  /\ phase = "measure"
  /\ phase' = "measured"
  /\ UNCHANGED <<command, spec, indices, space, verdict, cands, order, at,
                 rows, view, scroll, costs, rho>>

-----------------------------------------------------------------------------
(* The report and the screen.                                              *)

Summarized == {r \in Timed(ToSet(rows)) : r.summary # NoSummary}
RefusedRows == {r \in Summarized : verdict[r.id] = "disqualified"}

(* The id of the chosen row, in a set.                                     *)
ChosenIds ==
  LET eligible == Summarized \ RefusedRows
  IN  IF eligible = {} THEN {} ELSE {Fastest(eligible).id}

RejectedFaster ==
  {r \in RefusedRows :
     \E c \in Summarized : c.id \in ChosenIds /\ r.summary.hi < c.summary.lo}

(* Mutant: the ranking goes by the lower end of the interval.              *)
ByInterval(S) ==
  Sorted(S, {p \in S \X S :
               \/ p[1].summary.lo < p[2].summary.lo
               \/ p[1].summary.lo = p[2].summary.lo /\ p[1].id < p[2].id})

(* measured_fastest_first: a stable sort of the candidates by median.      *)
FastestFirst(S) ==
  Sorted(S, {p \in S \X S :
               \/ p[1].summary.med < p[2].summary.med
               \/ p[1].summary.med = p[2].summary.med /\ p[1].id < p[2].id})

ById(S) == Sorted(S, {p \in S \X S : p[1].id < p[2].id})

Marker(r) ==
  IF r.id \in ChosenIds THEN "chosen"
  ELSE IF verdict[r.id] = "disqualified" THEN "refused" ELSE "admitted"

Lines(sorted) ==
  [k \in DOMAIN sorted |-> [id |-> sorted[k].id, marker |-> Marker(sorted[k])]]

From(s, n) == SubSeq(s, n + 1, Len(s))

(* The overview draws the head of the ranking, if there are two to compare *)
(* and room for them.                                                      *)
OverviewLines ==
  IF Cardinality(Summarized) > 1 /\ Room > 1
  THEN Lines(SubSeq(FastestFirst(Summarized), 1,
                    Least({Room, Cardinality(Summarized)})))
  ELSE <<>>

RankingLines == Lines(FastestFirst(Summarized))

(* Those that measured faster before all that were refused.                *)
RejectionLines ==
  Lines(FastestFirst(RejectedFaster))
    \o SelectSeq([k \in DOMAIN space |-> [id |-> k, marker |-> verdict[k]]],
                 LAMBDA l : l.marker = "disqualified")

ProgressLines ==
  [k \in DOMAIN rows |-> [id |-> ById(ToSet(rows))[k].id,
                          marker |-> ById(ToSet(rows))[k].status]]

(* What is drawn of the candidates, a line each.                           *)
Screen ==
  CASE view = "overview" -> OverviewLines
    [] view = "ranking" -> From(RankingLines, scroll)
    [] view = "rejections" -> From(RejectionLines, scroll)
    [] view = "progress" -> From(ProgressLines, scroll)

Views == {"overview", "ranking", "rejections", "progress"}

(* results.json holds every row: serde_json writes a time that is not      *)
(* finite as null, where Results::load asks for a number.  The summary of  *)
(* finite times is finite.                                                 *)
Readable == \A r \in ToSet(rows) : \A k \in DOMAIN r.times : r.times[k] < Inf

(* Whoever reads it then ends with the error: the report, the UI, the      *)
(* model and a rerun of the sweep alike.                                   *)
ReadFails ==
  /\ phase = "measured" /\ ~Readable
  /\ phase' = "unreadable"
  /\ UNCHANGED <<command, spec, indices, space, verdict, cands, order, at,
                 rows, view, scroll, costs, rho>>

(* main of the UI reads the run directory once.                            *)
Open ==
  /\ phase = "measured" /\ Readable
  /\ phase' = "browse" /\ view' = "overview" /\ scroll' = 0
  /\ UNCHANGED <<command, spec, indices, space, verdict, cands, order, at,
                 rows, costs, rho>>

(* Keys 1 to 4; Tab is the next of them.                                   *)
Select(v) ==
  /\ phase = "browse"
  /\ view' = v /\ scroll' = 0
  /\ UNCHANGED <<phase, command, spec, indices, space, verdict, cands, order,
                 at, rows, costs, rho>>

(* Nothing stops at the last line.                                         *)
ScrollDown ==
  /\ phase = "browse" /\ scroll < MaxScroll
  /\ scroll' = scroll + 1
  /\ UNCHANGED <<phase, command, spec, indices, space, verdict, cands, order,
                 at, rows, view, costs, rho>>

(* Mutant: the subtraction does not saturate.                              *)
ScrollUpBelow ==
  /\ phase = "browse"
  /\ scroll' = scroll - 1
  /\ UNCHANGED <<phase, command, spec, indices, space, verdict, cands, order,
                 at, rows, view, costs, rho>>

ScrollUp ==
  /\ phase = "browse"
  /\ scroll' = IF scroll = 0 THEN 0 ELSE scroll - 1
  /\ UNCHANGED <<phase, command, spec, indices, space, verdict, cands, order,
                 at, rows, view, costs, rho>>

(* The application, and its cursor with it, is gone.                       *)
Quit ==
  /\ phase = "browse"
  /\ phase' = "quit" /\ view' = "overview" /\ scroll' = 0
  /\ UNCHANGED <<command, spec, indices, space, verdict, cands, order, at,
                 rows, costs, rho>>

-----------------------------------------------------------------------------
(* model --results: every configuration of the space is estimated.         *)

(* One that cannot be ends the command, before it reads the results.       *)
EstimateFails ==
  /\ phase = "measured"
  /\ \E k \in DOMAIN space : ~Estimates(spec, Config(spec, space[k]))
  /\ phase' = "failed"
  /\ UNCHANGED <<command, spec, indices, space, verdict, cands, order, at,
                 rows, view, scroll, costs, rho>>

Estimate ==
  /\ phase = "measured" /\ Readable
  /\ \A k \in DOMAIN space : Estimates(spec, Config(spec, space[k]))
  /\ phase' = "estimated"
  /\ costs' = [k \in DOMAIN space |-> Cost(spec, Config(spec, space[k]))]
  /\ UNCHANGED <<command, spec, indices, space, verdict, cands, order, at,
                 rows, view, scroll, rho>>

(* The rows with a finite cost and a measured median.                      *)
Paired == ById({r \in Summarized : costs[r.id] # Infinite})

Correlate ==
  /\ phase = "estimated"
  /\ phase' = "modelled"
  /\ rho' = Spearman([p \in DOMAIN Paired |-> costs[Paired[p].id]],
                     [p \in DOMAIN Paired |-> Paired[p].summary.med])
  /\ UNCHANGED <<command, spec, indices, space, verdict, cands, order, at,
                 rows, view, scroll, costs>>

Next ==
  \/ Load
  \/ Visit
  \/ \E allow \in BOOLEAN : Plan(allow)
  \/ Shuffle
  \/ Measure
  \/ Measured
  \/ ReadFails
  \/ Open
  \/ \E v \in Views : Select(v)
  \/ ScrollDown
  \/ ScrollUp
  \/ Quit
  \/ EstimateFails
  \/ Estimate
  \/ Correlate

Spec == Init /\ [][Next]_vars

-----------------------------------------------------------------------------
(* Properties.                                                             *)

Phases ==
  {"load", "refused", "enumerate", "uncomputable", "listed", "gate", "failed",
   "shuffle", "measure", "measured", "unreadable", "estimated", "modelled",
   "browse", "quit"}

Statuses == {"ok", "error"}

(* Every step leaves every variable well formed: what is kept, judged,     *)
(* planned, ordered and measured refers to a configuration of the spec,    *)
(* and the cursor of the screen is never negative.                         *)
TypeOK ==
  /\ phase \in Phases /\ command \in {"space", "tune", "metal"}
  /\ space \in Seq(Indices(spec))
  /\ phase \in {"enumerate", "uncomputable"} => indices \in Indices(spec)
  /\ verdict \in Seq({"clean", "disqualified", "ungated"})
  /\ Len(verdict) \in {0, Len(space)}
  /\ \A p \in DOMAIN cands : cands[p].id \in DOMAIN verdict
  /\ order \in Seq(DOMAIN cands) /\ at \in Nat
  /\ \A r \in ToSet(rows) :
       r.id \in DOMAIN verdict /\ r.status \in Statuses
  /\ view \in Views /\ scroll \in Nat
  /\ Len(costs) \in {0, Len(space)}

LexLess(u, v) ==
  \E k \in DOMAIN v : u[k] < v[k] /\ \A j \in 1..(k - 1) : u[j] = v[j]

(* While the space is made, and when it is; it is not touched again.       *)
InSpace == phase \in {"enumerate", "uncomputable", "listed", "gate"}

(* The configurations the enumeration is done with.                        *)
Visited ==
  IF phase \in {"enumerate", "uncomputable"}
  THEN {v \in Indices(spec) : LexLess(v, indices)}
  ELSE Indices(spec)

(* Both sides of a constraint, and what the grammar says of them.          *)
IsGrammatical(c) == Grammatical(c.lhs) /\ Grammatical(c.rhs)
HasValue(c, env) == Fits(c.lhs, env) /\ Fits(c.rhs, env)
IsTrue(c, env) == Compare(Exact(c.lhs, env), c.cmp, Exact(c.rhs, env))

(* The constraints mean what the grammar says, in exact integers: a        *)
(* configuration is kept if and only if every one of them is true of it,   *)
(* one that has no value or leaves u64 on the way is an error and never an *)
(* answer, and the enumeration ends early for no other reason.             *)
ConstraintsAreExact ==
  InSpace =>
  LET of == {c \in ToSet(spec.constraints) : IsGrammatical(c)}
      whole == of = ToSet(spec.constraints)
  IN  /\ \A v \in Visited : \A c \in of :
           /\ HasValue(c, Config(spec, v))
           /\ v \in ToSet(space) => IsTrue(c, Config(spec, v))
      /\ whole => \A v \in Visited \ ToSet(space) :
                    \E c \in of : ~IsTrue(c, Config(spec, v))
      /\ whole /\ phase = "uncomputable" =>
           \E c \in of : ~HasValue(c, Config(spec, indices))

(* The space is every configuration that satisfies the constraints, each   *)
(* once, in the order of the odometer, which has passed exactly the ones   *)
(* before it: no carry skips or repeats any.                               *)
EnumerationIsComplete ==
  InSpace =>
    /\ ToSet(space) = {v \in Visited : Kept(spec, v)}
    /\ \A i, j \in DOMAIN space : i < j => LexLess(space[i], space[j])

(* The launch is the one that was judged: the threads the gate and the     *)
(* model were told are those of the block that is launched, and the blocks *)
(* the model counts are those of the grid, unless an axis of it is zero or *)
(* is cut to 32 bits.                                                      *)
GateSeesTheLaunch ==
  phase = "measure" =>
  \A p \in DOMAIN cands :
    LET c == Config(spec, space[cands[p].id])
        axes == [i \in 1..3 |-> EvalPlan(spec, spec.grid[i], c)]
        product(f) == f[1] * f[2] * f[3]
    IN  /\ product(cands[p].block) = BlockThreads(c)
        /\ ToSet(axes) \subseteq 1..Max32 /\ product(axes) <= MaxU =>
             GridBlocks(spec, c) = product(cands[p].grid)

(* Whatever the generator draws, the order is a permutation of the plan,   *)
(* and what has been measured is its beginning, nothing twice.             *)
OrderVisitsEach ==
  /\ Len(order) = Len(cands) /\ IsInjective(order)
  /\ ToSet(order) = DOMAIN cands
  /\ \A k \in DOMAIN rows : rows[k].id = cands[order[k]].id

(* Every summary describes the sample it is made of.                       *)
SummaryIsSound ==
  phase = "measure" => \A r \in Summarized : Describes(r.summary, r.times)

(* On the ranking and on the head of it in the overview, whatever stands   *)
(* above the chosen configuration was refused, a refused configuration the *)
(* report calls faster stands above it, and the chosen one is in sight     *)
(* unless refused ones or the scroll have pushed it out.                   *)
OnlyRefusedAboveChosen ==
  phase = "browse" /\ view \in {"overview", "ranking"} =>
    LET shown == Screen
        faster == {r.id : r \in RejectedFaster}
    IN  /\ \A i, j \in DOMAIN shown : i < j =>
             /\ shown[j].marker = "chosen" => shown[i].marker = "refused"
             /\ shown[i].marker = "chosen" => shown[j].id \notin faster
        /\ scroll = 0 /\ shown # <<>> /\ ChosenIds # {} =>
             \/ \E k \in DOMAIN shown : shown[k].marker = "chosen"
             \/ \A k \in DOMAIN shown : shown[k].marker = "refused"

(* The correlation of the model with the measurements is within -1 and 1,  *)
(* and it is 1 where they rank the configurations alike and -1 where they  *)
(* rank them in reverse, however many of them tie.                         *)
CorrelationIsSound ==
  rho # NoCorrelation =>
    LET cheaper(a, b) == Cheaper(costs[a.id], costs[b.id])
        faster(a, b) == a.summary.med < b.summary.med
        pairs == ToSet(Paired)
    IN  /\ rho.num * rho.num <= rho.dx * rho.dy
        /\ (\A a, b \in pairs : cheaper(a, b) <=> faster(a, b)) =>
             rho.num = rho.dx /\ rho.num = rho.dy
        /\ (\A a, b \in pairs : cheaper(a, b) <=> faster(b, a)) =>
             rho.num = -rho.dx /\ rho.num = -rho.dy
=============================================================================
