------------------------- MODULE AgentWorkflowProofs -------------------------
(* Theorems about AgentWorkflow, for any results, gaps, reports and bounds:   *)
(* its type correctness, its safety properties, that nothing is forgotten and *)
(* that the work is bounded.                                                  *)
EXTENDS AgentWorkflow, TLAPS, FiniteSetTheorems, FunctionTheorems

-----------------------------------------------------------------------------
(* The inductive invariant. Its parts are about values v of the channels of a *)
(* graph g, because they hold of the running superstep and of the saved one.  *)

\* What the scouts have found and not replaced, if it has content.
Pool(v) == Normalized(v.web) \cup v.private \cup v.mcp

\* One result of a source.
Single(results) == \A r, s \in results : Id[r] = Id[s] => r = s

\* Nothing was planned or searched yet.
Empty(v) ==
  /\ v.web = {} /\ v.private = {} /\ v.mcp = {} /\ v.evidence = {}
  /\ v.outcomes = {} /\ v.attempted = {} /\ v.supplementary = {}
  /\ v.iteration = 0 /\ v.report = None

\* Every channel there is, with a value of its type.
Typed(v) ==
  /\ DOMAIN v = DOMAIN InitialState
  /\ v.is_high_risk_domain \in BOOLEAN
  /\ v.plan \in {{}, PlanQueries} /\ v.supplementary \subseteq Gap /\ v.gaps \subseteq Gap
  /\ v.web \subseteq WebResults /\ v.private \subseteq PrivateResults
  /\ v.mcp \subseteq McpResults /\ v.evidence \subseteq Results
  /\ Single(v.web) /\ Single(v.private) /\ Single(v.evidence)
  /\ v.analysis \in Analysis \cup {None} /\ v.report \in Report \cup {None}
  /\ v.decision \in Decision \cup {None}
  /\ v.iteration \in 0..MaxIterations /\ v.reflection_attempts \in Nat
  /\ \A o \in v.outcomes : o.round \in Nat

\* RoundsAreNew, about v.
RoundsOf(g, v) ==
  /\ \A a, b \in v.outcomes : a.query = b.query => a.round = b.round
  /\ \A o \in v.outcomes : o.round <= v.iteration
  /\ g = "eight" => \A o \in v.outcomes : o.query \in v.attempted
  /\ \A q \in v.supplementary : q.query \in v.attempted

\* CompletedReportIsSupported, about v.
Supported(v) ==
  v.status = "research_report_completed" =>
    /\ v.decision.status = "approved" /\ v.answered
    /\ v.report.cited # {} /\ v.report.cited \subseteq Ids(v.evidence)
    /\ ~v.report.uncited /\ Cardinality(v.evidence) >= MinimumSources

\* Evidence is of sources that are in a pool, in this version or another.
Found(v) == Ids(v.evidence) \subseteq Ids(v.web) \cup Ids(v.private) \cup Ids(v.mcp)

\* What holds of the values wherever the run is.
Sound(g, v) ==
  /\ Typed(v)
  /\ RoundsOf(g, v)
  /\ Supported(v)
  /\ Found(v)

\* Nodes that may run together: one, or both scouts.
Supersteps(g) ==
  IF g = "eight"
  THEN {{n} : n \in EightAgentNodes \ {"web_scout", "local_scout"}}
         \cup {{"web_scout", "local_scout"}}
  ELSE {{n} : n \in ShortGraphNodes}

\* What the round will search was not searched in an earlier one: it is the
\* plan, with no outcomes yet, or follow-ups unlike every outcome.
NewRound(v) ==
  \/ /\ v.iteration = 0 /\ v.outcomes = {} /\ v.supplementary = {}
     /\ v.plan \subseteq v.attempted
  \/ /\ v.iteration # 0 /\ v.supplementary # {}
     /\ \A q \in v.supplementary, o \in v.outcomes : q.query # o.query

\* What a node finds in the channels when its superstep begins.
Ready(g, v, n) ==
  /\ v.status # "research_report_completed"
  /\ n \in {"initialize", "intent_router", "route", "direct_answer", "planner",
             "web_search"} => Empty(v)
  /\ n = "direct_answer" => v.route = "direct"
  /\ n \notin {"initialize", "intent_router", "route", "direct_answer"} =>
       v.route = "deep_research"
  /\ g = "eight" => v.report = None
  /\ n \in {"research_dispatch", "web_scout", "local_scout"} => NewRound(v)
  /\ g = "eight" /\ n \in {"analyst", "reflect", "writer"} => v.evidence = Pool(v)
  /\ n = "reflect" => v.analysis \in Analysis
  /\ n = "evidence" => v.evidence = {}
  /\ g = "short" /\ n # "reflection" => v.reflection_attempts < MaxReflectionAttempts
  /\ n = "reflection" => v.reflection_attempts <= MaxReflectionAttempts
  /\ n = "reflection" => v.report \in Report

\* The nodes of a superstep are together, and each finds what it needs.
Position(g, v, nodes) ==
  nodes \in Supersteps(g) /\ \A n \in nodes : Ready(g, v, n)

\* What END leaves after some drafts: RefusedOnlyWhenExhausted and the join.
Finished(g, v, written) ==
  /\ v.answered
  /\ (v.route = "deep_research") = (v.report # None)
  /\ v.status = "research_report_revision_required" =>
       IF g = "eight" THEN written = MaxWriterAttempts
       ELSE v.reflection_attempts >= MaxReflectionAttempts
  /\ g = "eight" /\ v.route = "deep_research" => v.evidence = Pool(v)

\* Outcomes found beside those of v are this round's, attempted and new.
RoundFits(v, found) ==
  /\ v.outcomes \subseteq found
  /\ \A o \in found \ v.outcomes : 
       /\ o.round = v.iteration /\ o.query \in v.attempted
       /\ \A p \in v.outcomes : p.query # o.query

\* The nodes that run beside another.
Scouts == {"web_scout", "local_scout"}

\* The agent-step rows that may still be written when the superstep of n is over:
\* two for an agent, ten for a round, as many rounds or reports as are left.
Ahead(g, v, n) ==
  LET rounds == 10 * (MaxIterations - v.iteration)
      reports == 2 * (MaxReflectionAttempts - v.reflection_attempts)
  IN IF g = "eight"
     THEN CASE n = "initialize" -> rounds + 16
            [] n = "intent_router" -> rounds + 14
            [] n \in {"planner", "research_dispatch"} -> rounds + 12
            [] n \in Scouts -> rounds + 8
            [] n = "evidence_judge" -> rounds + 6
            [] n = "analyst" -> rounds + 4
            [] n = "reflect" -> rounds + 2
            [] OTHER -> 0
     ELSE CASE n \in {"initialize", "route"} -> reports + 2
            [] n \in {"planner", "web_search", "evidence", "reflection"} -> reports
            [] n = "analyst" -> reports - 2
            [] OTHER -> 0

\* The agents of the superstep of n.
Width(n) ==
  IF n \in Scouts THEN 2 ELSE IF n \in AGENT_STEP_NODE_NAMES THEN 1 ELSE 0

\* The update of a scout that returned first, and waits for the other one.
ScoutFits(v, n, update) ==
  /\ n \in {"web_scout", "local_scout"}
  /\ n = "web_scout" =>
       /\ DOMAIN update = {"outcomes", "web", "mcp"}
       /\ RoundFits(v, update.outcomes)
       /\ update.web \subseteq WebResults /\ Single(update.web)
       /\ update.mcp \subseteq McpResults
       /\ Ids(v.web) \subseteq Ids(update.web) /\ Ids(v.mcp) \subseteq Ids(update.mcp)
  /\ n = "local_scout" =>
       /\ DOMAIN update = {"private"}
       /\ update.private \subseteq PrivateResults /\ Single(update.private)
       /\ Ids(v.private) \subseteq Ids(update.private)

\* Only a scout waits, and never for itself alone.
WritesFit ==
  /\ DOMAIN writes \subseteq next
  /\ DOMAIN writes = next => next = {}
  /\ \A n \in DOMAIN writes : ScoutFits(st, n, writes[n])

\* A recorder's next number is at most one more than the rows there are.
Counted(trace) ==
  /\ DOMAIN trace = {"rows", "sequence", "lost"}
  /\ trace.rows \in Nat /\ trace.sequence \in 1..(trace.rows + 1)

\* While the run may go on, the Writer has an attempt left.
Counters ==
  /\ drafts \in 0..MaxWriterAttempts /\ crashes \in 0..MaxCrashes
  /\ run \in {"running", "down"} => drafts < MaxWriterAttempts
  /\ Counted(steps)

\* The values are sound, the superstep is where it may be, and so is the one
\* that a crash may take the run back to.
WorkflowInv ==
  /\ graph \in {"eight", "short"} /\ run \in {"running", "down", "raised", "ended"}
  /\ Counters
  /\ WritesFit
  /\ Sound(graph, st)
  /\ run = "running" => next # {}
  /\ run \in {"raised", "ended"} => next = {}
  /\ next # {} => Position(graph, st, next)
  /\ saved # None => Sound(graph, saved.st) /\ Position(graph, saved.st, saved.next)
  /\ run = "ended" => Finished(graph, st, drafts)

-----------------------------------------------------------------------------
(* Supersteps                                                                 *)

\* There are finitely many agents.
LEMMA AgentsAreFew ==
  ASSUME NEW roles
  PROVE  IsFiniteSet(roles \cap AGENT_STEP_NODE_NAMES)
<1> DEFINE number == [n \in AGENT_STEP_NODE_NAMES |->
             CASE n = "intent_router" -> 1
               [] n = "direct_answer" -> 2
               [] n = "planner" -> 3
               [] n = "web_scout" -> 4
               [] n = "local_scout" -> 5
               [] n = "evidence_judge" -> 6
               [] n = "analyst" -> 7
               [] n = "reflect" -> 8
               [] n = "writer" -> 9]
           agents == 9
           T == 1..agents
<1>1. number \in [AGENT_STEP_NODE_NAMES -> T]
  BY DEF AGENT_STEP_NODE_NAMES
<1>2. \A m, n \in AGENT_STEP_NODE_NAMES : number[m] = number[n] => m = n
  BY DEF AGENT_STEP_NODE_NAMES
<1>3. agents \in Int
  OBVIOUS
<1> HIDE DEF number, agents
<1>4. IsFiniteSet(T)
  BY <1>3, FS_Interval
<1> HIDE DEF T
<1>5. number \in Injection(AGENT_STEP_NODE_NAMES, T)
  BY <1>1, <1>2, Fun_IsInj
<1>6. IsFiniteSet(AGENT_STEP_NODE_NAMES)
  BY <1>4, <1>5, FS_Injection
<1> QED BY <1>6, FS_Subset

\* They can be counted.
LEMMA FewAgents ==
  ASSUME NEW roles
  PROVE  Cardinality(roles \cap AGENT_STEP_NODE_NAMES) \in Nat
  BY AgentsAreFew, FS_CardinalityType

\* Rows are numbered on, by this recorder or by the next one.
LEMMA RowsAreCounted ==
  ASSUME NEW trace, Counted(trace), NEW roles
  PROVE  Counted(Record(trace, roles)) /\ Counted([trace EXCEPT !.sequence = 1])
<1>1. Counted(Record(trace, roles))
  BY FewAgents DEF Record, Counted
<1>2. Counted([trace EXCEPT !.sequence = 1])
  BY DEF Counted
<1> QED BY <1>1, <1>2

\* The values after a superstep: the update's, and otherwise those before it.
Updated(update) ==
  /\ DOMAIN st' = DOMAIN st
  /\ \A c \in DOMAIN update : st'[c] = update[c]
  /\ \A c \in DOMAIN st \ DOMAIN update : st'[c] = st[c]

\* The channels one by one.
LEMMA Channels ==
  ASSUME Typed(st), NEW update, Updated(update)
  PROVE  /\ "status" \notin DOMAIN update => st'.status = st.status
         /\ "route" \notin DOMAIN update => st'.route = st.route
         /\ "is_high_risk_domain" \notin DOMAIN update =>
              st'.is_high_risk_domain = st.is_high_risk_domain
         /\ "answered" \notin DOMAIN update => st'.answered = st.answered
         /\ "plan" \notin DOMAIN update => st'.plan = st.plan
         /\ "outcomes" \notin DOMAIN update => st'.outcomes = st.outcomes
         /\ "web" \notin DOMAIN update => st'.web = st.web
         /\ "private" \notin DOMAIN update => st'.private = st.private
         /\ "mcp" \notin DOMAIN update => st'.mcp = st.mcp
         /\ "evidence" \notin DOMAIN update => st'.evidence = st.evidence
         /\ "gaps" \notin DOMAIN update => st'.gaps = st.gaps
         /\ "analysis" \notin DOMAIN update => st'.analysis = st.analysis
         /\ "supplementary" \notin DOMAIN update => st'.supplementary = st.supplementary
         /\ "attempted" \notin DOMAIN update => st'.attempted = st.attempted
         /\ "iteration" \notin DOMAIN update => st'.iteration = st.iteration
         /\ "report" \notin DOMAIN update => st'.report = st.report
         /\ "decision" \notin DOMAIN update => st'.decision = st.decision
         /\ "reflection_attempts" \notin DOMAIN update =>
              st'.reflection_attempts = st.reflection_attempts
  BY DEF Typed, InitialState, Updated

\* A superstep is over: the next one begins, and this one may still be saved.
Ends ==
  /\ run' = IF next' = {} THEN "ended" ELSE "running"
  /\ saved' = [st |-> st, next |-> next] \/ saved' = None
  /\ DOMAIN writes' = {} /\ Counted(steps')
  /\ steps' = Record(Record(steps, next \ DOMAIN writes), next')
  /\ UNCHANGED <<graph, crashes>>

\* A superstep ends.
LEMMA SuperstepEnds ==
  ASSUME WorkflowInv, NEW updates, EndSuperstep(updates), UNCHANGED <<graph, crashes>>
  PROVE  /\ Ends /\ st' = Merged(updates)
         /\ next' = UNION {Edges(n, st') : n \in next}
<1>1. Counted(steps)
  BY DEF WorkflowInv, Counters, Counted
<1>2. Counted(Record(Record(steps, next \ DOMAIN writes), next'))
  BY <1>1, RowsAreCounted
<1>3. st' = Merged(updates) /\ next' = UNION {Edges(n, st') : n \in next}
  BY DEF EndSuperstep
<1>4. steps' = Record(Record(steps, next \ DOMAIN writes), next')
  BY DEF EndSuperstep
<1>5. writes' = <<>> /\ DOMAIN writes' = {}
  BY DEF EndSuperstep
<1> QED BY <1>2, <1>3, <1>4, <1>5 DEF EndSuperstep, Ends

\* Every node but the scouts is alone in its superstep.
LEMMA NodeIsAlone ==
  ASSUME WorkflowInv, NEW node, Pending(node), node \notin Scouts
  PROVE  next = {node} /\ DOMAIN writes = {}
<1>1. next \in Supersteps(graph) /\ node \in next
  BY DEF WorkflowInv, Position, Pending
<1>2. next = {node}
  BY <1>1 DEF Supersteps, Scouts
<1> QED BY <1>2 DEF WorkflowInv, WritesFit, Pending

\* It returns: its update is merged, its edges are followed.
LEMMA NodeReturns ==
  ASSUME WorkflowInv, NEW node, Pending(node), node \notin Scouts,
         NEW update, Return(node, update), DOMAIN update \subseteq DOMAIN InitialState
  PROVE  Ends /\ Updated(update) /\ next' = Edges(node, st') /\ next = {node}
<1> DEFINE updates == [n \in DOMAIN writes \cup {node} |->
                         IF n = node THEN update ELSE writes[n]]
<1>1. next = {node} /\ DOMAIN writes = {}
  BY NodeIsAlone
<1>2. DOMAIN updates = next /\ updates[node] = update
  BY <1>1
<1>3. EndSuperstep(updates) /\ UNCHANGED <<graph, crashes>>
  BY <1>2 DEF Return
<1> HIDE DEF updates
<1>4. Ends /\ st' = Merged(updates) /\ next' = Edges(node, st')
  BY <1>1, <1>3, SuperstepEnds
<1>5. DOMAIN st = DOMAIN InitialState
  BY DEF WorkflowInv, Sound, Typed
<1>6. \A c : Writers(c, updates) = IF c \in DOMAIN update THEN {node} ELSE {}
  BY <1>1, <1>2 DEF Writers
<1>7. Updated(update)
  BY <1>2, <1>4, <1>5, <1>6 DEF Merged, Updated
<1> QED BY <1>1, <1>4, <1>7

\* What a superstep leaves: sound values, in the right place.
Good(g, v, nodes, written) ==
  Sound(g, v) /\ IF nodes = {} THEN Finished(g, v, written) ELSE Position(g, v, nodes)

\* What only grows: NothingIsForgotten, about v and then w.
Grows(v, w) ==
  /\ Ids(v.web) \subseteq Ids(w.web) /\ Ids(v.private) \subseteq Ids(w.private)
  /\ Ids(v.mcp) \subseteq Ids(w.mcp)
  /\ Ids(v.evidence) \subseteq Ids(w.evidence \cup (w.web \cap Blank))
  /\ v.outcomes \subseteq w.outcomes
  /\ v.attempted \subseteq w.attempted /\ v.iteration <= w.iteration

\* What is ahead of every node.
LEMMA EightAhead ==
  ASSUME NEW v, NEW rounds, rounds = 10 * (MaxIterations - v.iteration)
  PROVE  /\ Ahead("eight", v, "initialize") = rounds + 16
         /\ Ahead("eight", v, "intent_router") = rounds + 14
         /\ Ahead("eight", v, "direct_answer") = 0
         /\ Ahead("eight", v, "planner") = rounds + 12
         /\ Ahead("eight", v, "research_dispatch") = rounds + 12
         /\ \A n \in Scouts : Ahead("eight", v, n) = rounds + 8
         /\ Ahead("eight", v, "evidence_judge") = rounds + 6
         /\ Ahead("eight", v, "analyst") = rounds + 4
         /\ Ahead("eight", v, "reflect") = rounds + 2
         /\ Ahead("eight", v, "writer") = 0
  BY DEF Ahead, Scouts

\* The same in the short graph.
LEMMA ShortAhead ==
  ASSUME NEW v, NEW reports, reports = 2 * (MaxReflectionAttempts - v.reflection_attempts)
  PROVE  /\ Ahead("short", v, "initialize") = reports + 2
         /\ Ahead("short", v, "route") = reports + 2
         /\ Ahead("short", v, "direct_answer") = 0
         /\ Ahead("short", v, "planner") = reports
         /\ Ahead("short", v, "web_search") = reports
         /\ Ahead("short", v, "evidence") = reports
         /\ Ahead("short", v, "analyst") = reports - 2
         /\ Ahead("short", v, "reflection") = reports
  BY DEF Ahead, Scouts

\* How many agents a superstep has.
LEMMA Widths ==
  /\ \A n \in {"initialize", "route", "research_dispatch", "web_search", "evidence",
                "reflection"} : Width(n) = 0
  /\ \A n \in {"intent_router", "direct_answer", "planner", "evidence_judge", "analyst",
                "reflect", "writer"} : Width(n) = 1
  /\ \A n \in Scouts : Width(n) = 2
  BY DEF Width, Scouts, AGENT_STEP_NODE_NAMES

\* The next superstep, its rows included, is within what was left.
Spends ==
  \A n \in next, m \in next' : Ahead(graph, st', m) + 2 * Width(m) <= Ahead(graph, st, n)

\* Every edge of the eight-agent graph costs what was ahead of it; Reflect opens
\* a round only for one of the budget.
LEMMA EightSpends ==
  ASSUME graph = "eight", Typed(st), Typed(st'),
         \/ /\ st'.iteration = st.iteration
            /\ \/ next = {"initialize"} /\ next' = {"intent_router"}
               \/ next = {"intent_router"} /\ next' \in {{"direct_answer"}, {"planner"}}
               \/ next \in {{"planner"}, {"research_dispatch"}} /\ next' = Scouts
               \/ next = Scouts /\ next' = {"evidence_judge"}
               \/ next = {"evidence_judge"} /\ next' = {"analyst"}
               \/ next = {"analyst"} /\ next' = {"reflect"}
               \/ next = {"reflect"} /\ next' = {"writer"}
         \/ /\ st'.iteration = st.iteration + 1
            /\ next = {"reflect"} /\ next' = {"research_dispatch"}
  PROVE  Spends
<1> DEFINE before == 10 * (MaxIterations - st.iteration)
           after == 10 * (MaxIterations - st'.iteration)
<1>1. /\ st.iteration \in Nat /\ st.iteration <= MaxIterations
      /\ st'.iteration \in Nat /\ st'.iteration <= MaxIterations /\ MaxIterations \in Nat
  BY BoundsAssumption DEF Typed
<1>2. before \in Nat /\ after \in Nat
  BY <1>1
<1>3. IF st'.iteration = st.iteration THEN after = before
      ELSE st'.iteration = st.iteration + 1 => after = before - 10
  BY <1>1
<1>4. /\ Ahead(graph, st, "initialize") = before + 16
      /\ Ahead(graph, st, "intent_router") = before + 14
      /\ Ahead(graph, st, "planner") = before + 12
      /\ Ahead(graph, st, "research_dispatch") = before + 12
      /\ \A n \in Scouts : Ahead(graph, st, n) = before + 8
      /\ Ahead(graph, st, "evidence_judge") = before + 6
      /\ Ahead(graph, st, "analyst") = before + 4
      /\ Ahead(graph, st, "reflect") = before + 2
  BY EightAhead
<1>5. /\ Ahead(graph, st', "intent_router") = after + 14
      /\ Ahead(graph, st', "direct_answer") = 0
      /\ Ahead(graph, st', "planner") = after + 12
      /\ Ahead(graph, st', "research_dispatch") = after + 12
      /\ \A n \in Scouts : Ahead(graph, st', n) = after + 8
      /\ Ahead(graph, st', "evidence_judge") = after + 6
      /\ Ahead(graph, st', "analyst") = after + 4
      /\ Ahead(graph, st', "reflect") = after + 2
      /\ Ahead(graph, st', "writer") = 0
  BY EightAhead
<1> HIDE DEF before, after
<1>6. CASE st'.iteration = st.iteration
  <2>1. after = before
    BY <1>3, <1>6
  <2>2. st'.iteration # st.iteration + 1
    BY <1>1, <1>6
  <2>3. CASE next = {"initialize"} /\ next' = {"intent_router"}
    BY <1>2, <1>4, <1>5, <2>1, <2>3, Widths DEF Spends
  <2>4. CASE next = {"intent_router"} /\ next' \in {{"direct_answer"}, {"planner"}}
    BY <1>2, <1>4, <1>5, <2>1, <2>4, Widths DEF Spends
  <2>5. CASE next \in {{"planner"}, {"research_dispatch"}} /\ next' = Scouts
    BY <1>2, <1>4, <1>5, <2>1, <2>5, Widths DEF Spends
  <2>6. CASE next = Scouts /\ next' = {"evidence_judge"}
    BY <1>2, <1>4, <1>5, <2>1, <2>6, Widths DEF Spends
  <2>7. CASE next = {"evidence_judge"} /\ next' = {"analyst"}
    BY <1>2, <1>4, <1>5, <2>1, <2>7, Widths DEF Spends
  <2>8. CASE next = {"analyst"} /\ next' = {"reflect"}
    BY <1>2, <1>4, <1>5, <2>1, <2>8, Widths DEF Spends
  <2>9. CASE next = {"reflect"} /\ next' = {"writer"}
    BY <1>2, <1>4, <1>5, <2>1, <2>9, Widths DEF Spends
  <2> QED BY <2>2, <2>3, <2>4, <2>5, <2>6, <2>7, <2>8, <2>9
<1>7. CASE st'.iteration # st.iteration
  <2>1. next = {"reflect"} /\ next' = {"research_dispatch"} /\ after = before - 10
    BY <1>3, <1>7
  <2> QED BY <1>2, <1>4, <1>5, <2>1, Widths DEF Spends
<1> QED BY <1>6, <1>7

\* So does every edge of the short graph, where the analyst uses up an attempt.
LEMMA ShortSpends ==
  ASSUME graph = "short", Typed(st), Typed(st'),
         st.reflection_attempts <= MaxReflectionAttempts,
         \/ /\ st'.reflection_attempts = st.reflection_attempts
            /\ \/ next = {"initialize"} /\ next' = {"route"}
               \/ next = {"route"} /\ next' \in {{"direct_answer"}, {"planner"}}
               \/ next = {"planner"} /\ next' = {"web_search"}
               \/ next = {"web_search"} /\ next' = {"evidence"}
               \/ next \in {{"evidence"}, {"reflection"}} /\ next' = {"analyst"}
         \/ /\ st'.reflection_attempts = st.reflection_attempts + 1
            /\ next = {"analyst"} /\ next' = {"reflection"}
  PROVE  Spends
<1> DEFINE before == 2 * (MaxReflectionAttempts - st.reflection_attempts)
           after == 2 * (MaxReflectionAttempts - st'.reflection_attempts)
<1>1. /\ st.reflection_attempts \in Nat /\ st'.reflection_attempts \in Nat
      /\ MaxReflectionAttempts \in Nat
  BY BoundsAssumption DEF Typed
<1>2. before \in Nat /\ after \in Int
  BY <1>1
<1>3. IF st'.reflection_attempts = st.reflection_attempts THEN after = before
      ELSE st'.reflection_attempts = st.reflection_attempts + 1 => after = before - 2
  BY <1>1
<1>4. /\ Ahead(graph, st, "initialize") = before + 2
      /\ Ahead(graph, st, "route") = before + 2
      /\ Ahead(graph, st, "planner") = before
      /\ Ahead(graph, st, "web_search") = before
      /\ Ahead(graph, st, "evidence") = before
      /\ Ahead(graph, st, "analyst") = before - 2
      /\ Ahead(graph, st, "reflection") = before
  BY ShortAhead
<1>5. /\ Ahead(graph, st', "route") = after + 2
      /\ Ahead(graph, st', "direct_answer") = 0
      /\ Ahead(graph, st', "planner") = after
      /\ Ahead(graph, st', "web_search") = after
      /\ Ahead(graph, st', "evidence") = after
      /\ Ahead(graph, st', "analyst") = after - 2
      /\ Ahead(graph, st', "reflection") = after
  BY ShortAhead
<1> HIDE DEF before, after
<1>6. CASE st'.reflection_attempts = st.reflection_attempts
  <2>1. after = before
    BY <1>3, <1>6
  <2>2. st'.reflection_attempts # st.reflection_attempts + 1
    BY <1>1, <1>6
  <2>3. CASE next = {"initialize"} /\ next' = {"route"}
    BY <1>2, <1>4, <1>5, <2>1, <2>3, Widths DEF Spends
  <2>4. CASE next = {"route"} /\ next' \in {{"direct_answer"}, {"planner"}}
    BY <1>2, <1>4, <1>5, <2>1, <2>4, Widths DEF Spends
  <2>5. CASE next = {"planner"} /\ next' = {"web_search"}
    BY <1>2, <1>4, <1>5, <2>1, <2>5, Widths DEF Spends
  <2>6. CASE next = {"web_search"} /\ next' = {"evidence"}
    BY <1>2, <1>4, <1>5, <2>1, <2>6, Widths DEF Spends
  <2>7. CASE next \in {{"evidence"}, {"reflection"}} /\ next' = {"analyst"}
    BY <1>2, <1>4, <1>5, <2>1, <2>7, Widths DEF Spends
  <2> QED BY <2>2, <2>3, <2>4, <2>5, <2>6, <2>7
<1>7. CASE st'.reflection_attempts # st.reflection_attempts
  <2>1. next = {"analyst"} /\ next' = {"reflection"} /\ after = before - 2
    BY <1>3, <1>7
  <2> QED BY <1>2, <1>4, <1>5, <2>1, Widths DEF Spends
<1> QED BY <1>6, <1>7

\* What a superstep that ends does.
Advance == Ends /\ Good(graph, st', next', drafts') /\ Grows(st, st') /\ Spends

\* A node that runs is where it may.
LEMMA NodeIsReady ==
  ASSUME WorkflowInv, NEW node, Pending(node)
  PROVE  /\ Sound(graph, st) /\ Typed(st) /\ RoundsOf(graph, st) /\ Ready(graph, st, node)
         /\ graph \in {"eight", "short"} /\ node \in Nodes /\ run = "running"
<1>1. next \in Supersteps(graph) /\ Ready(graph, st, node)
  BY DEF WorkflowInv, Position, Pending
<1>2. node \in Nodes
  BY <1>1 DEF WorkflowInv, Supersteps, Nodes, Pending, EightAgentNodes
<1> QED BY <1>1, <1>2 DEF WorkflowInv, Sound, Pending

\* The first node only starts the run.
LEMMA InitializeAdvances == ASSUME WorkflowInv, Initialize PROVE Advance
<1> DEFINE update == [status |-> "initialized"]
<1>1. Pending("initialize") /\ Return("initialize", update)
  BY DEF Initialize
<1>2. /\ Ends /\ Updated(update) /\ next' = Edges("initialize", st') /\ next = {"initialize"}
  BY <1>1, NodeReturns DEF Scouts, InitialState
<1>3. Ready(graph, st, "initialize") /\ Sound(graph, st) /\ graph \in {"eight", "short"}
  BY <1>1, NodeIsReady
<1>4. st'.status = "initialized"
  BY <1>2 DEF Updated
<1>5. Sound(graph, st')
  BY <1>2, <1>3, <1>4, Channels
  DEF Sound, Typed, Updated, RoundsOf, Supported, Found
<1>6. next' = {IF graph = "eight" THEN "intent_router" ELSE "route"}
  BY <1>2, <1>3 DEF Edges, EightAgentEdges, ShortGraphEdges
<1>7. Position(graph, st', next')
  BY <1>2, <1>3, <1>4, <1>6, Channels
  DEF Sound, Position, Supersteps, EightAgentNodes, ShortGraphNodes, Ready, Empty
<1>8. Grows(st, st')
  BY <1>2, <1>3, Channels DEF Grows, Ids, Sound, Typed
<1>9. Spends
  <2>1. st'.iteration = st.iteration /\ st'.reflection_attempts = st.reflection_attempts
    BY <1>2, <1>3, Channels DEF Sound
  <2>2. Typed(st) /\ Typed(st')
    BY <1>3, <1>5 DEF Sound
  <2>3. CASE graph = "eight"
    <3>1. next = {"initialize"} /\ next' = {"intent_router"}
      BY <1>2, <1>6, <2>3
    <3> QED BY <2>1, <2>2, <2>3, <3>1, EightSpends
  <2>4. CASE graph = "short"
    <3>1. next = {"initialize"} /\ next' = {"route"}
      BY <1>2, <1>6, <2>4
    <3>2. st.reflection_attempts <= MaxReflectionAttempts
      BY <1>3, <2>2, <2>4, BoundsAssumption DEF Ready, Typed
    <3> QED BY <2>1, <2>2, <2>4, <3>1, <3>2, ShortSpends
  <2> QED BY <1>3, <2>3, <2>4
<1> QED BY <1>2, <1>5, <1>6, <1>7, <1>8, <1>9 DEF Advance, Good, Sound

\* The router sends every run one of two ways.
LEMMA RouteAdvances == ASSUME WorkflowInv, RouteNode PROVE Advance
<1>1. PICK node \in {"intent_router", "route"}, decision \in Classifications :
        /\ Pending(node)
        /\ Return(node, [route |-> decision.route, status |-> "routed",
                         is_high_risk_domain |-> decision.is_high_risk_domain])
  BY DEF RouteNode
<1> DEFINE update == [route |-> decision.route, status |-> "routed",
                      is_high_risk_domain |-> decision.is_high_risk_domain]
<1>2. Ends /\ Updated(update) /\ next' = Edges(node, st') /\ next = {node}
  BY <1>1, NodeReturns DEF Scouts, InitialState
<1>3. /\ Ready(graph, st, node) /\ Sound(graph, st) /\ Typed(st)
      /\ node \in Nodes /\ graph \in {"eight", "short"}
  BY <1>1, NodeIsReady
<1>4. /\ st'.status = "routed" /\ st'.route \in {"direct", "deep_research"}
      /\ st'.is_high_risk_domain \in BOOLEAN
  BY <1>2 DEF Updated, Classifications
<1>5. Sound(graph, st')
  BY <1>2, <1>3, <1>4, Channels
  DEF Sound, Typed, Updated, RoundsOf, Supported, Found
<1>6. next' = {IF st'.route = "direct" THEN "direct_answer" ELSE "planner"}
  BY <1>2, <1>3 DEF Edges, EightAgentEdges, ShortGraphEdges, SelectRoute, Nodes,
                    EightAgentNodes, ShortGraphNodes
<1>7. Empty(st')
  BY <1>2, <1>3, Channels DEF Ready, Empty
<1>8. Position(graph, st', next')
  <2>1. graph = "short" => st'.reflection_attempts < MaxReflectionAttempts
    BY <1>1, <1>2, <1>3, Channels DEF Ready
  <2> QED BY <1>3, <1>4, <1>6, <1>7, <2>1
          DEF Position, Supersteps, EightAgentNodes, ShortGraphNodes, Ready, Empty
<1>9. Grows(st, st')
  BY <1>2, <1>3, Channels DEF Grows, Ids, Sound, Typed
<1>10. Spends
  <2>1. st'.iteration = st.iteration /\ st'.reflection_attempts = st.reflection_attempts
    BY <1>2, <1>3, Channels
  <2>2. Typed(st) /\ Typed(st') /\ next = {node} /\ next' \in {{"direct_answer"}, {"planner"}}
    BY <1>2, <1>3, <1>5, <1>6 DEF Sound
  <2>3. CASE graph = "eight"
    <3>1. next = {"intent_router"}
      BY <1>1, <1>3, <2>2, <2>3 DEF Nodes, EightAgentNodes
    <3> QED BY <2>1, <2>2, <2>3, <3>1, EightSpends
  <2>4. CASE graph = "short"
    <3>1. next = {"route"}
      BY <1>1, <1>3, <2>2, <2>4 DEF Nodes, ShortGraphNodes
    <3>2. st.reflection_attempts <= MaxReflectionAttempts
      BY <1>1, <1>3, <2>4, BoundsAssumption DEF Ready, Typed
    <3> QED BY <2>1, <2>2, <2>4, <3>1, <3>2, ShortSpends
  <2> QED BY <1>3, <2>3, <2>4
<1> QED BY <1>2, <1>5, <1>6, <1>8, <1>9, <1>10 DEF Advance, Good, Sound

\* A direct answer ends the run without a report.
LEMMA DirectAnswerAdvances == ASSUME WorkflowInv, DirectAnswer PROVE Advance
<1> DEFINE update == [answered |-> TRUE, status |-> "direct_answer_completed"]
<1>1. Pending("direct_answer") /\ Return("direct_answer", update)
  BY DEF DirectAnswer
<1>2. Ends /\ Updated(update) /\ next' = Edges("direct_answer", st') /\ next = {"direct_answer"}
  BY <1>1, NodeReturns DEF Scouts, InitialState
<1>3. /\ Ready(graph, st, "direct_answer") /\ Sound(graph, st) /\ Typed(st)
      /\ graph \in {"eight", "short"}
  BY <1>1, NodeIsReady
<1>4. st'.status = "direct_answer_completed"
  BY <1>2 DEF Updated
<1>5. st'.answered
  BY <1>2 DEF Updated
<1>6. Sound(graph, st')
  BY <1>2, <1>3, <1>4, Channels
  DEF Sound, Typed, Updated, RoundsOf, Supported, Found
<1>7. next' = {}
  BY <1>2, <1>3 DEF Edges, EightAgentEdges, ShortGraphEdges
<1>8. Finished(graph, st', drafts')
  <2>1. st'.route = "direct" /\ st'.report = None
    BY <1>2, <1>3, Channels DEF Ready, Empty
  <2> QED BY <1>4, <1>5, <2>1 DEF Finished
<1>9. Grows(st, st')
  BY <1>2, <1>3, Channels DEF Grows, Ids, Sound, Typed
<1>10. Spends
  BY <1>7 DEF Spends
<1> QED BY <1>2, <1>6, <1>7, <1>8, <1>9, <1>10 DEF Advance, Good, Sound

\* The plan is what the first round searches, and attempts.
LEMMA PlannerAdvances == ASSUME WorkflowInv, Planner PROVE Advance
<1> DEFINE update == [plan |-> PlanQueries, attempted |-> PlanQueries,
                      iteration |-> 0, status |-> "research_plan_ready"]
<1>1. Pending("planner") /\ graph = "eight" /\ Return("planner", update)
  BY DEF Planner
<1>2. Ends /\ Updated(update) /\ next' = Edges("planner", st') /\ next = {"planner"}
  BY <1>1, NodeReturns DEF Scouts, InitialState
<1>3. Ready(graph, st, "planner") /\ Sound(graph, st) /\ Typed(st)
  BY <1>1, NodeIsReady
<1>4. /\ st'.plan = PlanQueries /\ st'.attempted = PlanQueries
      /\ st'.iteration = 0 /\ st'.status = "research_plan_ready"
  BY <1>2 DEF Updated
<1>5. Sound(graph, st')
  BY <1>1, <1>2, <1>3, <1>4, BoundsAssumption, Channels
  DEF Sound, Typed, Updated, RoundsOf, Supported, Found, Ready, Empty
<1>6. next' = {"web_scout", "local_scout"}
  BY <1>1, <1>2 DEF Edges, EightAgentEdges
<1>7. NewRound(st')
  BY <1>2, <1>3, <1>4, Channels DEF NewRound, Ready, Empty
<1>8. Position(graph, st', next')
  BY <1>1, <1>2, <1>3, <1>4, <1>6, <1>7, Channels DEF Position, Supersteps, Ready
<1>9. Grows(st, st')
  BY <1>2, <1>3, <1>4, Channels DEF Grows, Ids, Sound, Typed, Ready, Empty
<1>10. Spends
  <2>1. graph = "eight" /\ next = {"planner"} /\ next' = Scouts
    BY <1>1, <1>2, <1>6 DEF Scouts
  <2>2. st'.iteration = st.iteration
    BY <1>3, <1>4 DEF Ready, Empty
  <2>3. Typed(st) /\ Typed(st')
    BY <1>3, <1>5 DEF Sound
  <2> QED BY <2>1, <2>2, <2>3, EightSpends
<1> QED BY <1>2, <1>5, <1>6, <1>8, <1>9, <1>10 DEF Advance, Good, Sound

\* The last result of a source wins, and no source is lost.
LEMMA MergeKeeps ==
  ASSUME NEW old, NEW new, NEW all, old \subseteq all, new \subseteq all
  PROVE  /\ Merge(old, new) \subseteq all
         /\ Ids(old) \subseteq Ids(Merge(old, new))
         /\ Single(old) /\ Single(new) => Single(Merge(old, new))
  BY DEF Merge, Ids, Single

\* A round of web searches yields one result of a source.
LEMMA OnePerPage ==
  ASSUME NEW tasks, NEW found \in WebSearches(tasks)
  PROVE  found \subseteq WebResults /\ Single(found)
<1>1. CASE found = {}
  BY <1>1 DEF Single
<1>2. CASE found \in WebPools
  <2>1. found \subseteq WebResults /\ \A r, s \in found : Page[r] = Page[s] => r = s
    BY <1>2 DEF WebPools, SourcePools
  <2> QED BY <2>1, IdAssumption DEF Single
<1> QED BY <1>1, <1>2 DEF WebSearches

\* What the judge puts together is what the pools hold, one result of a source.
LEMMA PoolsJoin ==
  ASSUME Typed(st), Found(st)
  PROVE  /\ Merge(Normalized(st.web) \cup st.private,
                  Merge(st.evidence \cap McpResults, st.mcp)) = Pool(st)
         /\ Pool(st) \subseteq Results /\ Single(Pool(st))
         /\ Ids(Pool(st)) \subseteq Ids(st.web) \cup Ids(st.private) \cup Ids(st.mcp)
         /\ Ids(st.evidence) \subseteq Ids(Pool(st) \cup (st.web \cap Blank))
<1> DEFINE others == Normalized(st.web) \cup st.private
<1>1. /\ st.web \subseteq WebResults /\ st.private \subseteq PrivateResults
      /\ st.mcp \subseteq McpResults /\ Single(st.web) /\ Single(st.private)
  BY DEF Typed
<1>2. others \subseteq WebResults \cup PrivateResults
  BY <1>1 DEF Normalized
<1>3. \A r \in McpResults, s \in WebResults \cup PrivateResults : Id[r] # Id[s]
  BY IdAssumption DEF Ids
<1>4. \A r \in WebResults, s \in PrivateResults : Id[r] # Id[s]
  BY IdAssumption DEF Ids
<1>5. st.evidence \cap McpResults \subseteq st.mcp
  <2> SUFFICES ASSUME NEW r \in st.evidence, r \in McpResults PROVE r \in st.mcp
    OBVIOUS
  <2>1. PICK s \in st.web \cup st.private \cup st.mcp : Id[r] = Id[s]
    BY DEF Found, Ids
  <2>2. s \in st.mcp
    BY <1>1, <1>3, <2>1
  <2>3. r = s
    BY <1>1, <2>1, <2>2, IdAssumption
  <2> QED BY <2>2, <2>3
<1>6. Merge(st.evidence \cap McpResults, st.mcp) = st.mcp
  BY <1>5 DEF Merge, Ids
<1>7. Merge(others, st.mcp) = Pool(st)
  BY <1>1, <1>2, <1>3 DEF Merge, Ids, Pool
<1>8. Pool(st) \subseteq Results
  BY <1>1, <1>2 DEF Pool, Results
<1>9. Single(Pool(st))
  <2> SUFFICES ASSUME NEW r \in Pool(st), NEW s \in Pool(st), Id[r] = Id[s] PROVE r = s
    BY DEF Single
  <2>1. CASE r \in McpResults /\ s \in McpResults
    BY <2>1, IdAssumption
  <2>2. CASE r \in st.web /\ s \in st.web
    BY <1>1, <2>2 DEF Single
  <2>3. CASE r \in st.private /\ s \in st.private
    BY <1>1, <2>3 DEF Single
  <2> QED BY <1>1, <1>3, <1>4, <2>1, <2>2, <2>3 DEF Pool, Normalized
<1>10. Ids(Pool(st)) \subseteq Ids(st.web) \cup Ids(st.private) \cup Ids(st.mcp)
  BY DEF Pool, Normalized, Ids
<1>11. Ids(st.web) \cup Ids(st.private) \cup Ids(st.mcp)
         \subseteq Ids(Pool(st) \cup (st.web \cap Blank))
  BY DEF Pool, Normalized, Ids
<1> QED BY <1>6, <1>7, <1>8, <1>9, <1>10, <1>11 DEF Found

\* The judge joins the pools of both scouts and of every earlier round.
LEMMA JudgeEvidenceAdvances == ASSUME WorkflowInv, JudgeEvidence PROVE Advance
<1> DEFINE evidence == Merge(Normalized(st.web) \cup st.private,
                             Merge(st.evidence \cap McpResults, st.mcp))
<1>1. PICK gaps \in Judgments(evidence), top \in TopPrivate(evidence) :
        /\ Pending("evidence_judge")
        /\ Return("evidence_judge", [evidence |-> evidence, top_private |-> top,
                                     gaps |-> gaps, status |-> "evidence_judged"])
  BY DEF JudgeEvidence
<1> DEFINE update == [evidence |-> evidence, top_private |-> top, gaps |-> gaps,
                      status |-> "evidence_judged"]
<1>2. Ends /\ Updated(update) /\ next' = Edges("evidence_judge", st') /\ next = {"evidence_judge"}
  BY <1>1, NodeReturns DEF Scouts, InitialState
<1>3. /\ Ready(graph, st, "evidence_judge") /\ Sound(graph, st) /\ Typed(st)
      /\ graph \in {"eight", "short"} /\ "evidence_judge" \in Nodes
  BY <1>1, NodeIsReady
<1>4. /\ evidence = Pool(st) /\ Pool(st) \subseteq Results /\ Single(Pool(st))
      /\ Ids(Pool(st)) \subseteq Ids(st.web) \cup Ids(st.private) \cup Ids(st.mcp)
      /\ Ids(st.evidence) \subseteq Ids(Pool(st) \cup (st.web \cap Blank))
  BY <1>3, PoolsJoin DEF Sound
<1>5. gaps \subseteq Gap
  BY <1>1 DEF Judgments, FallbackGaps, Gap
<1>6. st'.evidence = Pool(st) /\ st'.gaps = gaps /\ st'.status = "evidence_judged"
  BY <1>2, <1>4 DEF Updated
<1>7. Typed(st') /\ RoundsOf(graph, st') /\ Supported(st') /\ Found(st')
  BY <1>2, <1>3, <1>4, <1>5, <1>6, Channels
  DEF Sound, Typed, Updated, RoundsOf, Supported, Found
<1>8. st'.evidence = Pool(st')
  BY <1>2, <1>3, <1>6, Channels DEF Pool
<1>9. graph = "eight" /\ next' = {"analyst"}
  BY <1>2, <1>3 DEF Edges, EightAgentEdges, Nodes, ShortGraphNodes
<1>10. Position(graph, st', next')
  BY <1>2, <1>3, <1>6, <1>8, <1>9, Channels
  DEF Position, Supersteps, EightAgentNodes, Ready, Sound
<1>11. Grows(st, st')
  <2>1. /\ st'.web = st.web /\ st'.private = st.private /\ st'.mcp = st.mcp
        /\ st'.outcomes = st.outcomes /\ st'.attempted = st.attempted
        /\ st'.iteration = st.iteration /\ st.iteration <= st.iteration
    BY <1>2, <1>3, Channels, BoundsAssumption DEF Typed
  <2> QED BY <1>4, <1>6, <2>1 DEF Grows
<1>12. Spends
  <2>1. graph = "eight" /\ next = {"evidence_judge"} /\ next' = {"analyst"}
    BY <1>2, <1>9
  <2>2. st'.iteration = st.iteration
    BY <1>2, <1>3, Channels
  <2>3. Typed(st) /\ Typed(st')
    BY <1>3, <1>7 DEF Sound
  <2> QED BY <2>1, <2>2, <2>3, EightSpends
<1> QED BY <1>2, <1>7, <1>9, <1>10, <1>11, <1>12 DEF Advance, Good, Sound

\* The analyst leaves an analysis.
LEMMA AnalyzeAdvances == ASSUME WorkflowInv, Analyze PROVE Advance
<1>1. PICK analysis \in Analyses :
        /\ Pending("analyst") /\ graph = "eight"
        /\ Return("analyst", [analysis |-> analysis, status |-> "analysis_completed"])
  BY DEF Analyze
<1> DEFINE update == [analysis |-> analysis, status |-> "analysis_completed"]
<1>2. Ends /\ Updated(update) /\ next' = Edges("analyst", st') /\ next = {"analyst"}
  BY <1>1, NodeReturns DEF Scouts, InitialState
<1>3. Ready(graph, st, "analyst") /\ Sound(graph, st) /\ Typed(st)
  BY <1>1, NodeIsReady
<1>4. analysis \in Analysis
  <2>1. GapSets \subseteq SUBSET Gap
    BY DEF Gap
  <2>2. [needs_more_research : BOOLEAN, gaps : GapSets] \subseteq Analysis
    BY <2>1 DEF Analysis
  <2>3. [needs_more_research |-> FALSE, gaps |-> {}] \in Analysis
    BY DEF Analysis
  <2> QED BY <2>2, <2>3 DEF Analyses
<1>5. st'.analysis = analysis /\ st'.status = "analysis_completed"
  BY <1>2 DEF Updated
<1>6. Sound(graph, st')
  BY <1>2, <1>3, <1>4, <1>5, Channels
  DEF Sound, Typed, Updated, RoundsOf, Supported, Found
<1>7. next' = {"reflect"}
  BY <1>1, <1>2 DEF Edges, EightAgentEdges
<1>8. Position(graph, st', next')
  BY <1>1, <1>2, <1>3, <1>4, <1>5, <1>7, Channels
  DEF Position, Supersteps, EightAgentNodes, Ready, Sound, Pool
<1>9. Grows(st, st')
  BY <1>2, <1>3, Channels DEF Grows, Ids, Sound, Typed
<1>10. Spends
  <2>1. graph = "eight" /\ next = {"analyst"} /\ next' = {"reflect"}
    BY <1>1, <1>2, <1>7
  <2>2. st'.iteration = st.iteration
    BY <1>2, <1>3, Channels
  <2>3. Typed(st) /\ Typed(st')
    BY <1>3, <1>6 DEF Sound
  <2> QED BY <2>1, <2>2, <2>3, EightSpends
<1> QED BY <1>2, <1>6, <1>7, <1>8, <1>9, <1>10 DEF Advance, Good, Sound

\* A follow-up round searches nothing that was attempted.
LEMMA FollowUpsAreNew ==
  ASSUME Typed(st), st.analysis \in Analysis, NEW wanted \in FollowUps
  PROVE  wanted \subseteq Gap /\ \A q \in wanted : q.query \notin st.attempted
<1>1. ASSUME NEW gaps \in SUBSET Gap
      PROVE  /\ Unattempted(gaps) \subseteq Gap
             /\ \A q \in Unattempted(gaps) : q.query \notin st.attempted
  BY DEF Unattempted
<1>2. ASSUME NEW gaps \in SUBSET Gap, wanted \in FallbackFollowUps(gaps)
      PROVE  wanted \subseteq Unattempted(gaps)
  BY <1>2 DEF FallbackFollowUps, kSubset
<1>3. st.gaps \cup st.analysis.gaps \in SUBSET Gap
  BY DEF Typed, Analysis
<1>4. ASSUME NEW answer \in GapSets PROVE answer \in SUBSET Gap
  BY DEF Gap
<1>5. CASE wanted = {}
  BY <1>5
<1>6. CASE wanted \in {Unattempted(answer) : answer \in GapSets}
  BY <1>1, <1>4, <1>6
<1>7. CASE wanted \in FallbackFollowUps(st.gaps \cup st.analysis.gaps)
  BY <1>1, <1>2, <1>3, <1>7
<1> QED BY <1>5, <1>6, <1>7 DEF FollowUps

\* Reflection opens a round within the budget, or lets the Writer begin.
LEMMA ReflectAdvances == ASSUME WorkflowInv, Reflect PROVE Advance
<1>1. PICK wanted \in FollowUps :
       LET queries == IF Exhausted(st.iteration) THEN {} ELSE wanted
       IN /\ Pending("reflect")
          /\ Return("reflect",
                 [supplementary |-> queries,
                  attempted |-> st.attempted \cup {q.query : q \in queries},
                  iteration |-> IF queries = {} THEN st.iteration
                                ELSE st.iteration + 1,
                  status |-> IF queries = {} THEN "analysis_approved_for_writing"
                             ELSE "supplementary_research_required"])
  BY DEF Reflect
<1> DEFINE queries == IF Exhausted(st.iteration) THEN {} ELSE wanted
           update == [supplementary |-> queries,
                      attempted |-> st.attempted \cup {q.query : q \in queries},
                      iteration |-> IF queries = {} THEN st.iteration
                                    ELSE st.iteration + 1,
                      status |-> IF queries = {} THEN "analysis_approved_for_writing"
                                 ELSE "supplementary_research_required"]
<1>2. Pending("reflect") /\ Return("reflect", update)
  BY <1>1
<1>3. Ends /\ Updated(update) /\ next' = Edges("reflect", st') /\ next = {"reflect"}
  BY <1>2, NodeReturns DEF Scouts, InitialState
<1>4. /\ Ready(graph, st, "reflect") /\ Sound(graph, st) /\ Typed(st)
      /\ graph \in {"eight", "short"} /\ "reflect" \in Nodes
  BY <1>2, NodeIsReady
<1>5. graph = "eight" /\ st.analysis \in Analysis
  BY <1>4 DEF Nodes, ShortGraphNodes, Ready
<1>6. /\ st'.supplementary = queries
      /\ st'.attempted = st.attempted \cup {q.query : q \in queries}
      /\ st'.iteration = IF queries = {} THEN st.iteration ELSE st.iteration + 1
      /\ st'.status \in {"analysis_approved_for_writing", "supplementary_research_required"}
  BY <1>3 DEF Updated
<1>7. queries \subseteq Gap /\ \A q \in queries : q.query \notin st.attempted
  BY <1>4, <1>5, FollowUpsAreNew
<1>8. /\ st.iteration \in Nat /\ st'.iteration \in Nat /\ st'.iteration \in 0..MaxIterations
      /\ st.iteration <= st'.iteration
      /\ queries # {} => st'.iteration # 0
  BY <1>4, <1>6, BoundsAssumption DEF Typed, Exhausted
<1> HIDE DEF queries, update
<1>9. /\ st'.evidence = st.evidence /\ st'.outcomes = st.outcomes /\ st'.web = st.web
      /\ st'.private = st.private /\ st'.mcp = st.mcp /\ st'.route = st.route
      /\ st'.report = st.report /\ st'.plan = st.plan /\ st'.gaps = st.gaps
      /\ st'.is_high_risk_domain = st.is_high_risk_domain /\ st'.analysis = st.analysis
      /\ st'.decision = st.decision /\ st'.reflection_attempts = st.reflection_attempts
      /\ DOMAIN st' = DOMAIN st
  BY <1>3, <1>4, Channels DEF Updated, update
<1>10. Typed(st') /\ Supported(st') /\ Found(st')
  BY <1>4, <1>6, <1>7, <1>8, <1>9 DEF Sound, Typed, Supported, Found
<1>11. RoundsOf(graph, st')
  <2>1. /\ \A a, b \in st.outcomes : a.query = b.query => a.round = b.round
        /\ \A o \in st.outcomes : o.round \in Nat /\ o.round <= st.iteration
        /\ \A o \in st.outcomes : o.query \in st.attempted
    BY <1>4, <1>5 DEF Sound, RoundsOf, Typed
  <2>2. \A o \in st.outcomes : o.round <= st'.iteration
    <3> SUFFICES ASSUME NEW o \in st.outcomes PROVE o.round <= st'.iteration
      OBVIOUS
    <3>1. o.round \in Nat /\ o.round <= st.iteration
      BY <2>1
    <3> QED BY <3>1, <1>8
  <2>3. \A q \in st'.supplementary : q.query \in st'.attempted
    BY <1>6
  <2>4. \A o \in st'.outcomes : o.query \in st'.attempted
    BY <2>1, <1>6, <1>9
  <2> QED BY <2>1, <2>2, <2>3, <2>4, <1>9 DEF RoundsOf
<1>12. next' = {IF queries = {} THEN "writer" ELSE "research_dispatch"}
  BY <1>3, <1>5, <1>6 DEF Edges, EightAgentEdges, SelectEightAgentReflectionPath
<1>13. queries # {} => NewRound(st')
  BY <1>4, <1>5, <1>6, <1>7, <1>8, <1>9 DEF NewRound, Sound, RoundsOf
<1>14. Position(graph, st', next')
  BY <1>4, <1>5, <1>6, <1>9, <1>12, <1>13
  DEF Position, Supersteps, EightAgentNodes, Ready, Sound, Pool
<1>15. Grows(st, st')
  BY <1>6, <1>8, <1>9 DEF Grows, Ids
<1>16. Spends
  <2>1. next = {"reflect"} /\ Typed(st) /\ Typed(st')
    BY <1>3, <1>4, <1>10
  <2>2. CASE queries = {}
    <3>1. st'.iteration = st.iteration /\ next' = {"writer"}
      BY <1>6, <1>12, <2>2
    <3> QED BY <1>5, <2>1, <3>1, EightSpends
  <2>3. CASE queries # {}
    <3>1. st'.iteration = st.iteration + 1 /\ next' = {"research_dispatch"}
      BY <1>6, <1>12, <2>3
    <3> QED BY <1>5, <2>1, <3>1, EightSpends
  <2> QED BY <2>2, <2>3
<1> QED BY <1>3, <1>10, <1>11, <1>12, <1>14, <1>15, <1>16 DEF Advance, Good, Sound

\* Both scouts are sent out again.
LEMMA DispatchAdvances == ASSUME WorkflowInv, Dispatch PROVE Advance
<1>1. Pending("research_dispatch") /\ Return("research_dispatch", <<>>)
  BY DEF Dispatch
<1>2. DOMAIN <<>> = {}
  OBVIOUS
<1>3. /\ Ends /\ Updated(<<>>) /\ next' = Edges("research_dispatch", st')
      /\ next = {"research_dispatch"}
  BY <1>1, <1>2, NodeReturns DEF Scouts
<1>4. /\ Ready(graph, st, "research_dispatch") /\ Sound(graph, st) /\ Typed(st)
      /\ graph \in {"eight", "short"} /\ "research_dispatch" \in Nodes
  BY <1>1, NodeIsReady
<1>5. graph = "eight" /\ next' = {"web_scout", "local_scout"}
  BY <1>3, <1>4 DEF Edges, EightAgentEdges, Nodes, ShortGraphNodes
<1>6. Sound(graph, st')
  BY <1>2, <1>3, <1>4, Channels
  DEF Sound, Typed, Updated, RoundsOf, Supported, Found
<1>7. NewRound(st')
  BY <1>2, <1>3, <1>4, Channels DEF NewRound, Ready, Sound
<1>8. Position(graph, st', next')
  BY <1>2, <1>3, <1>4, <1>5, <1>7, Channels DEF Position, Supersteps, Ready, Sound
<1>9. Grows(st, st')
  BY <1>2, <1>3, <1>4, Channels DEF Grows, Ids, Sound, Typed
<1>10. Spends
  <2>1. graph = "eight" /\ next = {"research_dispatch"} /\ next' = Scouts
    BY <1>3, <1>5 DEF Scouts
  <2>2. st'.iteration = st.iteration
    BY <1>2, <1>3, <1>4, Channels
  <2>3. Typed(st) /\ Typed(st')
    BY <1>4, <1>6 DEF Sound
  <2> QED BY <2>1, <2>2, <2>3, EightSpends
<1> QED BY <1>3, <1>5, <1>6, <1>8, <1>9, <1>10 DEF Advance, Good, Sound

\* The gate approves a report that the evidence supports, and no other.
LEMMA ApprovedIsSupported ==
  ASSUME NEW report \in Report, NEW evidence \in SUBSET Results,
         st.is_high_risk_domain \in BOOLEAN
  PROVE  /\ Review(report, evidence) \in Decision
         /\ Review(report, evidence).status = "approved" =>
              /\ report.cited # {} /\ report.cited \subseteq Ids(evidence) /\ ~report.uncited
              /\ Cardinality(evidence) >= MinimumSources
<1>1. Review(report, evidence) \in Decision
  BY DEF Review, Decision
<1>2. Cardinality(evidence) \in Nat
  BY BoundsAssumption, FS_Subset, FS_CardinalityType
<1>3. ASSUME Review(report, evidence).status = "approved"
      PROVE  /\ ~(Cardinality(evidence) < MinimumSources)
             /\ UnknownSources(report, evidence) = {}
             /\ ~report.uncited /\ report.cited # {}
  BY <1>3 DEF Review
<1>4. ASSUME ~(Cardinality(evidence) < MinimumSources)
      PROVE  Cardinality(evidence) >= MinimumSources
  BY <1>2, <1>4, BoundsAssumption
<1>5. UnknownSources(report, evidence) = {} => report.cited \subseteq Ids(evidence)
  BY DEF UnknownSources
<1> QED BY <1>1, <1>3, <1>4, <1>5

\* The Writer ends the run, with a report the gate approved or its last attempt.
LEMMA WriterAdvances ==
  ASSUME WorkflowInv, Writer
  PROVE  Advance /\ next' = {} /\ drafts' = drafts + 1
<1>1. PICK report \in Report :
        /\ Pending("writer")
        /\ \/ Review(report, st.evidence).status = "approved"
           \/ drafts + 1 = MaxWriterAttempts
        /\ Return("writer",
                  [report |-> report, answered |-> TRUE,
                   decision |-> Review(report, st.evidence),
                   reflection_attempts |-> ReflectionAttempts(Review(report, st.evidence)),
                   status |-> ReportStatus(Review(report, st.evidence))])
  BY DEF Writer
<1> DEFINE decision == Review(report, st.evidence)
           update == [report |-> report, answered |-> TRUE, decision |-> decision,
                      reflection_attempts |-> ReflectionAttempts(decision),
                      status |-> ReportStatus(decision)]
<1>2. Ends /\ Updated(update) /\ next' = Edges("writer", st') /\ next = {"writer"}
  BY <1>1, NodeReturns DEF Scouts, InitialState
<1>3. /\ Ready(graph, st, "writer") /\ Sound(graph, st) /\ Typed(st)
      /\ graph \in {"eight", "short"} /\ "writer" \in Nodes
  BY <1>1, NodeIsReady
<1>4. /\ st'.report = report /\ st'.decision = decision /\ st'.status = ReportStatus(decision)
      /\ st'.reflection_attempts = ReflectionAttempts(decision)
  BY <1>2 DEF Updated
<1>5. st'.answered
  BY <1>2 DEF Updated
<1>6. st.evidence \in SUBSET Results
  BY <1>3 DEF Typed
<1>7. /\ decision \in Decision
      /\ decision.status = "approved" =>
           /\ report.cited # {} /\ report.cited \subseteq Ids(st.evidence) /\ ~report.uncited
           /\ Cardinality(st.evidence) >= MinimumSources
  BY <1>3, <1>6, ApprovedIsSupported DEF Typed
<1> HIDE DEF decision
<1>8. ReflectionAttempts(decision) \in Nat
  BY BoundsAssumption DEF ReflectionAttempts
<1>9. /\ ReportStatus(decision) = "research_report_completed"
           <=> decision.status = "approved"
      /\ ReportStatus(decision) = "research_report_revision_required"
           <=> decision.status = "revise"
  BY <1>7 DEF ReportStatus, Decision
<1>10. /\ st'.evidence = st.evidence /\ st'.outcomes = st.outcomes /\ st'.web = st.web
       /\ st'.private = st.private /\ st'.mcp = st.mcp /\ st'.route = st.route
       /\ st'.supplementary = st.supplementary /\ st'.attempted = st.attempted
       /\ st'.iteration = st.iteration
  BY <1>2, <1>3, Channels
<1>11. Typed(st')
  BY <1>2, <1>3, <1>4, <1>7, <1>8, Channels DEF Typed, Updated
<1>12. RoundsOf(graph, st')
  BY <1>3, <1>10 DEF Sound, RoundsOf
<1>13. Supported(st') /\ Found(st')
  BY <1>3, <1>4, <1>5, <1>7, <1>9, <1>10 DEF Sound, Supported, Found
<1>14. st'.evidence = Pool(st') /\ graph = "eight"
  BY <1>3, <1>10 DEF Ready, Pool, Nodes, ShortGraphNodes
<1>15. next' = {}
  BY <1>2, <1>14 DEF Edges, EightAgentEdges
<1>16. (st'.route = "deep_research") /\ st'.report # None
  BY <1>3, <1>4, <1>10, NoneAssumption DEF Ready
<1>17. /\ drafts' = drafts + 1
       /\ st'.status = "research_report_revision_required" => drafts' = MaxWriterAttempts
  BY <1>1, <1>4, <1>7, <1>9 DEF Writer, decision
<1>18. Finished(graph, st', drafts')
  BY <1>5, <1>14, <1>16, <1>17 DEF Finished
<1>19. Grows(st, st')
  BY <1>3, <1>10 DEF Grows, Ids, Typed
<1>20. Spends
  BY <1>15 DEF Spends
<1> QED BY <1>2, <1>11, <1>12, <1>13, <1>15, <1>17, <1>18, <1>19, <1>20 DEF Advance, Good, Sound

-----------------------------------------------------------------------------
(* The short graph                                                            *)

\* The short graph's planner leaves the plan.
LEMMA PlannerNodeAdvances == ASSUME WorkflowInv, PlannerNode PROVE Advance
<1> DEFINE update == [plan |-> PlanQueries, status |-> "research_plan_ready"]
<1>1. Pending("planner") /\ graph = "short" /\ Return("planner", update)
  BY DEF PlannerNode
<1>2. Ends /\ Updated(update) /\ next' = Edges("planner", st') /\ next = {"planner"}
  BY <1>1, NodeReturns DEF Scouts, InitialState
<1>3. Ready(graph, st, "planner") /\ Sound(graph, st) /\ Typed(st)
  BY <1>1, NodeIsReady
<1>4. st'.plan = PlanQueries /\ st'.status = "research_plan_ready"
  BY <1>2 DEF Updated
<1>5. Sound(graph, st')
  BY <1>2, <1>3, <1>4, Channels
  DEF Sound, Typed, Updated, RoundsOf, Supported, Found
<1>6. next' = {"web_search"}
  BY <1>1, <1>2 DEF Edges, ShortGraphEdges
<1>7. Position(graph, st', next')
  BY <1>1, <1>2, <1>3, <1>4, <1>6, Channels
  DEF Position, Supersteps, ShortGraphNodes, Ready, Empty
<1>8. Grows(st, st')
  BY <1>2, <1>3, Channels DEF Grows, Ids, Sound, Typed
<1>9. Spends
  <2>1. graph = "short" /\ next = {"planner"} /\ next' = {"web_search"}
    BY <1>1, <1>2, <1>6
  <2>2. st'.reflection_attempts = st.reflection_attempts
    BY <1>2, <1>3, Channels
  <2>3. Typed(st) /\ Typed(st') /\ st.reflection_attempts <= MaxReflectionAttempts
    BY <1>1, <1>3, <1>5, BoundsAssumption DEF Sound, Ready, Typed
  <2> QED BY <2>1, <2>2, <2>3, ShortSpends
<1> QED BY <1>2, <1>5, <1>6, <1>7, <1>8, <1>9 DEF Advance, Good, Sound

\* The only search of the short graph fills pools that were empty.
LEMMA WebSearchAdvances == ASSUME WorkflowInv, WebSearch PROVE Advance
<1>1. PICK found \in WebSearches(st.plan) :
        /\ Pending("web_search")
        /\ \E status \in {"web_search_failed", "web_search_empty",
                          "web_search_partial", "web_search_completed"} :
             Return("web_search", [outcomes |-> Outcomes(st.plan), web |-> found,
                                   status |-> status])
  BY DEF WebSearch
<1>2. PICK status \in {"web_search_failed", "web_search_empty",
                       "web_search_partial", "web_search_completed"} :
             Return("web_search", [outcomes |-> Outcomes(st.plan), web |-> found,
                                   status |-> status])
  BY <1>1
<1> DEFINE update == [outcomes |-> Outcomes(st.plan), web |-> found, status |-> status]
<1>3. Ends /\ Updated(update) /\ next' = Edges("web_search", st') /\ next = {"web_search"}
  BY <1>1, <1>2, NodeReturns DEF Scouts, InitialState
<1>4. /\ Ready(graph, st, "web_search") /\ Sound(graph, st) /\ Typed(st)
      /\ graph \in {"eight", "short"} /\ "web_search" \in Nodes
  BY <1>1, NodeIsReady
<1>5. st'.outcomes = Outcomes(st.plan) /\ st'.web = found /\ st'.status = status
  BY <1>3 DEF Updated
<1>6. found \subseteq WebResults /\ Single(found)
  BY <1>1, OnePerPage
<1>7. Empty(st) /\ graph = "short"
  BY <1>4 DEF Ready, Nodes, EightAgentNodes
<1>8. \A o \in Outcomes(st.plan) : o.round = 0
  BY <1>7 DEF Outcomes, Empty
<1>9. /\ st'.private = {} /\ st'.mcp = {} /\ st'.evidence = {} /\ st'.attempted = {}
      /\ st'.supplementary = {} /\ st'.iteration = 0 /\ st'.route = st.route
  BY <1>3, <1>4, <1>7, Channels DEF Empty
<1>10. Typed(st')
  BY <1>3, <1>4, <1>5, <1>6, <1>8, Channels DEF Typed, Updated
<1>11. RoundsOf(graph, st')
  BY <1>5, <1>7, <1>8, <1>9 DEF RoundsOf
<1>12. Supported(st') /\ Found(st')
  BY <1>5, <1>9 DEF Supported, Found, Ids
<1>13. next' = {"evidence"}
  BY <1>3, <1>7 DEF Edges, ShortGraphEdges
<1>14. Position(graph, st', next')
  <2>1. st'.reflection_attempts < MaxReflectionAttempts
    BY <1>3, <1>4, <1>7, Channels DEF Ready
  <2> QED BY <1>4, <1>5, <1>7, <1>9, <1>13, <2>1 DEF Position, Supersteps, ShortGraphNodes, Ready
<1>15. Grows(st, st')
  BY <1>5, <1>7, <1>9 DEF Grows, Ids, Empty
<1>16. Spends
  <2>1. graph = "short" /\ next = {"web_search"} /\ next' = {"evidence"}
    BY <1>3, <1>7, <1>13
  <2>2. st'.reflection_attempts = st.reflection_attempts
    BY <1>3, <1>4, Channels
  <2>3. Typed(st) /\ Typed(st') /\ st.reflection_attempts <= MaxReflectionAttempts
    BY <1>4, <1>7, <1>10, BoundsAssumption DEF Sound, Ready, Typed
  <2> QED BY <2>1, <2>2, <2>3, ShortSpends
<1> QED BY <1>3, <1>10, <1>11, <1>12, <1>13, <1>14, <1>15, <1>16 DEF Advance, Good, Sound

\* Its evidence is what the search found and has content.
LEMMA ScoreEvidenceAdvances == ASSUME WorkflowInv, ScoreEvidence PROVE Advance
<1>0. PICK top \in TopPrivate(Normalized(st.web)) :
        /\ Pending("evidence")
        /\ Return("evidence", [evidence |-> Normalized(st.web), top_private |-> top,
                               status |-> "evidence_scored"])
  BY DEF ScoreEvidence
<1> DEFINE update == [evidence |-> Normalized(st.web), top_private |-> top,
                      status |-> "evidence_scored"]
<1>1. Pending("evidence") /\ Return("evidence", update)
  BY <1>0
<1>2. Ends /\ Updated(update) /\ next' = Edges("evidence", st') /\ next = {"evidence"}
  BY <1>1, NodeReturns DEF Scouts, InitialState
<1>3. /\ Ready(graph, st, "evidence") /\ Sound(graph, st) /\ Typed(st)
      /\ graph \in {"eight", "short"} /\ "evidence" \in Nodes
  BY <1>1, NodeIsReady
<1>4. graph = "short" /\ st.evidence = {}
  BY <1>3 DEF Nodes, EightAgentNodes, Ready
<1>5. st'.evidence = Normalized(st.web) /\ st'.status = "evidence_scored"
  BY <1>2 DEF Updated
<1>6. Sound(graph, st')
  BY <1>2, <1>3, <1>5, Channels
  DEF Sound, Typed, Updated, RoundsOf, Supported, Found, Single, Ids, Normalized, Results
<1>7. next' = {"analyst"}
  BY <1>2, <1>4 DEF Edges, ShortGraphEdges
<1>8. Position(graph, st', next')
  BY <1>2, <1>3, <1>4, <1>5, <1>7, Channels
  DEF Position, Supersteps, ShortGraphNodes, Ready
<1>9. Grows(st, st')
  BY <1>2, <1>3, <1>4, Channels DEF Grows, Ids, Typed
<1>10. Spends
  <2>1. graph = "short" /\ next = {"evidence"} /\ next' = {"analyst"}
    BY <1>2, <1>4, <1>7
  <2>2. st'.reflection_attempts = st.reflection_attempts
    BY <1>2, <1>3, Channels
  <2>3. Typed(st) /\ Typed(st') /\ st.reflection_attempts <= MaxReflectionAttempts
    BY <1>3, <1>4, <1>6, BoundsAssumption DEF Sound, Ready, Typed
  <2> QED BY <2>1, <2>2, <2>3, ShortSpends
<1> QED BY <1>2, <1>6, <1>7, <1>8, <1>9, <1>10 DEF Advance, Good, Sound

\* Every report of its analyst is an attempt, and not yet completed.
LEMMA GenerateReportAdvances == ASSUME WorkflowInv, GenerateReport PROVE Advance
<1>1. PICK report \in Report :
        /\ Pending("analyst") /\ graph = "short"
        /\ Return("analyst", [report |-> report, status |-> "report_generated",
                             reflection_attempts |-> st.reflection_attempts + 1])
  BY DEF GenerateReport
<1> DEFINE update == [report |-> report, status |-> "report_generated",
                      reflection_attempts |-> st.reflection_attempts + 1]
<1>2. Ends /\ Updated(update) /\ next' = Edges("analyst", st') /\ next = {"analyst"}
  BY <1>1, NodeReturns DEF Scouts, InitialState
<1>3. Ready(graph, st, "analyst") /\ Sound(graph, st) /\ Typed(st)
  BY <1>1, NodeIsReady
<1>4. /\ st'.report = report /\ st'.status = "report_generated"
      /\ st'.reflection_attempts = st.reflection_attempts + 1
  BY <1>2 DEF Updated
<1>5. Sound(graph, st')
  BY <1>2, <1>3, <1>4, Channels
  DEF Sound, Typed, Updated, RoundsOf, Supported, Found
<1>6. next' = {"reflection"}
  BY <1>1, <1>2 DEF Edges, ShortGraphEdges
<1>7. Position(graph, st', next')
  <2>1. st'.reflection_attempts <= MaxReflectionAttempts
    BY <1>1, <1>3, <1>4, BoundsAssumption DEF Ready, Typed
  <2> QED BY <1>1, <1>2, <1>3, <1>4, <1>6, <2>1, Channels
          DEF Position, Supersteps, ShortGraphNodes, Ready
<1>8. Grows(st, st')
  BY <1>2, <1>3, Channels DEF Grows, Ids, Sound, Typed
<1>9. Spends
  <2>1. graph = "short" /\ next = {"analyst"} /\ next' = {"reflection"}
    BY <1>1, <1>2, <1>6
  <2>2. Typed(st) /\ Typed(st') /\ st.reflection_attempts <= MaxReflectionAttempts
    BY <1>1, <1>3, <1>5, BoundsAssumption DEF Sound, Ready, Typed
  <2> QED BY <1>4, <2>1, <2>2, ShortSpends
<1> QED BY <1>2, <1>5, <1>6, <1>7, <1>8, <1>9 DEF Advance, Good, Sound

\* A refused report goes back to the analyst while an attempt is left.
LEMMA ReviewReportAdvances == ASSUME WorkflowInv, ReviewReport PROVE Advance
<1> DEFINE decision == Review(st.report, st.evidence)
           update == [answered |-> TRUE, decision |-> decision, status |-> ReportStatus(decision)]
<1>1. Pending("reflection") /\ Return("reflection", update)
  BY DEF ReviewReport
<1>2. Ends /\ Updated(update) /\ next' = Edges("reflection", st') /\ next = {"reflection"}
  BY <1>1, NodeReturns DEF Scouts, InitialState
<1>3. /\ Ready(graph, st, "reflection") /\ Sound(graph, st) /\ Typed(st)
      /\ graph \in {"eight", "short"} /\ "reflection" \in Nodes
  BY <1>1, NodeIsReady
<1>4. st'.decision = decision /\ st'.status = ReportStatus(decision)
  BY <1>2 DEF Updated
<1>5. st'.answered
  BY <1>2 DEF Updated
<1>6. st.evidence \in SUBSET Results /\ st.report \in Report
  BY <1>3 DEF Typed, Ready
<1>7. /\ decision \in Decision
      /\ decision.status = "approved" =>
           /\ st.report.cited # {} /\ st.report.cited \subseteq Ids(st.evidence)
           /\ ~st.report.uncited
           /\ Cardinality(st.evidence) >= MinimumSources
  BY <1>3, <1>6, ApprovedIsSupported DEF Typed
<1> HIDE DEF decision
<1>8. /\ ReportStatus(decision) = "research_report_completed"
           <=> decision.status = "approved"
      /\ ReportStatus(decision) = "research_report_revision_required"
           <=> decision.status = "revise"
  BY <1>7 DEF ReportStatus, Decision
<1>9. /\ st'.evidence = st.evidence /\ st'.outcomes = st.outcomes /\ st'.web = st.web
      /\ st'.private = st.private /\ st'.mcp = st.mcp /\ st'.route = st.route
      /\ st'.supplementary = st.supplementary /\ st'.attempted = st.attempted
      /\ st'.iteration = st.iteration /\ st'.report = st.report
      /\ st'.reflection_attempts = st.reflection_attempts
  BY <1>2, <1>3, Channels
<1>10. Typed(st')
  BY <1>2, <1>3, <1>4, <1>7, Channels DEF Typed, Updated
<1>11. RoundsOf(graph, st')
  BY <1>3, <1>9 DEF Sound, RoundsOf
<1>12. Supported(st')
  BY <1>4, <1>5, <1>7, <1>8, <1>9 DEF Supported
<1>13. Found(st') /\ graph = "short"
  BY <1>3, <1>9 DEF Sound, Found, Nodes, EightAgentNodes
<1>14. next' = IF decision.status = "revise" /\ st.reflection_attempts < MaxReflectionAttempts
               THEN {"analyst"} ELSE {}
  BY <1>2, <1>4, <1>9, <1>13 DEF Edges, ShortGraphEdges, SelectReflectionPath
<1>15. ASSUME next' = {} PROVE Finished(graph, st', drafts')
  <2>1. (st'.route = "deep_research") /\ st'.report # None
    BY <1>3, <1>6, <1>9, NoneAssumption DEF Ready
  <2>2. st'.status = "research_report_revision_required" =>
          st'.reflection_attempts >= MaxReflectionAttempts
    BY <1>3, <1>4, <1>8, <1>9, <1>14, <1>15, BoundsAssumption DEF Typed
  <2> QED BY <1>5, <1>13, <1>15, <2>1, <2>2 DEF Finished
<1>16. ASSUME next' # {} PROVE Position(graph, st', next')
  <2>1. /\ next' = {"analyst"} /\ decision.status = "revise"
        /\ st'.reflection_attempts < MaxReflectionAttempts
    BY <1>9, <1>14, <1>16
  <2>2. st'.status # "research_report_completed"
    BY <1>4, <1>8, <2>1
  <2> QED BY <1>3, <1>9, <1>13, <2>1, <2>2 DEF Position, Supersteps, ShortGraphNodes, Ready
<1>17. IF next' = {} THEN Finished(graph, st', drafts') ELSE Position(graph, st', next')
  BY <1>15, <1>16
<1>18. Grows(st, st')
  BY <1>3, <1>9 DEF Grows, Ids, Typed
<1>19. Spends
  <2>1. CASE next' = {}
    BY <2>1 DEF Spends
  <2>2. CASE next' = {"analyst"}
    <3>1. Typed(st) /\ Typed(st') /\ st.reflection_attempts <= MaxReflectionAttempts
      BY <1>3, <1>10 DEF Ready
    <3> QED BY <1>2, <1>9, <1>13, <2>2, <3>1, ShortSpends
  <2> QED BY <1>14, <2>1, <2>2
<1> QED BY <1>2, <1>10, <1>11, <1>12, <1>13, <1>17, <1>18, <1>19 DEF Advance, Good, Sound

-----------------------------------------------------------------------------
(* The scouts                                                                 *)

\* What a round searches was attempted, but in no earlier round.
LEMMA TasksAreNew ==
  ASSUME Typed(st), RoundsOf(graph, st), NewRound(st), NEW source,
         NEW q \in Tasks(source)
  PROVE  q \in st.attempted /\ \A o \in st.outcomes : o.query # q
<1>1. CASE st.iteration = 0 \/ st.supplementary = {}
  BY <1>1 DEF Tasks, NewRound
<1>2. CASE ~(st.iteration = 0 \/ st.supplementary = {})
  <2>1. PICK item \in st.supplementary : q = item.query
    BY <1>2 DEF Tasks
  <2> QED BY <1>2, <2>1 DEF NewRound, RoundsOf
<1> QED BY <1>1, <1>2

\* The web scout adds to what it read when the superstep began.
LEMMA WebScoutFits ==
  ASSUME WorkflowInv, Pending("web_scout"),
         NEW found \in WebSearches(Tasks("web")), NEW mcp \in McpScout(Tasks("web"))
  PROVE  ScoutFits(st, "web_scout",
                   [outcomes |-> st.outcomes \cup Outcomes(Tasks("web")),
                    web |-> Merge(st.web, found), mcp |-> Merge(st.mcp, mcp)])
<1>1. Ready(graph, st, "web_scout") /\ RoundsOf(graph, st) /\ Typed(st)
  BY NodeIsReady
<1>2. /\ found \subseteq WebResults /\ Single(found) /\ mcp \subseteq McpResults
      /\ Single(st.web)
  BY <1>1, OnePerPage DEF McpScout, Typed
<1>3. NewRound(st)
  BY <1>1 DEF Ready
<1>4. ASSUME NEW o \in Outcomes(Tasks("web"))
      PROVE  /\ o.round = st.iteration /\ o.query \in st.attempted
             /\ \A p \in st.outcomes : p.query # o.query
  <2>1. PICK q \in Tasks("web") : o = [round |-> st.iteration, query |-> q]
    BY <1>4 DEF Outcomes
  <2>2. q \in st.attempted /\ \A p \in st.outcomes : p.query # q
    BY <1>1, <1>3, TasksAreNew
  <2> QED BY <2>1, <2>2
<1>5. RoundFits(st, st.outcomes \cup Outcomes(Tasks("web")))
  BY <1>4 DEF RoundFits
<1>6. /\ Merge(st.web, found) \subseteq WebResults /\ Merge(st.mcp, mcp) \subseteq McpResults
      /\ Single(Merge(st.web, found))
      /\ Ids(st.web) \subseteq Ids(Merge(st.web, found))
      /\ Ids(st.mcp) \subseteq Ids(Merge(st.mcp, mcp))
  BY <1>1, <1>2, MergeKeeps DEF Typed
<1> QED BY <1>5, <1>6 DEF ScoutFits

\* So does the local scout.
LEMMA LocalScoutFits ==
  ASSUME WorkflowInv, Pending("local_scout"), NEW found \in LocalSearches(Tasks("private"))
  PROVE  ScoutFits(st, "local_scout", [private |-> Merge(st.private, found)])
<1>1. Typed(st)
  BY NodeIsReady
<1>2. found \subseteq PrivateResults /\ Single(found) /\ Single(st.private)
  BY <1>1 DEF LocalSearches, PrivatePools, Single, Typed
<1>3. /\ Merge(st.private, found) \subseteq PrivateResults /\ Single(Merge(st.private, found))
      /\ Ids(st.private) \subseteq Ids(Merge(st.private, found))
  BY <1>1, <1>2, MergeKeeps DEF Typed
<1> QED BY <1>3 DEF ScoutFits

\* Outcomes of a new round join those of the earlier ones.
LEMMA RoundJoins ==
  ASSUME RoundsOf(graph, st), Typed(st), NEW found, RoundFits(st, found)
  PROVE  /\ \A a, b \in found : a.query = b.query => a.round = b.round
         /\ \A o \in found : o.round \in Nat /\ o.round <= st.iteration
         /\ graph = "eight" => \A o \in found : o.query \in st.attempted
<1>1. st.iteration \in Nat /\ st.iteration <= st.iteration
  BY BoundsAssumption DEF Typed
<1>2. \A o \in found : o.round \in Nat /\ o.round <= st.iteration
  BY <1>1 DEF RoundFits, RoundsOf, Typed
<1>3. ASSUME NEW a \in found, NEW b \in found, a.query = b.query PROVE a.round = b.round
  BY <1>3 DEF RoundFits, RoundsOf
<1> QED BY <1>2, <1>3 DEF RoundFits, RoundsOf

\* The second scout to return ends the superstep: no update of the first is lost.
LEMMA ScoutsJoin ==
  ASSUME WorkflowInv, run = "running", next = Scouts, NEW updates, DOMAIN updates = Scouts,
         \A n \in Scouts : ScoutFits(st, n, updates[n]),
         EndSuperstep(updates), UNCHANGED <<graph, crashes>>
  PROVE  Advance
<1> DEFINE web == updates["web_scout"]
           local == updates["local_scout"]
<1>1. /\ Sound(graph, st) /\ Typed(st) /\ RoundsOf(graph, st) /\ graph \in {"eight", "short"}
      /\ Ready(graph, st, "web_scout") /\ Scouts \in Supersteps(graph)
  BY DEF WorkflowInv, Position, Sound, Scouts
<1>2. graph = "eight"
  BY <1>1 DEF Supersteps, Scouts
<1>3. Ends /\ st' = Merged(updates) /\ next' = UNION {Edges(n, st') : n \in next}
  BY SuperstepEnds
<1>4. next' = {"evidence_judge"}
  BY <1>2, <1>3 DEF Edges, EightAgentEdges, Scouts
<1>5. /\ DOMAIN web = {"outcomes", "web", "mcp"} /\ DOMAIN local = {"private"}
      /\ RoundFits(st, web.outcomes)
      /\ Ids(st.web) \subseteq Ids(web.web) /\ web.web \subseteq WebResults
      /\ Ids(st.mcp) \subseteq Ids(web.mcp) /\ web.mcp \subseteq McpResults
      /\ Ids(st.private) \subseteq Ids(local.private) /\ local.private \subseteq PrivateResults
      /\ Single(web.web) /\ Single(local.private)
  BY DEF ScoutFits, Scouts
<1>6. \A c : Writers(c, updates) = IF c \in {"outcomes", "web", "mcp"} THEN {"web_scout"}
                                   ELSE IF c = "private" THEN {"local_scout"} ELSE {}
  <2>1. \A c : Writers(c, updates) = {n \in Scouts : c \in DOMAIN updates[n]}
    BY DEF Writers
  <2> QED BY <1>5, <2>1 DEF Scouts
<1> HIDE DEF web, local
<1>7. /\ DOMAIN st' = DOMAIN st
      /\ \A c \in {"outcomes", "web", "mcp"} : st'[c] = web[c]
      /\ st'["private"] = local["private"]
      /\ \A c \in DOMAIN st \ {"outcomes", "web", "mcp", "private"} : st'[c] = st[c]
  <2>1. \A c \in DOMAIN st : st'[c] = IF Writers(c, updates) = {} THEN st[c]
                                     ELSE updates[CHOOSE n \in Writers(c, updates) : TRUE][c]
    BY <1>3 DEF Merged
  <2>2. {"outcomes", "web", "mcp", "private"} \subseteq DOMAIN st
    BY <1>1 DEF Typed, InitialState
  <2> QED BY <1>3, <1>6, <2>1, <2>2 DEF Merged, web, local
<1>8. /\ st'.outcomes = web.outcomes /\ st'.web = web.web /\ st'.mcp = web.mcp
      /\ st'.private = local.private
  BY <1>7
<1>9. /\ st'.status = st.status /\ st'.route = st.route /\ st'.evidence = st.evidence
      /\ st'.supplementary = st.supplementary /\ st'.attempted = st.attempted
      /\ st'.iteration = st.iteration /\ st'.report = st.report /\ st'.plan = st.plan
      /\ st'.gaps = st.gaps /\ st'.analysis = st.analysis /\ st'.decision = st.decision
      /\ st'.is_high_risk_domain = st.is_high_risk_domain
      /\ st'.reflection_attempts = st.reflection_attempts
  BY <1>1, <1>7 DEF Typed, InitialState
<1>10. /\ \A a, b \in st'.outcomes : a.query = b.query => a.round = b.round
       /\ \A o \in st'.outcomes : o.round \in Nat /\ o.round <= st'.iteration
       /\ \A o \in st'.outcomes : o.query \in st'.attempted
  BY <1>1, <1>2, <1>5, <1>8, <1>9, RoundJoins
<1>11. Typed(st')
  BY <1>1, <1>5, <1>7, <1>8, <1>9, <1>10 DEF Typed
<1>12. RoundsOf(graph, st')
  BY <1>1, <1>9, <1>10 DEF RoundsOf
<1>13. Supported(st') /\ Found(st')
  BY <1>1, <1>5, <1>8, <1>9 DEF Ready, Supported, Sound, Found
<1>14. Position(graph, st', next')
  BY <1>1, <1>2, <1>4, <1>9 DEF Position, Supersteps, EightAgentNodes, Ready
<1>15. Grows(st, st')
  <2>1. Ids(st.evidence) \subseteq Ids(st.evidence \cup (st'.web \cap Blank))
    BY DEF Ids
  <2>2. st.iteration <= st.iteration
    BY <1>1, BoundsAssumption DEF Typed
  <2> QED BY <1>5, <1>8, <1>9, <2>1, <2>2 DEF Grows, RoundFits
<1>16. Spends
  <2>1. graph = "eight" /\ next = Scouts /\ next' = {"evidence_judge"}
    BY <1>2, <1>4
  <2>2. st'.iteration = st.iteration
    BY <1>9
  <2>3. Typed(st) /\ Typed(st')
    BY <1>1, <1>11 DEF Sound
  <2> QED BY <2>1, <2>2, <2>3, EightSpends
<1> QED BY <1>3, <1>4, <1>11, <1>12, <1>13, <1>14, <1>15, <1>16 DEF Advance, Good, Sound

\* The first one only leaves its update.
Waits ==
  /\ UNCHANGED <<graph, st, next, saved, run, crashes>>
  /\ Counted(steps') /\ WritesFit'
  /\ \E n \in (next \cap Scouts) \ DOMAIN writes :
       steps' = Record(steps, {n}) /\ DOMAIN writes' = DOMAIN writes \cup {n}

\* A scout joins the other one or waits for it.
LEMMA ScoutReturns ==
  ASSUME WorkflowInv, NEW node \in Scouts, Pending(node), NEW update,
         ScoutFits(st, node, update), Return(node, update)
  PROVE  Advance \/ Waits
<1> DEFINE updates == [n \in DOMAIN writes \cup {node} |->
                         IF n = node THEN update ELSE writes[n]]
<1>1. next = Scouts /\ run = "running" /\ node \notin DOMAIN writes
  <2>1. next \in Supersteps(graph) /\ node \in next
    BY DEF WorkflowInv, Position, Pending
  <2> QED BY <2>1 DEF Supersteps, Scouts, Pending, EightAgentNodes, ShortGraphNodes
<1>2. /\ DOMAIN writes \subseteq Scouts /\ \A n \in DOMAIN writes : ScoutFits(st, n, writes[n])
      /\ Counted(steps)
  BY <1>1 DEF WorkflowInv, WritesFit, Counters
<1>3. DOMAIN updates \subseteq Scouts /\ \A n \in DOMAIN updates : ScoutFits(st, n, updates[n])
  BY <1>2
<1>4. CASE DOMAIN updates = next
  <2>1. EndSuperstep(updates) /\ UNCHANGED <<graph, crashes>>
    BY <1>4 DEF Return
  <2> HIDE DEF updates
  <2> QED BY <1>1, <1>3, <1>4, <2>1, ScoutsJoin
<1>5. CASE DOMAIN updates # next
  <2>1. /\ writes' = updates /\ steps' = Record(steps, {node})
        /\ UNCHANGED <<graph, st, next, saved, run, crashes>>
    BY <1>5 DEF Return
  <2>2. Counted(steps')
    BY <1>2, <2>1, RowsAreCounted
  <2> HIDE DEF updates
  <2>3. WritesFit'
    BY <1>1, <1>3, <1>5, <2>1 DEF WritesFit
  <2>4. DOMAIN writes' = DOMAIN writes \cup {node}
    BY <2>1 DEF updates
  <2> QED BY <1>1, <2>1, <2>2, <2>3, <2>4 DEF Waits
<1> QED BY <1>4, <1>5

\* Both scouts return so.
LEMMA ScoutsAdvance ==
  ASSUME WorkflowInv, WebScout \/ LocalScout
  PROVE  (Advance \/ Waits) /\ UNCHANGED drafts
<1>1. CASE WebScout
  <2>1. PICK found \in WebSearches(Tasks("web")), mcp \in McpScout(Tasks("web")) :
          Return("web_scout",
                 [outcomes |-> st.outcomes \cup Outcomes(Tasks("web")),
                  web |-> Merge(st.web, found), mcp |-> Merge(st.mcp, mcp)])
    BY <1>1 DEF WebScout
  <2>2. Pending("web_scout") /\ UNCHANGED drafts
    BY <1>1 DEF WebScout
  <2> QED BY <2>1, <2>2, WebScoutFits, ScoutReturns DEF Scouts
<1>2. CASE LocalScout
  <2>1. PICK found \in LocalSearches(Tasks("private")) :
          Return("local_scout", [private |-> Merge(st.private, found)])
    BY <1>2 DEF LocalScout
  <2>2. Pending("local_scout") /\ UNCHANGED drafts
    BY <1>2 DEF LocalScout
  <2> QED BY <2>1, <2>2, LocalScoutFits, ScoutReturns DEF Scouts
<1> QED BY <1>1, <1>2

-----------------------------------------------------------------------------
(* The invariant                                                              *)

\* A run starts with no values and one node.
LEMMA EmptyRun ==
  ASSUME graph \in {"eight", "short"}
  PROVE  Sound(graph, InitialState) /\ Position(graph, InitialState, {"initialize"})
<1>1. Typed(InitialState)
  BY BoundsAssumption DEF Typed, InitialState, Single
<1>2. RoundsOf(graph, InitialState)
  BY DEF RoundsOf, InitialState
<1>3. InitialState.status = None /\ InitialState.evidence = {}
  BY DEF InitialState
<1>4. Supported(InitialState)
  BY <1>3, NoneAssumption DEF Supported
<1>5. Empty(InitialState) /\ InitialState.report = None
  BY DEF Empty, InitialState
<1>6. Position(graph, InitialState, {"initialize"})
  <2>1. InitialState.reflection_attempts < MaxReflectionAttempts
    BY BoundsAssumption DEF InitialState
  <2> QED BY <1>3, <1>5, <2>1, NoneAssumption
  DEF Position, Ready, Supersteps, EightAgentNodes, ShortGraphNodes
<1>7. Found(InitialState)
  BY <1>3 DEF Found, Ids
<1> QED BY <1>1, <1>2, <1>3, <1>4, <1>6, <1>7 DEF Sound

\* The invariant holds at the start.
LEMMA InitInv == Init => WorkflowInv
<1> SUFFICES ASSUME Init PROVE WorkflowInv
  OBVIOUS
<1>1. Sound(graph, st) /\ Position(graph, st, next)
  BY EmptyRun DEF Init
<1>2. Counters
  BY BoundsAssumption DEF Init, Counters, Counted
<1>3. WritesFit
  BY DEF Init, WritesFit
<1> QED BY <1>1, <1>2, <1>3 DEF Init, WorkflowInv

\* A superstep that ends keeps it; only the Writer, the last node, may have
\* used its last attempt.
LEMMA AdvanceKeepsInv ==
  ASSUME WorkflowInv, run = "running", Advance,
         drafts' \in 0..MaxWriterAttempts, drafts' = drafts \/ next' = {}
  PROVE  WorkflowInv'
<1>1. /\ Sound(graph, st) /\ Position(graph, st, next) /\ graph \in {"eight", "short"}
      /\ crashes \in 0..MaxCrashes /\ drafts < MaxWriterAttempts
  BY DEF WorkflowInv, Counters
<1>2. /\ graph' = graph /\ crashes' = crashes /\ DOMAIN writes' = {} /\ Counted(steps')
      /\ run' = IF next' = {} THEN "ended" ELSE "running"
  BY DEF Advance, Ends
<1>3. Counters'
  BY <1>1, <1>2 DEF Counters
<1>4. WritesFit'
  BY <1>2 DEF WritesFit
<1>5. /\ Sound(graph, st)' /\ (next # {} => Position(graph, st, next))'
      /\ (run = "ended" => Finished(graph, st, drafts))'
  BY <1>2 DEF Advance, Good
<1>6. (saved # None => Sound(graph, saved.st) /\ Position(graph, saved.st, saved.next))'
  <2>1. CASE saved' = None
    BY <2>1
  <2>2. CASE saved' = [st |-> st, next |-> next]
    <3>1. saved'.st = st /\ saved'.next = next
      BY <2>2
    <3> QED BY <1>1, <1>2, <3>1
  <2> QED BY <2>1, <2>2 DEF Advance, Ends
<1> QED BY <1>1, <1>2, <1>3, <1>4, <1>5, <1>6 DEF WorkflowInv

\* So does the scout that returns first.
LEMMA WaitingKeepsInv ==
  ASSUME WorkflowInv, Waits, UNCHANGED drafts
  PROVE  WorkflowInv'
<1>1. Counters'
  BY DEF WorkflowInv, Counters, Waits
<1> QED BY <1>1 DEF WorkflowInv, Waits

\* Every node ends its superstep, leaves its update or repairs a draft.
LEMMA NodeSteps ==
  ASSUME WorkflowInv, NodeStep
  PROVE  /\ run = "running"
         /\ \/ /\ Advance /\ drafts' \in 0..MaxWriterAttempts
               /\ drafts' = drafts \/ next' = {}
            \/ Waits /\ UNCHANGED drafts
            \/ Repair
<1>1. /\ drafts \in 0..MaxWriterAttempts
      /\ drafts < MaxWriterAttempts \/ run \in {"raised", "ended"}
  BY DEF WorkflowInv, Counters
<1>2. CASE Initialize
  BY <1>1, <1>2, InitializeAdvances DEF Initialize, Pending, WorkflowInv, Counters
<1>3. CASE RouteNode
  BY <1>1, <1>3, RouteAdvances DEF RouteNode, Pending, WorkflowInv, Counters
<1>4. CASE DirectAnswer
  BY <1>1, <1>4, DirectAnswerAdvances DEF DirectAnswer, Pending, WorkflowInv, Counters
<1>5. CASE Planner
  BY <1>1, <1>5, PlannerAdvances DEF Planner, Pending, WorkflowInv, Counters
<1>6. CASE WebScout \/ LocalScout
  <2>1. run = "running"
    BY <1>6 DEF WebScout, LocalScout, Pending
  <2> QED BY <1>1, <1>6, <2>1, ScoutsAdvance
<1>7. CASE JudgeEvidence
  BY <1>1, <1>7, JudgeEvidenceAdvances DEF JudgeEvidence, Pending, WorkflowInv, Counters
<1>8. CASE Analyze
  BY <1>1, <1>8, AnalyzeAdvances DEF Analyze, Pending, WorkflowInv, Counters
<1>9. CASE Reflect
  BY <1>1, <1>9, ReflectAdvances DEF Reflect, Pending, WorkflowInv, Counters
<1>10. CASE Dispatch
  BY <1>1, <1>10, DispatchAdvances DEF Dispatch, Pending, WorkflowInv, Counters
<1>11. CASE Repair
  BY <1>11 DEF Repair, Pending
<1>12. CASE Writer
  <2>1. run = "running" /\ Advance /\ next' = {} /\ drafts' = drafts + 1
    BY <1>12, WriterAdvances DEF Writer, Pending
  <2>2. drafts' \in 0..MaxWriterAttempts
    BY <1>1, <2>1, BoundsAssumption DEF WorkflowInv, Counters
  <2> QED BY <2>1, <2>2
<1>13. CASE PlannerNode
  BY <1>1, <1>13, PlannerNodeAdvances DEF PlannerNode, Pending, WorkflowInv, Counters
<1>14. CASE WebSearch
  BY <1>1, <1>14, WebSearchAdvances DEF WebSearch, Pending, WorkflowInv, Counters
<1>15. CASE ScoreEvidence
  BY <1>1, <1>15, ScoreEvidenceAdvances DEF ScoreEvidence, Pending, WorkflowInv, Counters
<1>16. CASE GenerateReport
  BY <1>1, <1>16, GenerateReportAdvances DEF GenerateReport, Pending, WorkflowInv, Counters
<1>17. CASE ReviewReport
  BY <1>1, <1>17, ReviewReportAdvances DEF ReviewReport, Pending, WorkflowInv, Counters
<1> QED
  BY <1>2, <1>3, <1>4, <1>5, <1>6, <1>7, <1>8, <1>9, <1>10, <1>11, <1>12, <1>13,
     <1>14, <1>15, <1>16, <1>17
  DEF NodeStep, EightAgentStep, ShortGraphStep

\* A repaired draft is an attempt, and there is another one.
LEMMA RepairKeepsInv == ASSUME WorkflowInv, Repair PROVE WorkflowInv'
<1>1. /\ UNCHANGED <<graph, st, next, writes, saved, run, crashes, steps>>
      /\ drafts' = drafts + 1 /\ drafts + 1 < MaxWriterAttempts /\ run = "running"
  BY DEF Repair, Pending
<1>2. Counters'
  BY <1>1, BoundsAssumption DEF WorkflowInv, Counters
<1>3. WritesFit'
  BY <1>1 DEF WorkflowInv, WritesFit
<1> QED BY <1>1, <1>2, <1>3 DEF WorkflowInv

\* After an exception nothing is left of the run's values.
LEMMA RaisingKeepsInv == ASSUME WorkflowInv, NodeRaises PROVE WorkflowInv'
<1>1. /\ graph' = graph /\ crashes' = crashes /\ run' = "raised"
      /\ st' = InitialState /\ next' = {} /\ writes' = <<>> /\ drafts' = 0 /\ saved' = None
      /\ steps' = Record(steps, next \ DOMAIN writes)
  BY DEF NodeRaises
<1>2. Counted(steps')
  BY <1>1, RowsAreCounted DEF WorkflowInv, Counters
<1>3. Counters'
  BY <1>1, <1>2, BoundsAssumption DEF WorkflowInv, Counters
<1>4. WritesFit'
  BY <1>1 DEF WritesFit
<1>5. Sound(graph, st)'
  BY <1>1, EmptyRun DEF WorkflowInv
<1> QED BY <1>1, <1>3, <1>4, <1>5 DEF WorkflowInv

\* A crash leaves the running superstep, with updates of nodes that returned,
\* or the one before it.
LEMMA CrashKeepsInv == ASSUME WorkflowInv, Crash PROVE WorkflowInv'
<1>1. /\ graph' = graph /\ steps' = steps /\ saved' = None /\ run' = "down"
      /\ crashes' = crashes + 1 /\ run = "running" /\ crashes < MaxCrashes
  BY DEF Crash
<1>2. next # {} /\ DOMAIN writes \subseteq next /\ "writer" \notin DOMAIN writes
  BY <1>1 DEF WorkflowInv, WritesFit, ScoutFits
<1>3. ASSUME NEW kept \in SUBSET DOMAIN writes,
             writes' = [n \in kept |-> writes[n]],
             drafts' = IF "writer" \in kept THEN drafts ELSE 0,
             UNCHANGED <<st, next>>
      PROVE  WorkflowInv'
  <2>1. Counters'
    BY <1>1, <1>2, <1>3, BoundsAssumption DEF WorkflowInv, Counters
  <2>2. WritesFit'
    <3>1. DOMAIN writes' = kept /\ \A n \in kept : writes'[n] = writes[n]
      BY <1>3
    <3> QED BY <1>2, <1>3, <3>1 DEF WorkflowInv, WritesFit
  <2> QED BY <1>1, <1>3, <2>1, <2>2 DEF WorkflowInv
<1>4. ASSUME IF saved = None THEN next' = {} /\ UNCHANGED st
             ELSE st' = saved.st /\ next' = saved.next,
             writes' = <<>>, drafts' = 0
      PROVE  WorkflowInv'
  <2>1. Counters'
    BY <1>1, <1>4, BoundsAssumption DEF WorkflowInv, Counters
  <2>2. WritesFit'
    BY <1>4 DEF WritesFit
  <2>3. Sound(graph, st)' /\ (next # {} => Position(graph, st, next))'
    BY <1>1, <1>4 DEF WorkflowInv
  <2> QED BY <1>1, <2>1, <2>2, <2>3 DEF WorkflowInv
<1> QED BY <1>3, <1>4 DEF Crash

\* A resumed thread goes on where its checkpoint is.
LEMMA ResumeKeepsInv == ASSUME WorkflowInv, Resume PROVE WorkflowInv'
<1>1. /\ UNCHANGED <<graph, st, next, writes, drafts, saved, crashes>> /\ run = "down"
      /\ run' = IF next = {} THEN "raised" ELSE "running"
      /\ steps' = Record([steps EXCEPT !.sequence = 1], next \ DOMAIN writes)
  BY DEF Resume
<1>2. Counted(steps')
  BY <1>1, RowsAreCounted DEF WorkflowInv, Counters
<1>3. Counters'
  BY <1>1, <1>2 DEF WorkflowInv, Counters
<1>4. WritesFit'
  BY <1>1 DEF WorkflowInv, WritesFit
<1> QED BY <1>1, <1>3, <1>4 DEF WorkflowInv

\* Every step keeps it.
LEMMA NextInv == WorkflowInv /\ [Next]_vars => WorkflowInv'
<1> SUFFICES ASSUME WorkflowInv, [Next]_vars PROVE WorkflowInv'
  OBVIOUS
<1>1. CASE NodeStep
  BY <1>1, NodeSteps, AdvanceKeepsInv, WaitingKeepsInv, RepairKeepsInv
<1>2. CASE NodeRaises
  BY <1>2, RaisingKeepsInv
<1>3. CASE Crash
  BY <1>3, CrashKeepsInv
<1>4. CASE Resume
  BY <1>4, ResumeKeepsInv
<1>5. CASE UNCHANGED vars
  BY <1>5 DEF vars, WorkflowInv, Counters, WritesFit
<1> QED BY <1>1, <1>2, <1>3, <1>4, <1>5 DEF Next

-----------------------------------------------------------------------------
(* The budget                                                                 *)

\* The rows that roles write when they begin, or when they are done.
Rows(roles) == Cardinality(roles \cap AGENT_STEP_NODE_NAMES)

\* All rows of a run.
Total == IF graph = "eight" THEN 2 * (3 + 5 * (MaxIterations + 1))
         ELSE 2 * (1 + MaxReflectionAttempts)

\* The recorder's rows, those of the agents at work and what is ahead of them
\* are within the total. A recorder begins with 1 again after a crash, with less
\* ahead of it than the first.
Budget ==
  /\ steps.rows <= Total
  /\ run = "running" =>
       \A n \in next :
         steps.sequence - 1 + Rows(next \ DOMAIN writes) + Ahead(graph, st, n) <= Total

\* What a recorder numbers.
LEMMA Numbered ==
  ASSUME NEW trace, Counted(trace), NEW roles
  PROVE  /\ Record(trace, roles).sequence = trace.sequence + Rows(roles)
         /\ Record(trace, roles).rows = IF trace.sequence + Rows(roles) - 1 > trace.rows
                                       THEN trace.sequence + Rows(roles) - 1 ELSE trace.rows
         /\ Rows(roles) \in Nat /\ trace.sequence \in Nat \ {0} /\ trace.rows \in Nat
         /\ Counted(Record(trace, roles))
<1>1. Rows(roles) \in Nat
  BY FewAgents DEF Rows
<1>2. trace.sequence \in Nat \ {0} /\ trace.rows \in Nat
  BY DEF Counted
<1>3. /\ Record(trace, roles).sequence = trace.sequence + Rows(roles)
      /\ Record(trace, roles).rows = IF trace.sequence + Rows(roles) - 1 > trace.rows
                                    THEN trace.sequence + Rows(roles) - 1 ELSE trace.rows
  BY <1>1, <1>2 DEF Record, Rows
<1> QED BY <1>1, <1>2, <1>3, RowsAreCounted

\* The agents of a superstep, or of a part of it, are at most its width.
LEMMA AgentsOf ==
  ASSUME graph \in {"eight", "short"}, NEW nodes \in Supersteps(graph),
         NEW part \in SUBSET nodes, NEW n \in nodes
  PROVE  Rows(part) <= Width(n)
<1>1. CASE nodes = Scouts
  <2>1. Width(n) = 2
    BY <1>1, Widths
  <2>2. IsFiniteSet({"web_scout"}) /\ Cardinality({"web_scout"}) = 1
    BY FS_Singleton
  <2>3. IsFiniteSet({"web_scout"} \cup {"local_scout"})
        /\ Cardinality({"web_scout"} \cup {"local_scout"}) = 2
    BY <2>2, FS_AddElement
  <2>4. part \cap AGENT_STEP_NODE_NAMES \subseteq {"web_scout"} \cup {"local_scout"}
    BY <1>1 DEF Scouts
  <2> QED BY <2>1, <2>3, <2>4, FS_Subset DEF Rows
<1>2. CASE nodes # Scouts
  <2>1. nodes = {n} /\ n \notin Scouts
    BY <1>2 DEF Supersteps, Scouts, ShortGraphNodes
  <2>2. Width(n) = IF n \in AGENT_STEP_NODE_NAMES THEN 1 ELSE 0
    BY <2>1 DEF Width
  <2>3. CASE n \in AGENT_STEP_NODE_NAMES
    <3>1. part \cap AGENT_STEP_NODE_NAMES \subseteq {n}
      BY <2>1
    <3>2. IsFiniteSet({n}) /\ Cardinality({n}) = 1
      BY FS_Singleton
    <3>3. Cardinality(part \cap AGENT_STEP_NODE_NAMES) <= 1
      BY <3>1, <3>2, FS_Subset
    <3> QED BY <2>2, <2>3, <3>3 DEF Rows
  <2>4. CASE n \notin AGENT_STEP_NODE_NAMES
    <3>1. part \cap AGENT_STEP_NODE_NAMES = {}
      BY <2>1, <2>4
    <3> QED BY <2>2, <2>4, <3>1, FS_EmptySet DEF Rows
  <2> QED BY <2>3, <2>4
<1> QED BY <1>1, <1>2

\* Wherever a run is, what is ahead of it was in the total from the start.
LEMMA AheadFits ==
  ASSUME graph \in {"eight", "short"}, NEW v, Typed(v), NEW n \in Nodes,
         Ready(graph, v, n)
  PROVE  /\ Ahead(graph, v, n) \in Nat /\ Total \in Nat /\ Width(n) \in Nat
         /\ Ahead(graph, v, n) + 2 * Width(n) <= Total
<1>1. CASE graph = "eight"
  <2> DEFINE rounds == 10 * (MaxIterations - v.iteration)
  <2>1. v.iteration \in Nat /\ v.iteration <= MaxIterations /\ MaxIterations \in Nat
    BY BoundsAssumption DEF Typed
  <2>2. rounds \in Nat /\ Total \in Nat /\ rounds + 16 <= Total
    BY <1>1, <2>1 DEF Total
  <2>3. /\ Ahead(graph, v, "initialize") = rounds + 16
        /\ Ahead(graph, v, "intent_router") = rounds + 14
        /\ Ahead(graph, v, "direct_answer") = 0
        /\ Ahead(graph, v, "planner") = rounds + 12
        /\ Ahead(graph, v, "research_dispatch") = rounds + 12
        /\ \A m \in Scouts : Ahead(graph, v, m) = rounds + 8
        /\ Ahead(graph, v, "evidence_judge") = rounds + 6
        /\ Ahead(graph, v, "analyst") = rounds + 4
        /\ Ahead(graph, v, "reflect") = rounds + 2
        /\ Ahead(graph, v, "writer") = 0
    BY <1>1, EightAhead
  <2> HIDE DEF rounds
  <2>4. n \in {"initialize", "intent_router", "direct_answer", "planner",
              "research_dispatch", "evidence_judge", "analyst", "reflect", "writer"} \cup Scouts
    BY <1>1 DEF Nodes, EightAgentNodes, Scouts
  <2> QED BY <2>2, <2>3, <2>4, Widths
<1>2. CASE graph = "short"
  <2> DEFINE reports == 2 * (MaxReflectionAttempts - v.reflection_attempts)
  <2>1. v.reflection_attempts \in Nat /\ MaxReflectionAttempts \in Nat
    BY BoundsAssumption DEF Typed
  <2>2. v.reflection_attempts <= MaxReflectionAttempts
    BY <1>2, <2>1 DEF Ready
  <2>3. n = "analyst" => v.reflection_attempts < MaxReflectionAttempts
    BY <1>2 DEF Ready
  <2>4. /\ reports \in Nat /\ Total \in Nat /\ reports + 2 <= Total
        /\ n = "analyst" => reports - 2 \in Nat
    BY <1>2, <2>1, <2>2, <2>3 DEF Total
  <2>5. /\ Ahead(graph, v, "initialize") = reports + 2
        /\ Ahead(graph, v, "route") = reports + 2
        /\ Ahead(graph, v, "direct_answer") = 0
        /\ Ahead(graph, v, "planner") = reports
        /\ Ahead(graph, v, "web_search") = reports
        /\ Ahead(graph, v, "evidence") = reports
        /\ Ahead(graph, v, "analyst") = reports - 2
        /\ Ahead(graph, v, "reflection") = reports
    BY <1>2, ShortAhead
  <2> HIDE DEF reports
  <2>6. n \in {"initialize", "route", "direct_answer", "planner", "web_search",
              "evidence", "analyst", "reflection"}
    BY <1>2 DEF Nodes, ShortGraphNodes
  <2> QED BY <2>4, <2>5, <2>6, Widths
<1> QED BY <1>1, <1>2

\* What is ahead of the nodes of next.
LEMMA NextFits ==
  ASSUME WorkflowInv, NEW n \in next
  PROVE  /\ Ahead(graph, st, n) \in Nat /\ Total \in Nat
         /\ Rows(next \ DOMAIN writes) <= Width(n)
         /\ Width(n) \in Nat /\ Ahead(graph, st, n) + 2 * Width(n) <= Total
<1>1. /\ graph \in {"eight", "short"} /\ Typed(st) /\ next \in Supersteps(graph)
      /\ Ready(graph, st, n)
  BY DEF WorkflowInv, Sound, Position
<1>2. n \in Nodes
  BY <1>1 DEF Supersteps, Nodes, EightAgentNodes
<1>3. Rows(next \ DOMAIN writes) <= Width(n)
  BY <1>1, AgentsOf
<1> QED BY <1>1, <1>2, <1>3, AheadFits

\* The superstep that begins costs what was ahead of the one that is over.
LEMMA AdvanceKeepsBudget ==
  ASSUME WorkflowInv, WorkflowInv', Budget, run = "running", Advance
  PROVE  Budget'
<1> DEFINE done == Rows(next \ DOMAIN writes)
           begun == Rows(next')
           middle == Record(steps, next \ DOMAIN writes)
<1>1. /\ steps' = Record(middle, next') /\ graph' = graph /\ DOMAIN writes' = {}
      /\ Counted(steps)
  BY DEF Advance, Ends, WorkflowInv, Counters
<1>2. /\ middle.sequence = steps.sequence + done
      /\ middle.rows = IF steps.sequence + done - 1 > steps.rows
                       THEN steps.sequence + done - 1 ELSE steps.rows
      /\ Counted(middle) /\ done \in Nat /\ steps.sequence \in Nat \ {0} /\ steps.rows \in Nat
  BY <1>1, Numbered
<1> HIDE DEF middle
<1>3. /\ steps'.sequence = middle.sequence + begun
      /\ steps'.rows = IF middle.sequence + begun - 1 > middle.rows
                       THEN middle.sequence + begun - 1 ELSE middle.rows
      /\ begun \in Nat
  BY <1>1, <1>2, Numbered
<1>4. Total' = Total /\ next' \ DOMAIN writes' = next'
  BY <1>1 DEF Total
<1>5. PICK n : n \in next
  BY DEF WorkflowInv
<1>6. /\ Ahead(graph, st, n) \in Nat /\ Total \in Nat
      /\ steps.sequence - 1 + done + Ahead(graph, st, n) <= Total /\ steps.rows <= Total
  BY <1>5, NextFits DEF Budget
<1> HIDE DEF done, begun
<1>7. ASSUME NEW m \in next'
      PROVE  /\ begun <= Width(m) /\ Width(m) \in Nat /\ Ahead(graph, st', m) \in Nat
             /\ Ahead(graph, st', m) + 2 * Width(m) <= Ahead(graph, st, n)
  <2>1. next' \in Supersteps(graph) /\ graph \in {"eight", "short"}
    BY <1>1, <1>7 DEF WorkflowInv, Position
  <2>2. begun <= Width(m)
    BY <1>7, <2>1, AgentsOf DEF begun
  <2>3. Ahead(graph, st', m) + 2 * Width(m) <= Ahead(graph, st, n)
    BY <1>5, <1>7 DEF Advance, Spends
  <2>4. Typed(st') /\ Ready(graph, st', m) /\ m \in Nodes
    BY <1>1, <1>7, <2>1 DEF WorkflowInv, Sound, Position, Supersteps, Nodes, EightAgentNodes
  <2>5. Width(m) \in Nat
    BY DEF Width
  <2>6. Ahead(graph, st', m) \in Nat
    BY <2>1, <2>4, AheadFits
  <2> QED BY <2>2, <2>3, <2>5, <2>6
<1>8. CASE next' = {}
  <2>1. begun = 0
    BY <1>8, FS_EmptySet DEF begun, Rows
  <2>2. steps'.rows <= Total
    BY <1>2, <1>3, <1>6, <2>1
  <2> QED BY <1>4, <1>8, <2>2 DEF Budget
<1>9. CASE next' # {}
  <2>1. PICK m : m \in next'
    BY <1>9
  <2>2. steps'.rows <= Total
    BY <1>2, <1>3, <1>6, <1>7, <2>1
  <2>3. ASSUME NEW k \in next'
        PROVE  steps'.sequence - 1 + begun + Ahead(graph, st', k) <= Total
    BY <1>2, <1>3, <1>6, <1>7
  <2> QED BY <1>1, <1>4, <2>2, <2>3 DEF Budget, begun
<1> QED BY <1>8, <1>9

\* The first scout's row is one of those of its superstep.
LEMMA WaitingKeepsBudget ==
  ASSUME WorkflowInv, Budget, run = "running", Waits
  PROVE  Budget'
<1>1. PICK node \in (next \cap Scouts) \ DOMAIN writes :
        steps' = Record(steps, {node}) /\ DOMAIN writes' = DOMAIN writes \cup {node}
  BY DEF Waits
<1> DEFINE agents == (next \ DOMAIN writes) \cap AGENT_STEP_NODE_NAMES
           before == Rows(next \ DOMAIN writes)
           after == Rows(next' \ DOMAIN writes')
<1>2. node \in agents /\ next' \ DOMAIN writes' = (next \ DOMAIN writes) \ {node}
  BY <1>1 DEF Waits, Scouts, AGENT_STEP_NODE_NAMES
<1>3. IsFiniteSet(agents)
  BY AgentsAreFew
<1>4. before \in Nat /\ after = before - 1
  <2>1. before = Cardinality(agents)
    BY DEF Rows
  <2>2. (next' \ DOMAIN writes') \cap AGENT_STEP_NODE_NAMES = agents \ {node}
    BY <1>2
  <2>3. after = Cardinality(agents \ {node})
    BY <2>2 DEF Rows
  <2>4. Cardinality(agents \ {node}) = Cardinality(agents) - 1
    BY <1>2, <1>3, FS_RemoveElement
  <2>5. Cardinality(agents) \in Nat
    BY <1>3, FS_CardinalityType
  <2> QED BY <2>1, <2>3, <2>4, <2>5
<1>5. Rows({node}) = 1
  <2>1. {node} \cap AGENT_STEP_NODE_NAMES = {node}
    BY <1>2
  <2> QED BY <2>1, FS_Singleton DEF Rows
<1>6. /\ steps'.sequence = steps.sequence + 1
      /\ steps'.rows = IF steps.sequence > steps.rows THEN steps.sequence ELSE steps.rows
      /\ steps.sequence \in Nat \ {0} /\ steps.rows \in Nat
  BY <1>1, <1>5, Numbered DEF WorkflowInv, Counters
<1>7. /\ Total' = Total /\ next' = next /\ run' = run
      /\ \A n \in next : Ahead(graph, st, n)' = Ahead(graph, st, n)
  BY DEF Waits, Total, Ahead
<1>8. ASSUME NEW n \in next
      PROVE  /\ Ahead(graph, st, n) \in Nat /\ Total \in Nat
             /\ steps.sequence - 1 + before + Ahead(graph, st, n) <= Total
  BY NextFits DEF Budget
<1>9. after \in Nat
  BY FewAgents DEF Rows
<1> HIDE DEF before, after, agents
<1>10. steps'.rows <= Total
  BY <1>1, <1>4, <1>6, <1>8, <1>9 DEF Budget
<1>11. ASSUME NEW n \in next
       PROVE  steps'.sequence - 1 + after + Ahead(graph, st, n) <= Total
  BY <1>4, <1>6, <1>8
<1> QED BY <1>7, <1>10, <1>11 DEF Budget, after

\* The agents of a run that ends in an exception are done.
LEMMA RaisingKeepsBudget == ASSUME WorkflowInv, Budget, NodeRaises PROVE Budget'
<1>1. /\ steps' = Record(steps, next \ DOMAIN writes) /\ graph' = graph /\ run' = "raised"
      /\ run = "running" /\ Counted(steps)
  BY DEF NodeRaises, Pending, WorkflowInv, Counters
<1>2. PICK n : n \in next
  BY <1>1 DEF WorkflowInv
<1>3. /\ Ahead(graph, st, n) \in Nat /\ Total \in Nat
      /\ steps.sequence - 1 + Rows(next \ DOMAIN writes) + Ahead(graph, st, n) <= Total
      /\ steps.rows <= Total
  BY <1>1, <1>2, NextFits DEF Budget
<1>4. steps'.rows <= Total
  BY <1>1, <1>3, Numbered
<1> QED BY <1>1, <1>4 DEF Budget, Total

\* A recorder that begins again has all of the total before it.
LEMMA ResumeKeepsBudget == ASSUME WorkflowInv, Budget, Resume PROVE Budget'
<1> DEFINE trace == [steps EXCEPT !.sequence = 1]
           pending == Rows(next \ DOMAIN writes)
<1>1. /\ UNCHANGED <<graph, st, next, writes>> /\ Counted(steps)
      /\ steps' = Record(trace, next \ DOMAIN writes)
      /\ run' = IF next = {} THEN "raised" ELSE "running"
  BY DEF Resume, WorkflowInv, Counters
<1>2. Counted(trace) /\ trace.sequence = 1 /\ trace.rows = steps.rows
  BY <1>1, RowsAreCounted DEF Counted
<1> HIDE DEF trace
<1>3. /\ steps'.sequence = 1 + pending /\ pending \in Nat /\ steps.rows \in Nat
      /\ steps'.rows = IF pending > steps.rows THEN pending ELSE steps.rows
  BY <1>1, <1>2, Numbered
<1>4. ASSUME NEW n \in next
      PROVE  /\ Ahead(graph, st, n) \in Nat /\ Total \in Nat /\ pending <= Width(n)
             /\ Width(n) \in Nat /\ Ahead(graph, st, n) + 2 * Width(n) <= Total
  BY NextFits
<1>5. next = {} => pending = 0
  BY FS_EmptySet DEF Rows
<1>6. steps.rows <= Total /\ Total' = Total
  BY <1>1 DEF Budget, Total
<1> HIDE DEF pending
<1>7. steps'.rows <= Total
  BY <1>3, <1>4, <1>5, <1>6
<1>8. ASSUME NEW n \in next
      PROVE  steps'.sequence - 1 + pending + Ahead(graph, st, n) <= Total
  BY <1>3, <1>4
<1> QED BY <1>1, <1>6, <1>7, <1>8 DEF Budget, pending

\* Every step keeps the budget.
LEMMA NextBudget ==
  WorkflowInv /\ WorkflowInv' /\ Budget /\ [Next]_vars => Budget'
<1> SUFFICES ASSUME WorkflowInv, WorkflowInv', Budget, [Next]_vars PROVE Budget'
  OBVIOUS
<1>1. CASE NodeStep
  <2>1. Repair => Budget'
    BY DEF Repair, Budget, Total
  <2> QED BY <1>1, <2>1, NodeSteps, AdvanceKeepsBudget, WaitingKeepsBudget
<1>2. CASE NodeRaises
  BY <1>2, RaisingKeepsBudget
<1>3. CASE Crash
  BY <1>3 DEF Crash, Budget, Total
<1>4. CASE Resume
  BY <1>4, ResumeKeepsBudget
<1>5. CASE UNCHANGED vars
  BY <1>5 DEF vars, Budget, Total
<1> QED BY <1>1, <1>2, <1>3, <1>4, <1>5 DEF Next

\* A run begins with the whole of it.
LEMMA InitBudget == Init => Budget
<1> SUFFICES ASSUME Init PROVE Budget
  OBVIOUS
<1>1. WorkflowInv /\ next = {"initialize"} /\ steps.rows = 0 /\ steps.sequence = 1
  BY InitInv DEF Init
<1>2. /\ Ahead(graph, st, "initialize") + 2 * Width("initialize") <= Total
      /\ Rows(next \ DOMAIN writes) <= Width("initialize") /\ Width("initialize") = 0
      /\ Total \in Nat /\ Ahead(graph, st, "initialize") \in Nat
  BY <1>1, NextFits, Widths
<1>3. Rows(next \ DOMAIN writes) \in Nat
  BY FewAgents DEF Rows
<1> QED BY <1>1, <1>2, <1>3 DEF Budget

-----------------------------------------------------------------------------
(* The theorems                                                               *)

\* WorkflowInv is an invariant of every run, with any crashes and resumes.
THEOREM Invariance == Spec => []WorkflowInv
<1>1. Init => WorkflowInv
  BY InitInv
<1>2. WorkflowInv /\ [Next]_vars => WorkflowInv'
  BY NextInv
<1> QED BY <1>1, <1>2, PTL DEF Spec

\* The channels hold values of their types and the nodes are the graph's.
THEOREM TypeCorrect == Spec => []TypeOK
<1>1. WorkflowInv => TypeOK
  <2> SUFFICES ASSUME WorkflowInv PROVE TypeOK
    OBVIOUS
  <2>1. Typed(st)
    BY DEF WorkflowInv, Sound
  <2>2. next \subseteq Nodes
    BY DEF WorkflowInv, Position, Supersteps, Nodes, EightAgentNodes, ShortGraphNodes
  <2> QED BY <2>1, <2>2 DEF WorkflowInv, Typed, TypeOK, WritesFit, Counters, Counted
<1> QED BY <1>1, Invariance, PTL

\* From the judge to the report, the evidence is the last result of every source
\* that the scouts of any round have found, if that result has content, and no
\* other (the merges and joins of graph.py).
THEOREM EvidenceIsJoined == Spec => []EvidenceIsEveryPool
<1>1. WorkflowInv => EvidenceIsEveryPool
  <2> SUFFICES ASSUME WorkflowInv, PastTheJudge PROVE st.evidence = Pool(st)
    BY DEF EvidenceIsEveryPool, Pool, WorkflowInv, Sound, Typed, Single
  <2>1. CASE next \cap {"analyst", "reflect", "writer"} # {}
    BY <2>1 DEF WorkflowInv, PastTheJudge, Position, Ready
  <2>2. CASE run = "ended" /\ st.route = "deep_research"
    BY <2>2 DEF WorkflowInv, PastTheJudge, Finished
  <2> QED BY <2>1, <2>2 DEF PastTheJudge
<1> QED BY <1>1, Invariance, PTL

\* No round repeats the query of an earlier one, and what a round will search
\* is in attempted_queries, also after a resume (reflect_node, reflection.py).
THEOREM RoundsStayNew == Spec => []RoundsAreNew
<1>1. WorkflowInv => RoundsAreNew
  <2> SUFFICES ASSUME WorkflowInv PROVE RoundsAreNew
    OBVIOUS
  <2>1. RoundsOf(graph, st)
    BY DEF WorkflowInv, Sound
  <2> QED BY <2>1 DEF RoundsOf, RoundsAreNew
<1> QED BY <1>1, Invariance, PTL

\* A completed report was approved for the evidence it is stored with.
THEOREM OnlySupportedReports == Spec => []CompletedReportIsSupported
<1>1. WorkflowInv => CompletedReportIsSupported
  BY DEF WorkflowInv, Sound, Supported, CompletedReportIsSupported
<1> QED BY <1>1, Invariance, PTL

\* A run ends with a report unless it was answered directly, and with a refused
\* one only after the last draft its graph allows.
THEOREM RefusedAtTheEnd == Spec => []RefusedOnlyWhenExhausted
<1>1. WorkflowInv => RefusedOnlyWhenExhausted
  BY DEF WorkflowInv, Finished, RefusedOnlyWhenExhausted
<1> QED BY <1>1, Invariance, PTL

\* A run writes no more agent steps than its bounds allow, whatever the models
\* answer and wherever it is resumed: Reflect opens a round and the analyst writes
\* a report only for what is left of them.
THEOREM WorkStaysBounded == Spec => []WorkIsBounded
<1>1. Init => Budget
  BY InitBudget
<1>2. WorkflowInv /\ WorkflowInv' /\ Budget /\ [Next]_vars => Budget'
  BY NextBudget
<1>3. Budget => WorkIsBounded
  BY DEF Budget, Total, WorkIsBounded
<1> QED BY <1>1, <1>2, <1>3, Invariance, PTL DEF Spec

\* While a process runs no source leaves its pool, whichever scout returns first,
\* and none leaves the evidence but for a later result without content; outcomes,
\* attempted queries and rounds only grow.
THEOREM NothingForgotten == Spec => NothingIsForgotten
<1> DEFINE Kept == run = "running" /\ run' \notin {"down", "raised"} => Grows(st, st')
<1>1. WorkflowInv /\ [Next]_vars => Kept
  <2> SUFFICES ASSUME WorkflowInv, [Next]_vars,
                      run = "running", run' \notin {"down", "raised"}
               PROVE  Grows(st, st')
    OBVIOUS
  <2>1. UNCHANGED st => Grows(st, st')
    BY BoundsAssumption DEF Grows, Ids, WorkflowInv, Sound, Typed
  <2>2. CASE NodeStep
    BY <2>1, <2>2, NodeSteps DEF Advance, Waits, Repair
  <2>3. CASE NodeRaises \/ Crash \/ Resume
    BY <2>3 DEF NodeRaises, Crash, Resume
  <2>4. CASE UNCHANGED vars
    BY <2>1, <2>4 DEF vars
  <2> QED BY <2>2, <2>3, <2>4 DEF Next
<1>2. [][WorkflowInv /\ [Next]_vars => Kept]_vars
  BY <1>1, PTL
<1> QED BY <1>1, Invariance, PTL DEF Spec, NothingIsForgotten, Grows
=============================================================================
