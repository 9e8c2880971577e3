---------------------------- MODULE AgentWorkflow ----------------------------
(* One research run inside LangGraph: the eight-agent graph of                *)
(* src/app/workflow/graph.py and the shorter graph that is built when no      *)
(* Local Scout is configured, the agents they call, and the recorder that     *)
(* LangGraphResearchWorkflow feeds with task events.                          *)
(*                                                                            *)
(* LangGraph itself is external. What the code relies on is modelled: the     *)
(* nodes of a superstep read the values its predecessor left and run          *)
(* concurrently, their updates are merged when all of them have returned, a   *)
(* checkpoint is saved (asynchronously, the default) after a superstep, and a *)
(* resumed thread starts from the last saved one, without the nodes of that   *)
(* superstep whose updates were saved too.                                    *)
(*                                                                            *)
(* What a language model, a search or a report says is an input: gaps and     *)
(* follow-up queries are records of a topic and a preference, a report is the *)
(* set of source IDs it cites and whether it leaves a claim uncited. A search *)
(* returns results; two results may be of one source (source_id) and differ   *)
(* in what they say of it.                                                    *)
EXTENDS Integers, FiniteSets, FiniteSetsExt

CONSTANTS
  PlanQueries,            \* search queries of the plan, stripped and casefolded
  CoverageTopic,          \* the gap of a pool with too few sources
  GapSets,                \* gap lists and follow-up lists a model may return
  WebResults, PrivateResults, McpResults,
  Id,                     \* source_id of every result
  Papers, Page,           \* papers among the web results, and the page of each
  Blank,                  \* web results without content
  CitedSets,              \* sets of source IDs a report may cite, invented ones too
  Relevance, Quality,     \* of every result for the query, in percent
  MinimumSources,         \* minimum_source_count, minimum_evidence_count (2)
  MinimumAverage,         \* minimum_average_score (25)
  MaxFollowUps,           \* follow-up queries of the fallback (6)
  MaxIterations,          \* max_iterations (2)
  MaxWriterAttempts,      \* max_writer_attempts (2)
  MaxReflectionAttempts,  \* max_reflection_attempts of the short graph (2)
  MaxCrashes,             \* bound on process crashes
  None

Results == WebResults \cup PrivateResults \cup McpResults
Ids(results) == {Id[r] : r \in results}

ASSUME BoundsAssumption ==
  /\ MaxIterations \in Nat /\ MaxCrashes \in Nat /\ MaxFollowUps \in Nat \ {0}
  /\ MaxWriterAttempts \in Nat \ {0} /\ MaxReflectionAttempts \in Nat \ {0}
  /\ MinimumSources \in Nat /\ IsFiniteSet(Results)
  /\ Blank \subseteq WebResults /\ Papers \subseteq WebResults
  /\ Relevance \in [Results -> 0..100]
  /\ Quality \in [Results -> 0..100]

\* An ID names the origin of its source: the page and whether it is a paper,
\* the chunk of a private document, or the text that an MCP tool returned.
ASSUME IdAssumption ==
  /\ \A r, s \in WebResults :
       Id[r] = Id[s] <=> Page[r] = Page[s] /\ (r \in Papers <=> s \in Papers)
  /\ \A r, s \in McpResults : Id[r] = Id[s] => r = s
  /\ Ids(WebResults) \cap Ids(PrivateResults) = {}
  /\ Ids(McpResults) \cap Ids(WebResults \cup PrivateResults) = {}

VARIABLES
  graph,    \* "eight", or "short" when no Local Scout is configured
  st,       \* values of the ResearchState channels
  next,     \* nodes of the current superstep; {} after END
  writes,   \* node |-> update, for the nodes of the superstep that returned
  drafts,   \* reports written so far inside the running Writer node
  saved,    \* values and nodes of the superstep before, while a crash may follow
  run,      \* "running", "down", "raised" (ainvoke raises) or "ended"
  crashes,
  steps     \* rows of research_agent_steps, the next number, the refused ones

vars == <<graph, st, next, writes, drafts, saved, run, crashes, steps>>

-----------------------------------------------------------------------------
(* The state                                                                  *)

Gap == (UNION GapSets) \cup {[query |-> CoverageTopic, preference |-> "hybrid"]}
Report == [cited : CitedSets, uncited : BOOLEAN]
Decision == [status : {"approved", "revise"}, human_review_required : BOOLEAN]
Analysis == [needs_more_research : BOOLEAN, gaps : SUBSET Gap]

ASSUME NoneAssumption == None \notin Report \cup {"research_report_completed"}

InitialState ==
  [status |-> None, route |-> None, is_high_risk_domain |-> FALSE,
   answered |-> FALSE, plan |-> {}, outcomes |-> {},
   web |-> {}, private |-> {}, mcp |-> {},
   evidence |-> {}, top_private |-> None, gaps |-> {}, analysis |-> None,
   supplementary |-> {}, attempted |-> {}, iteration |-> 0,
   report |-> None, decision |-> None, reflection_attempts |-> 0]

EightAgentNodes ==
  {"initialize", "intent_router", "direct_answer", "planner", "web_scout",
   "local_scout", "evidence_judge", "analyst", "reflect", "research_dispatch",
   "writer"}
ShortGraphNodes ==
  {"initialize", "route", "direct_answer", "planner", "web_search", "evidence",
   "analyst", "reflection"}

AGENT_STEP_NODE_NAMES ==
  {"intent_router", "direct_answer", "planner", "web_scout", "local_scout",
   "evidence_judge", "analyst", "reflect", "writer"}

Nodes == IF graph = "eight" THEN EightAgentNodes ELSE ShortGraphNodes

-----------------------------------------------------------------------------
(* The step trace: the recorder of a process numbers its rows from 1; the     *)
(* table refuses a second row of a number, and the recorder only logs that.   *)

Record(trace, roles) ==
  LET last == trace.sequence + Cardinality(roles \cap AGENT_STEP_NODE_NAMES) - 1
  IN [rows     |-> IF last > trace.rows THEN last ELSE trace.rows,
      sequence |-> last + 1,
      lost     |-> trace.lost \cup (trace.sequence..last \cap 1..trace.rows)]

-----------------------------------------------------------------------------
(* Edges and supersteps                                                       *)

SelectRoute(values) ==
  IF values.route = "direct" THEN "direct_answer" ELSE "planner"

SelectEightAgentReflectionPath(values) ==
  IF values.supplementary # {} THEN "research_dispatch" ELSE "writer"

SelectReflectionPath(values) ==
  IF /\ values.decision.status = "revise"
     /\ values.reflection_attempts < MaxReflectionAttempts
  THEN {"analyst"} ELSE {}

EightAgentEdges(node, values) ==
  CASE node = "initialize"        -> {"intent_router"}
    [] node = "intent_router"     -> {SelectRoute(values)}
    [] node = "planner"           -> {"web_scout", "local_scout"}
    [] node \in {"web_scout", "local_scout"} -> {"evidence_judge"}
    [] node = "evidence_judge"    -> {"analyst"}
    [] node = "analyst"           -> {"reflect"}
    [] node = "reflect"           -> {SelectEightAgentReflectionPath(values)}
    [] node = "research_dispatch" -> {"web_scout", "local_scout"}
    [] OTHER                      -> {}

ShortGraphEdges(node, values) ==
  CASE node = "initialize"    -> {"route"}
    [] node = "route"         -> {SelectRoute(values)}
    [] node = "planner"       -> {"web_search"}
    [] node = "web_search"    -> {"evidence"}
    [] node = "evidence"      -> {"analyst"}
    [] node = "analyst"       -> {"reflection"}
    [] node = "reflection"    -> SelectReflectionPath(values)
    [] OTHER                  -> {}

Edges(node, values) ==
  IF graph = "eight" THEN EightAgentEdges(node, values)
  ELSE ShortGraphEdges(node, values)

Writers(channel, updates) == {n \in DOMAIN updates : channel \in DOMAIN updates[n]}

\* No two nodes of a superstep write one channel.
Merged(updates) ==
  [channel \in DOMAIN st |->
     IF Writers(channel, updates) = {} THEN st[channel]
     ELSE updates[CHOOSE n \in Writers(channel, updates) : TRUE][channel]]

\* The last node of the superstep has returned: the updates are merged, the
\* edges are followed, and the started rows of the next nodes are written.
EndSuperstep(updates) ==
  LET values == Merged(updates)
      following == UNION {Edges(n, values) : n \in next}
  IN /\ st' = values
     /\ next' = following
     /\ run' = IF following = {} THEN "ended" ELSE "running"
     /\ steps' = Record(Record(steps, next \ DOMAIN writes), following)
     /\ saved' = IF crashes < MaxCrashes THEN [st |-> st, next |-> next] ELSE None
     /\ writes' = <<>>

-----------------------------------------------------------------------------
(* Nodes                                                                      *)

Pending(node) ==
  run = "running" /\ node \in next /\ node \notin DOMAIN writes

Return(node, update) ==
  /\ \E returned \in {update} :     \* evaluated once
       LET updates == [n \in DOMAIN writes \cup {node} |->
                         IF n = node THEN returned ELSE writes[n]]
       IN IF DOMAIN updates = next THEN EndSuperstep(updates)
          ELSE /\ writes' = updates
               /\ steps' = Record(steps, {node})
               /\ UNCHANGED <<st, next, saved, run>>
  /\ UNCHANGED <<graph, crashes>>

Initialize ==
  /\ Pending("initialize")
  /\ Return("initialize", [status |-> "initialized"])
  /\ UNCHANGED drafts

\* The model's decision is taken as it is: route and risk are independent.
\* A failed classification falls back to two keyword rules, independent too.
Classifications ==
  [route : {"direct", "deep_research"}, is_high_risk_domain : BOOLEAN]

RouteNode ==
  /\ \E node \in {"intent_router", "route"}, decision \in Classifications :
       /\ Pending(node)
       /\ Return(node, [route |-> decision.route, status |-> "routed",
                        is_high_risk_domain |-> decision.is_high_risk_domain])
  /\ UNCHANGED drafts

DirectAnswer ==
  /\ Pending("direct_answer")
  /\ Return("direct_answer",
            [answered |-> TRUE, status |-> "direct_answer_completed"])
  /\ UNCHANGED drafts

Planner ==
  /\ Pending("planner") /\ graph = "eight"
  /\ Return("planner", [plan |-> PlanQueries, attempted |-> PlanQueries,
                        iteration |-> 0, status |-> "research_plan_ready"])
  /\ UNCHANGED drafts

\* _research_tasks_for_state: the plan in the first round and whenever there
\* is no follow-up, otherwise the follow-ups meant for this scout.
Tasks(source) ==
  IF st.iteration = 0 \/ st.supplementary = {} THEN st.plan
  ELSE {item.query :
          item \in {i \in st.supplementary : i.preference \in {source, "hybrid"}}}

\* By source ID, the last result wins, whatever it says.
Merge(existing, new) == new \cup {r \in existing : Id[r] \notin Ids(new)}

\* build_web_source_pool: one result for a page, a paper if there is one;
\* which one of several depends on the order of the tasks and providers.
SourcePools(found) ==
  {pool \in SUBSET found :
     /\ \A r, s \in pool : Page[r] = Page[s] => r = s
     /\ \A r \in found : \E s \in pool :
          Page[s] = Page[r] /\ (r \in Papers => s \in Papers)}
WebPools == UNION {SourcePools(found) : found \in SUBSET WebResults}

\* What a round of web searches may return; a failed task returns nothing.
WebSearches(tasks) == IF tasks = {} THEN {{}} ELSE WebPools

Outcomes(tasks) == {[round |-> st.iteration, query |-> q] : q \in tasks}

\* The MCP tool is asked the run's query once a round and returns one result
\* or raises; an error leaves the pool as it is.
McpScout(tasks) ==
  IF tasks = {} THEN {{}} ELSE {{}} \cup {{r} : r \in McpResults}

WebScout ==
  /\ Pending("web_scout")
  /\ \E found \in WebSearches(Tasks("web")), mcp \in McpScout(Tasks("web")) :
       Return("web_scout",
              [outcomes |-> st.outcomes \cup Outcomes(Tasks("web")),
               web |-> Merge(st.web, found), mcp |-> Merge(st.mcp, mcp)])
  /\ UNCHANGED drafts

\* A failed or late retrieval is an error of its task; the others count, and
\* of two results for one chunk the better scored one.
PrivatePools ==
  {pool \in SUBSET PrivateResults : \A r, s \in pool : Id[r] = Id[s] => r = s}
LocalSearches(tasks) == IF tasks = {} THEN {{}} ELSE PrivatePools

\* Mutant: the sources of the round replace those of earlier rounds.
LocalScoutReplacing ==
  /\ Pending("local_scout")
  /\ \E found \in LocalSearches(Tasks("private")) :
       Return("local_scout", [private |-> found])
  /\ UNCHANGED drafts

LocalScout ==
  /\ Pending("local_scout")
  /\ \E found \in LocalSearches(Tasks("private")) :
       Return("local_scout", [private |-> Merge(st.private, found)])
  /\ UNCHANGED drafts

Normalized(web) == web \ Blank

\* EvidenceScorer, in units of 0.0001: relevance and quality weigh 60 and 20
\* percent, a locator (every source has one) and a paper add 10 each.
Overall(r) ==
  60 * Relevance[r] + 20 * Quality[r] + 1000 + (IF r \in Papers THEN 1000 ELSE 0)

Best(evidence) == {r \in evidence : \A s \in evidence : Overall(s) <= Overall(r)}

\* The first of the best scored sources, if it is private; web sources come
\* first in the list, then the private ones in the order they were found.
TopPrivate(evidence) ==
  IF Best(evidence) \cap WebResults = {} /\ Best(evidence) \cap PrivateResults # {}
  THEN Ids(Best(evidence) \cap PrivateResults) ELSE {None}

FallbackGaps(evidence) ==
  IF Cardinality(evidence) >= MinimumSources THEN {}
  ELSE {[query |-> CoverageTopic, preference |-> "hybrid"]}

\* Mutant: the MCP pool of the state is left out of the join.
JudgeEvidenceWithoutPool ==
  /\ Pending("evidence_judge")
  /\ LET evidence == Normalized(st.web) \cup st.private
                      \cup (st.evidence \cap McpResults)
     IN \E top \in TopPrivate(evidence) :
          Return("evidence_judge",
                 [evidence |-> evidence, top_private |-> top,
                  gaps |-> FallbackGaps(evidence), status |-> "evidence_judged"])
  /\ UNCHANGED drafts

\* The model's audit counts if it names known sources only and the pool is
\* not empty.
Judgments(evidence) ==
  {FallbackGaps(evidence)} \cup (IF evidence = {} THEN {} ELSE GapSets)

JudgeEvidence ==
  /\ Pending("evidence_judge")
  /\ LET evidence == Merge(Normalized(st.web) \cup st.private,
                          Merge(st.evidence \cap McpResults, st.mcp))
     IN \E gaps \in Judgments(evidence), top \in TopPrivate(evidence) :
          Return("evidence_judge",
                 [evidence |-> evidence, top_private |-> top, gaps |-> gaps,
                  status |-> "evidence_judged"])
  /\ UNCHANGED drafts

\* An analysis that names an unknown source is replaced by the fallback.
Analyses ==
  {[needs_more_research |-> FALSE, gaps |-> {}]}
    \cup [needs_more_research : BOOLEAN, gaps : GapSets]

Analyze ==
  /\ Pending("analyst") /\ graph = "eight"
  /\ \E analysis \in Analyses :
       Return("analyst", [analysis |-> analysis, status |-> "analysis_completed"])
  /\ UNCHANGED drafts

\* Mutant: attempted queries are not compared.
UnattemptedOrNot(gaps) == gaps

Unattempted(gaps) == {g \in gaps : g.query \notin st.attempted}

\* Without a usable answer the gaps themselves are searched, a few at most.
FallbackFollowUps(gaps) ==
  LET new == Unattempted(gaps)
  IN kSubset(Min({MaxFollowUps, Cardinality(new)}), new)

\* The follow-ups ReflectionAgent.reflect may decide on; none means write.
FollowUps ==
  LET gaps == st.gaps \cup st.analysis.gaps
  IN IF ~st.analysis.needs_more_research /\ gaps = {} THEN {{}}
     ELSE {Unattempted(answer) : answer \in GapSets} \cup FallbackFollowUps(gaps)

\* Mutant: the budget is exhausted one round late.
ExhaustedLate(iteration) == iteration > MaxIterations

Exhausted(iteration) == iteration >= MaxIterations

Reflect ==
  /\ Pending("reflect")
  /\ \E wanted \in FollowUps :
       LET queries == IF Exhausted(st.iteration) THEN {} ELSE wanted
       IN Return("reflect",
                 [supplementary |-> queries,
                  attempted |-> st.attempted \cup {q.query : q \in queries},
                  iteration |-> IF queries = {} THEN st.iteration
                                ELSE st.iteration + 1,
                  status |-> IF queries = {} THEN "analysis_approved_for_writing"
                             ELSE "supplementary_research_required"])
  /\ UNCHANGED drafts

Dispatch ==
  /\ Pending("research_dispatch")
  /\ Return("research_dispatch", <<>>)
  /\ UNCHANGED drafts

-----------------------------------------------------------------------------
(* The quality gate and the Writer                                            *)

\* Mutant: every ID a provider ever returns is taken for known.
UnknownSourcesAnywhere(report, evidence) == report.cited \ Ids(Results)

UnknownSources(report, evidence) == report.cited \ Ids(evidence)

BelowAverage(evidence) ==
  \/ evidence = {} /\ MinimumAverage > 0
  \/ MapThenSumSet(Overall, evidence) < 100 * MinimumAverage * Cardinality(evidence)

\* The first of the best sources is private and the report does not cite it.
TopPrivateUncited(report) ==
  st.top_private # None /\ st.top_private \notin report.cited

\* CitationValidator.validate and ReflectionAgent.review.
Review(report, evidence) ==
  [status |->
     IF \/ Cardinality(evidence) < MinimumSources
        \/ BelowAverage(evidence)
        \/ UnknownSources(report, evidence) # {}
        \/ report.uncited
        \/ report.cited = {}
        \/ TopPrivateUncited(report)
     THEN "revise" ELSE "approved",
   human_review_required |-> st.is_high_risk_domain]

ReportStatus(decision) ==
  IF decision.status = "approved" THEN "research_report_completed"
  ELSE "research_report_revision_required"

\* A draft the gate refuses, with attempts left: the next one repairs it.
Repair ==
  /\ Pending("writer")
  /\ drafts + 1 < MaxWriterAttempts
  /\ \E report \in Report : Review(report, st.evidence).status = "revise"
  /\ drafts' = drafts + 1
  /\ UNCHANGED <<graph, st, next, writes, saved, run, crashes, steps>>

\* Whether a draft of the loop was refused is all that is counted.
ReflectionAttempts(decision) ==
  IF drafts > 0 \/ decision.status = "revise" THEN MaxWriterAttempts ELSE 1

\* Mutant: the loop ends with its first draft.
WriterWithoutRepair ==
  /\ Pending("writer")
  /\ \E report \in Report :
       LET decision == Review(report, st.evidence)
       IN Return("writer",
                    [report |-> report, answered |-> TRUE, decision |-> decision,
                     reflection_attempts |-> ReflectionAttempts(decision),
                     status |-> ReportStatus(decision)])
  /\ drafts' = drafts + 1

Writer ==
  /\ Pending("writer")
  /\ \E report \in Report :
       LET decision == Review(report, st.evidence)
       IN /\ decision.status = "approved" \/ drafts + 1 = MaxWriterAttempts
          /\ Return("writer",
                    [report |-> report, answered |-> TRUE, decision |-> decision,
                     reflection_attempts |-> ReflectionAttempts(decision),
                     status |-> ReportStatus(decision)])
  /\ drafts' = drafts + 1

-----------------------------------------------------------------------------
(* The short graph                                                            *)

PlannerNode ==
  /\ Pending("planner") /\ graph = "short"
  /\ Return("planner", [plan |-> PlanQueries, status |-> "research_plan_ready"])
  /\ UNCHANGED drafts

WebSearch ==
  /\ Pending("web_search")
  /\ \E found \in WebSearches(st.plan) :
       \E status \in IF found = {} THEN {"web_search_failed", "web_search_empty"}
                     ELSE {"web_search_partial", "web_search_completed"} :
         Return("web_search", [outcomes |-> Outcomes(st.plan), web |-> found,
                               status |-> status])
  /\ UNCHANGED drafts

ScoreEvidence ==
  /\ Pending("evidence")
  /\ \E top \in TopPrivate(Normalized(st.web)) :
       Return("evidence", [evidence |-> Normalized(st.web), top_private |-> top,
                           status |-> "evidence_scored"])
  /\ UNCHANGED drafts

\* Mutant: a report is not counted as an attempt.
GenerateUncounted ==
  /\ Pending("analyst") /\ graph = "short"
  /\ \E report \in Report :
       Return("analyst", [report |-> report, status |-> "report_generated"])
  /\ UNCHANGED drafts

GenerateReport ==
  /\ Pending("analyst") /\ graph = "short"
  /\ \E report \in Report :
       Return("analyst", [report |-> report, status |-> "report_generated",
                          reflection_attempts |-> st.reflection_attempts + 1])
  /\ UNCHANGED drafts

ReviewReport ==
  /\ Pending("reflection")
  /\ LET decision == Review(st.report, st.evidence)
     IN Return("reflection", [answered |-> TRUE, decision |-> decision,
                              status |-> ReportStatus(decision)])
  /\ UNCHANGED drafts

-----------------------------------------------------------------------------
(* The process and the job that resumes the run                               *)

\* A node raises: the others of its superstep are cancelled and every node in
\* flight is recorded as failed; the values are dropped with the exception.
\* IntentRouter.classify catches what its call raises.
NodeRaises ==
  /\ \E node \in next \ {"initialize", "intent_router", "route", "research_dispatch"} :
       Pending(node)
  /\ run' = "raised"
  /\ steps' = Record(steps, next \ DOMAIN writes)
  /\ st' = InitialState /\ next' = {} /\ writes' = <<>> /\ drafts' = 0
  /\ saved' = None
  /\ UNCHANGED <<graph, crashes>>

\* The process dies. The thread holds the values at the start of the running
\* superstep, with the updates of any of its nodes that returned, or, if that
\* checkpoint was still on its way, those of the superstep before.
Crash ==
  /\ run = "running" /\ crashes < MaxCrashes
  /\ run' = "down" /\ crashes' = crashes + 1
  /\ \/ /\ \E kept \in SUBSET DOMAIN writes :
             /\ writes' = [n \in kept |-> writes[n]]
             /\ drafts' = IF "writer" \in kept THEN drafts ELSE 0
        /\ UNCHANGED <<st, next>>
     \/ /\ IF saved = None THEN next' = {} /\ UNCHANGED st
           ELSE st' = saved.st /\ next' = saved.next
        /\ writes' = <<>> /\ drafts' = 0
  /\ saved' = None
  /\ UNCHANGED <<graph, steps>>

\* A new process resumes the thread with no input and a new recorder. A
\* thread without a checkpoint cannot be resumed.
Resume ==
  /\ run = "down"
  /\ run' = IF next = {} THEN "raised" ELSE "running"
  /\ steps' = Record([steps EXCEPT !.sequence = 1], next \ DOMAIN writes)
  /\ UNCHANGED <<graph, st, next, writes, drafts, saved, crashes>>

Init ==
  /\ graph \in {"eight", "short"}
  /\ st = InitialState
  /\ next = {"initialize"}
  /\ writes = <<>>
  /\ drafts = 0
  /\ saved = None
  /\ run = "running"
  /\ crashes = 0
  /\ steps = [rows |-> 0, sequence |-> 1, lost |-> {}]

EightAgentStep ==
  Planner \/ WebScout \/ LocalScout \/ JudgeEvidence \/ Analyze \/ Reflect \/ Dispatch
    \/ Repair \/ Writer

ShortGraphStep ==
  PlannerNode \/ WebSearch \/ ScoreEvidence \/ GenerateReport \/ ReviewReport

NodeStep ==
  Initialize \/ RouteNode \/ DirectAnswer
    \/ EightAgentStep \/ ShortGraphStep

Next ==
  NodeStep \/ NodeRaises \/ Crash \/ Resume

Spec == Init /\ [][Next]_vars

-----------------------------------------------------------------------------
(* Properties                                                                 *)

\* The channels hold values of their types, the nodes are the graph's, and a
\* superstep keeps updates only of its own nodes (state.py, graph.py).
TypeOK ==
  /\ graph \in {"eight", "short"} /\ run \in {"running", "down", "raised", "ended"}
  /\ next \subseteq Nodes /\ DOMAIN writes \subseteq next
  /\ st.plan \in {{}, PlanQueries} /\ st.supplementary \subseteq Gap
  /\ st.web \subseteq WebResults /\ st.private \subseteq PrivateResults
  /\ st.mcp \subseteq McpResults /\ st.evidence \subseteq Results
  /\ st.analysis \in Analysis \cup {None} /\ st.report \in Report \cup {None}
  /\ st.decision \in Decision \cup {None}
  /\ st.iteration \in 0..MaxIterations /\ st.gaps \subseteq Gap
  /\ drafts \in 0..MaxWriterAttempts /\ crashes \in 0..MaxCrashes
  /\ steps.sequence \in 1..(steps.rows + 1)

PastTheJudge ==
  /\ graph = "eight"
  /\ \/ next \cap {"analyst", "reflect", "writer"} # {}
     \/ run = "ended" /\ st.route = "deep_research"

\* From the judge to the report, the evidence is one result of every source
\* the scouts have found, the last one, unless that has no content: no update
\* of a parallel scout, of an earlier round or of a process that died is lost
\* at the join, and none is kept that a later round replaced (graph.py: the
\* merges of the scouts and the [web_scout, local_scout] edge; sources.py).
EvidenceIsEveryPool ==
  PastTheJudge =>
    /\ st.evidence = Normalized(st.web) \cup st.private \cup st.mcp
    /\ \A r, s \in st.evidence : Id[r] = Id[s] => r = s

\* A round never searches the web for what an earlier round searched, the
\* iteration counter is the number of follow-up rounds decided so far, and a
\* decided round is in attempted_queries, also after a resume (graph.py:
\* reflect_node; reflection.py: the duplicate removal).
RoundsAreNew ==
  /\ \A a, b \in st.outcomes : a.query = b.query => a.round = b.round
  /\ \A o \in st.outcomes : o.round <= st.iteration
  /\ graph = "eight" => {o.query : o \in st.outcomes} \subseteq st.attempted
  /\ {q.query : q \in st.supplementary} \subseteq st.attempted

\* A report that is presented as completed was approved for the evidence it is
\* stored with: it cites sources of that evidence only, at least one, leaves no
\* claim uncited, and the run was not left half repaired (graph.py:
\* writer_node, reflection_node, select_reflection_path; citations.py).
CompletedReportIsSupported ==
  st.status = "research_report_completed" =>
    /\ st.decision.status = "approved" /\ st.answered
    /\ st.report.cited # {} /\ st.report.cited \subseteq Ids(st.evidence)
    /\ ~st.report.uncited /\ Cardinality(st.evidence) >= MinimumSources

\* A run ends without a report only where the router answered directly, and a
\* refused report is handed out only when no attempt is left: the eight-agent
\* Writer has written max_attempts drafts of it, the analyst of the short graph
\* as many reports as select_reflection_path allows (graph.py: writer_node).
RefusedOnlyWhenExhausted ==
  run = "ended" =>
    /\ st.answered
    /\ (st.route = "deep_research") = (st.report # None)
    /\ st.status = "research_report_revision_required" =>
         IF graph = "eight" THEN drafts = MaxWriterAttempts
         ELSE st.reflection_attempts >= MaxReflectionAttempts

\* While a process runs, a source that was found stays in its pool, in its last
\* version, and leaves the evidence only because that version is blank; what
\* was searched and attempted and the number of rounds only grow (graph.py: the
\* merges of the scouts). A resume may take them back to a checkpoint.
NothingIsForgotten ==
  [][run = "running" /\ run' \notin {"down", "raised"} =>
       /\ Ids(st.web) \subseteq Ids(st'.web)
       /\ Ids(st.private) \subseteq Ids(st'.private)
       /\ Ids(st.mcp) \subseteq Ids(st'.mcp)
       /\ Ids(st.evidence) \subseteq Ids(st'.evidence \cup (st'.web \cap Blank))
       /\ st.outcomes \subseteq st'.outcomes
       /\ st.attempted \subseteq st'.attempted
       /\ st.iteration <= st'.iteration]_vars

\* The workflow does a bounded amount of work, whatever the models answer and
\* wherever it is resumed: a row when an agent starts and one when it is done,
\* for router, planner, writer and max_iterations + 1 rounds of five agents, or
\* for the planner and the attempts of the short graph (docs/reliability.md:
\* "There is no unbounded loop anywhere in the workflow").
WorkIsBounded ==
  steps.rows <= IF graph = "eight" THEN 2 * (3 + 5 * (MaxIterations + 1))
                ELSE 2 * (1 + MaxReflectionAttempts)
=============================================================================
