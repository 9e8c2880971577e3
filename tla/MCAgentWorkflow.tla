--------------------------- MODULE MCAgentWorkflow ---------------------------
EXTENDS AgentWorkflow, TLC

CONSTANTS page, web, paper, private, mcp, ghost, a, b, c, w1, w2, w3, p1, p2, m1

\* w1 and w2 are two results of one web page, the second without content, and
\* w3 is the paper at the same address; p2 is the chunk of p1, found for another
\* query with a lower score.
MCPage == [r \in WebResults |-> page]
MCId == [r \in Results |-> CASE r \in {w1, w2} -> web
                             [] r = w3 -> paper
                             [] r \in {p1, p2} -> private
                             [] r = m1 -> mcp]
MCRelevance == [r \in Results |-> CASE r = w1 -> 60
                                    [] r \in {w2, w3} -> 10
                                    [] r = p1 -> 80
                                    [] r = p2 -> 50
                                    [] r = m1 -> 20]
MCQuality == [r \in Results |-> CASE r = w1 -> 100
                                  [] r \in {w2, w3} -> 0
                                  [] r \in {p1, p2} -> 40
                                  [] r = m1 -> 10]
Follow(q, p) == [query |-> q, preference |-> p]
MCCitedSets == {{}, {web}, {private}, {web, private}, {web, private, ghost}}
\* No gap, and two topics: one already planned, one for the Local Scout only.
MCGapSets == {{}, {Follow(a, "web"), Follow(c, "private")}}
=============================================================================
