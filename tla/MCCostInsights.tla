---------------------------- MODULE MCCostInsights ----------------------------
(* The cost backend for TLC, on small sets: the requests that meet in its       *)
(* router, and the figures one of them is answered with.  The router never      *)
(* looks into a figure, so a behaviour is that of one of the two.               *)
EXTENDS MCCostInsightsRouter, MCCostFigures

VARIABLE part  \* the part of this behaviour
costVars == <<part, vars, figuresVars>>

OfRouter(step) == part = "router" /\ step /\ UNCHANGED <<part, figuresVars>>
OfFigures(step) == part = "figures" /\ step /\ UNCHANGED <<part, vars>>

\* The part that plays no role is at one of its starts.
CostInit ==
  /\ Init /\ FiguresInit
  /\ \/ part = "router" /\ request.op = "projects" /\ groups = <<>>
        /\ bill = CHOOSE any \in Bills : TRUE
     \/ part = "figures" /\ allowed = {} /\ visible = [k \in Callers |-> {}]

CostNext == OfRouter(Next) \/ OfFigures(FiguresNext)

\* The fairness of FairSpec.
CostSpec ==
  /\ CostInit /\ [][CostNext]_costVars
  /\ \A r \in Requests : WF_costVars(OfRouter(Serve(r)))
===============================================================================
