------------------------------ MODULE MCMarket ------------------------------
(***************************************************************************)
(* The parts of the market side, one at a time: the terminal gateway with  *)
(* copies of both kinds of caller and, apart from them, with its quotes;   *)
(* the live chart's ticks and minutes; the stored bars under a changing    *)
(* clock; and the walk into the past.                                      *)
(***************************************************************************)
EXTENDS Mt5Gateway, LiveChart, BarStore, HistoryWalk

CONSTANTS ui, history

VARIABLE part

NotGateway == UNCHANGED <<chartVars, storeVars, walkVars, part>>
NotChart   == UNCHANGED <<vars, storeVars, walkVars, part>>
NotStore   == UNCHANGED <<vars, chartVars, walkVars, part>>
NotWalk    == UNCHANGED <<vars, chartVars, storeVars, part>>

\* Copies of both callers while no quote is watched; then the foreground caller
\* with the quotes, between copies of its own.
JobsPart    == part = "jobs" /\ Next /\ symbol' = Nothing /\ NotGateway
QuotesPart  == part = "quotes" /\ Next /\ call'[history] = "none" /\ NotGateway
ChartPart   == part = "chart" /\ ChartNext /\ NotChart
StorePart   == part = "store" /\ StoreNext /\ NotStore
WalkPart    == part = "walk" /\ WalkNext /\ NotWalk

MCVars == <<vars, chartVars, storeVars, walkVars, part>>

\* A part that is not the one keeps one of its initial states.
MCInit ==
    /\ part \in {"jobs", "quotes", "chart", "store", "walk"}
    /\ Init /\ ChartInit /\ StoreInit /\ WalkInit
    /\ part # "store" => jump = 1
    /\ part # "walk" => walks /\ \A w \in Wants : want <= w

MCNext == JobsPart \/ QuotesPart \/ ChartPart \/ StorePart \/ WalkPart

\* The fairness each part's specification states.
FairGateway ==
    /\ WF_vars(part \in {"jobs", "quotes"} /\ Terminal)
    /\ \A c \in Callers : WF_vars(part \in {"jobs", "quotes"} /\ Proceed(c))

FairWalk ==
    /\ WF_walkVars(part = "walk" /\ ThreadStep) /\ WF_walkVars(part = "walk" /\ TakeFilled)
    /\ WF_walkVars(part = "walk" /\ OpenChart) /\ WF_walkVars(part = "walk" /\ Restart)

MCSpec == MCInit /\ [][MCNext]_MCVars /\ FairGateway /\ FairWalk

\* Every variable of every part has its type.
MarketTypeOK == GatewayTypeOK /\ ChartTypeOK /\ StoreTypeOK /\ WalkTypeOK
=============================================================================
