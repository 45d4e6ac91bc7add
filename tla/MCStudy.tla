------------------------------ MODULE MCStudy ------------------------------
(***************************************************************************)
(* The parts of what the market is read for and what the audience is       *)
(* shown, one at a time: the engines of one timeframe (structure,          *)
(* imbalances, order blocks, pools, the points that drive them and the     *)
(* candidates that follow), the ledger asked for anything in any order,    *)
(* the copies two threads of the Director take of it, its audience, the    *)
(* tail that brings the audience in, and the sink that takes the frames    *)
(* out.  The second call is too short-lived to publish.                    *)
(***************************************************************************)
EXTENDS Scoreboard, Audience, AudienceTail, Structure, Imbalance, MCOrderBlocks, Liquidity,
        Candidates, SpeakerSink

CONSTANTS first, second, f1, f2

MCCreated == (first :> 0) @@ (second :> 1)
MCExpires == (first :> 3) @@ (second :> 2)

MCShapes  == {Bar(8, 5, 8), Bar(1, 1, 1), Bar(5, 4, 4), Bar(6, 3, 5)}
MCCandles == {Bar(6, 5, 6), Bar(2, 0, 2), Bar(7, 4, 6), Bar(3, 3, 3)}

\* One file has a line with a stamp before one without; the other a line too long to be
\* kept by halves before one without an id.
MCWithId   == {<<f1, 1>>, <<f1, 2>>, <<f2, 1>>}
MCStamped  == {<<f1, 1>>, <<f2, 2>>}
MCOverlong == {<<f2, 1>>}

VARIABLE part

copyVars   == <<mtime, shown, stamp, viewer, raced>>
engineVars == <<structureVars, imbalanceVars, blockVars, poolVars, candidateVars>>
crowdVars  == <<boardVars, audienceVars, tailVars, sinkVars>>

LedgerPart   == part = "ledger" /\ LedgerNext
CopyPart     == part = "copy" /\ BoardNext
AudiencePart == part = "audience" /\ AudienceNext
TailPart     == part = "tail" /\ TailNext
SinkPart     == part = "sink" /\ SinkNext

CrowdPart ==
    \/ LedgerPart /\ UNCHANGED <<copyVars, audienceVars, tailVars, sinkVars>>
    \/ CopyPart /\ UNCHANGED <<audienceVars, tailVars, sinkVars>>
    \/ AudiencePart /\ UNCHANGED <<boardVars, tailVars, sinkVars>>
    \/ TailPart /\ UNCHANGED <<boardVars, audienceVars, sinkVars>>
    \/ SinkPart /\ UNCHANGED <<boardVars, audienceVars, tailVars>>

StructurePart == part = "structure" /\ StructureNext
ImbalancePart == part = "imbalance" /\ ImbalanceNext
BlockPart     == part = "blocks" /\ BlockNext
PoolPart      == part = "pools" /\ PoolNext
CandidatePart == part = "candidates" /\ CandidatesNext

EnginePart ==
    \/ StructurePart /\ UNCHANGED <<imbalanceVars, blockVars, poolVars, candidateVars>>
    \/ ImbalancePart /\ UNCHANGED <<structureVars, blockVars, poolVars, candidateVars>>
    \/ BlockPart /\ UNCHANGED <<structureVars, imbalanceVars, poolVars, candidateVars>>
    \/ PoolPart /\ UNCHANGED <<structureVars, imbalanceVars, blockVars, candidateVars>>
    \/ CandidatePart /\ UNCHANGED <<structureVars, imbalanceVars, blockVars, poolVars>>

MCVars == <<crowdVars, engineVars, part>>

\* A part that is not the one keeps one of its initial states.
MCInit ==
    /\ part \in {"ledger", "copy", "audience", "tail", "structure", "imbalance", "blocks", "pools",
                "candidates", "sink"}
    /\ BoardInit /\ AudienceInit /\ TailInit /\ SinkInit
    /\ StructureInit /\ ImbalanceInit /\ BlockInit /\ PoolInit
    /\ part # "tail" => halves = [f \in Logs |-> 0] /\ newest = CHOOSE f \in Logs : TRUE
    /\ part # "sink" => path
    /\ part # "blocks" => seed = 0
    /\ CandidatesInit
    /\ part # "candidates" => replay = 0 /\ candles[1].h = 1

MCNext ==
    \/ CrowdPart /\ UNCHANGED <<engineVars, part>>
    \/ EnginePart /\ UNCHANGED <<crowdVars, part>>

MCSpec == MCInit /\ [][MCNext]_MCVars

\* The variables of the ledger, the show, the sink and the four engines have their types and
\* their queues their bounds.
StudyTypeOK ==
    /\ LedgerTypeOK /\ AudienceTypeOK /\ SinkTypeOK
    /\ StructureTypeOK /\ ImbalanceTypeOK /\ BlockTypeOK /\ PoolTypeOK
=============================================================================
