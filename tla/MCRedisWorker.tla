--------------------------- MODULE MCRedisWorker ---------------------------
(* Small instances of RedisWorker for TLC.                                  *)
EXTENDS RedisWorker, TLC

CONSTANTS Filled, Scan

(* The strings of the two fields.                                           *)
MCData == {"", Filled, Scan}
MCLangs == {"", "eng", "XXX"}

(* A PDF run pushes its text with a detected language, an image run its     *)
(* text with no language, an unreadable PDF no text with language "XXX".    *)
MCOutcome ==
    [k \in Keys |-> {[data |-> Filled, lang |-> "eng"],
                     [data |-> Scan, lang |-> ""],
                     [data |-> "", lang |-> "XXX"]}]

Symmetric == Permutations(Threads) \cup Permutations(Keys)
=============================================================================
