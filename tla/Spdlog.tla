------------------------------- MODULE Spdlog -------------------------------
(***************************************************************************)
(* The parts of src/common besides the asynchronous logger, side by side:  *)
(* of spdlog the file sinks, the registry with MessageLog, the formatter   *)
(* of lines, and cppformat, which makes the text of a message; and the     *)
(* checksums and hashes.  Each is reached by calls that carry a line or a  *)
(* key and nothing else, so a behaviour is one of any of them.             *)
(***************************************************************************)
EXTENDS FileSinks, LoggerRegistry, PatternFormatter, CppFormat, HashKit

VARIABLE part

vars == <<part, fileVars, regVars, patternVars, formatVars, hashVars>>

Init ==
  /\ part \in {"sink", "registry", "pattern", "format", "hash"}
  /\ FileInit /\ RegInit /\ PatternInit /\ HashInit
  /\ IF part = "format" THEN FormatInit ELSE FormatUnused
  /\ part # "sink" => kind = "simple" /\ ~force_flush

Next ==
  \/ part = "sink" /\ FileNext /\ UNCHANGED <<part, regVars, patternVars, formatVars, hashVars>>
  \/ part = "registry" /\ RegNext /\ UNCHANGED <<part, fileVars, patternVars, formatVars, hashVars>>
  \/ part = "pattern" /\ PatternNext /\ UNCHANGED <<part, fileVars, regVars, formatVars, hashVars>>
  \/ part = "format" /\ FormatNext /\ UNCHANGED <<part, fileVars, regVars, patternVars, hashVars>>
  \/ part = "hash" /\ HashNext /\ UNCHANGED <<part, fileVars, regVars, patternVars, formatVars>>

Spec == Init /\ [][Next]_vars
=============================================================================
