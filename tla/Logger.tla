------------------------------- MODULE Logger -------------------------------
(***************************************************************************)
(* The global logger of internal/common/logger/logger.go.  Init sets it,   *)
(* and Get makes a default one when it finds none: it reads the global and *)
(* writes it later, without a lock, in whichever goroutine logs first.     *)
(***************************************************************************)

VARIABLES
  logger,   \* the global: "nil", "default" or "configured"
  getting   \* the goroutines in Get that have found nil

loggerVars == <<logger, getting>>

LoggerInit ==
  /\ logger = "nil"
  /\ getting = {}

(* Init.  With a wrong level, or when zap cannot build the logger, it       *)
(* returns before the assignment.                                           *)
Configure ==
  /\ logger' = "configured"
  /\ UNCHANGED getting

(* Get in goroutine g: the read of the global, and then the assignment if   *)
(* it was nil.                                                              *)
GetFinds(g) ==
  /\ g \notin getting
  /\ logger # "nil"
  /\ UNCHANGED loggerVars

(* Mutant of GetFindsNil: a logger that is there is replaced all the same.  *)
GetFindsDefault(g) ==
  /\ g \notin getting
  /\ logger \in {"nil", "configured"}
  /\ getting' = getting \cup {g}
  /\ UNCHANGED logger

GetFindsNil(g) ==
  /\ g \notin getting
  /\ logger = "nil"
  /\ getting' = getting \cup {g}
  /\ UNCHANGED logger

GetFallsBack(g) ==
  /\ g \in getting
  /\ logger' = "default"
  /\ getting' = getting \ {g}

-----------------------------------------------------------------------------
LoggerTypeOK == logger \in {"nil", "default", "configured"}

(* Once the configured logger is set and no Get is under way that had found *)
(* none, it stays: only the goroutines that overlap Init can undo it, and   *)
(* each of them once.                                                       *)
ConfiguredLoggerStays ==
  [](logger = "configured" /\ getting = {} => [](logger = "configured"))
=============================================================================
