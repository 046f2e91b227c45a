----------------------------- MODULE AsicConfig -----------------------------
(***************************************************************************)
(* The configuration of the ASICs of one FEB/D as daqd.py's Connection     *)
(* keeps it: commands that write or read a register of an ASIC, retried    *)
(* and checked by reading back; the software cache that saves commands;    *)
(* and initializeSystem, which finds out which ASICs are there.            *)
(*                                                                         *)
(* One register per ASIC stands for its global and channel configuration.  *)
(* A command may fail in two ways: an error status from the FEB/D          *)
(* (ConfigurationError, retried) or no reply to any try of sendCommand     *)
(* (CommandErrorTimeout, raised at once). Either way the ASIC may or may   *)
(* not have taken the write.                                               *)
(***************************************************************************)
EXTENDS Integers, FiniteSets

CONSTANTS
  Asics,          \* the chip IDs of the FEB/D
  UserConfigs,    \* the values a script may write
  MaxTries,       \* 5 in the code: tries of __doAsicCommand
  MaxInitTries,   \* 5 in the code: tries of initializeSystem
  MaxCommands,    \* bound: commands of the script
  MaxDisturbed    \* how many ASICs may lose their configuration at sync

ASSUME ConfigAssumption ==
  /\ IsFiniteSet(Asics)
  /\ MaxTries \in Nat \ {0} /\ MaxInitTries \in Nat \ {0}
  /\ MaxCommands \in Nat /\ MaxDisturbed \in Nat

\* A configuration: what reset leaves, the two initializeSystem uploads
\* (they differ in tx_mode), and those of the script.
Configs == {"reset", "calibration", "normal"} \cup UserConfigs
NotCached == "none"

VARIABLES
  present,        \* the ASICs that are plugged in
  hw,             \* their registers
  cache,          \* __asicConfigCache
  stage,          \* initializeSystem's progress; "up" when the script runs
  todo,           \* the ASICs the stage has still to deal with
  initTries,      \* maxTries of the initializeSystem under way
  asicConfigOK, activeAsics,
  pc, cmd,        \* the command under way, and its place in ___doAsicCommand
  nTry, nReadTry, \* the failed tries of the command and of its read-back
  last,           \* the last command that has returned, and what
  raised,         \* the ASICs whose last command raised an exception
  nCommands

initVars == <<stage, todo, initTries, asicConfigOK, activeAsics>>
cmdVars == <<pc, cmd, nTry, nReadTry, last, raised>>
vars == <<present, hw, cache, initVars, cmdVars, nCommands>>

Command == [asic : Asics, read : BOOLEAN, value : Configs, forceAccess : BOOLEAN]
NoCommand == [asic |-> "none", outcome |-> "none", value |-> "none", accessed |-> FALSE]

Init ==
  /\ present \in SUBSET Asics
  /\ hw = [a \in Asics |-> "reset"]
  /\ cache = [a \in Asics |-> NotCached]
  /\ stage = "down" /\ todo = {} /\ initTries = MaxInitTries
  /\ asicConfigOK = {} /\ activeAsics = {}
  /\ pc = "idle" /\ cmd \in {[asic |-> a, read |-> TRUE, value |-> "reset",
                              forceAccess |-> TRUE] : a \in Asics}
  /\ nTry = 0 /\ nReadTry = 0 /\ last = NoCommand /\ raised = {}
  /\ nCommands = 0

----------------------------------------------------------------------------
(* One command: __doAsicCommand *)

Issue(a, read, value, forceAccess) ==
  /\ pc = "idle"
  /\ cmd' = [asic |-> a, read |-> read, value |-> value, forceAccess |-> forceAccess]
  /\ pc' = "try" /\ nTry' = 0 /\ nReadTry' = 0
  /\ UNCHANGED <<present, hw, cache, last, raised>>

Return(outcome, value, accessed) ==
  /\ pc' = "idle"
  /\ last' = [asic |-> cmd.asic, outcome |-> outcome, value |-> value,
              accessed |-> accessed]
  /\ raised' = IF outcome # "ok" THEN raised \cup {cmd.asic}
               ELSE IF accessed THEN raised \ {cmd.asic} ELSE raised

\* Mutant of Retry: one try too many.
RetryOnceMore ==
  /\ nTry' = nTry + 1
  /\ IF nTry < MaxTries
     THEN pc' = "try" /\ nReadTry' = 0 /\ UNCHANGED <<last, raised>>
     ELSE Return("error", "none", TRUE) /\ UNCHANGED nReadTry

\* Mutant of Retry: the tries are not counted.
RetryForever ==
  pc' = "try" /\ nReadTry' = 0 /\ UNCHANGED <<nTry, last, raised>>

\* A ConfigurationError: __doAsicCommand tries again, and at last raises it.
Retry ==
  /\ nTry' = nTry + 1
  /\ IF nTry + 1 < MaxTries
     THEN pc' = "try" /\ nReadTry' = 0 /\ UNCHANGED <<last, raised>>
     ELSE Return("error", "none", TRUE) /\ UNCHANGED nReadTry

InCache == ~cmd.forceAccess /\ cache[cmd.asic] # NotCached

\* ___doAsicCommand looks into the cache first.
LookUp ==
  /\ pc = "try"
  /\ IF InCache /\ (cmd.read \/ cache[cmd.asic] = cmd.value)
     THEN Return("ok", cache[cmd.asic], FALSE)
     ELSE /\ pc' = IF cmd.read THEN "read" ELSE "write"
          /\ UNCHANGED <<last, raised>>
  /\ UNCHANGED <<present, hw, cache, cmd, nTry, nReadTry, initVars, nCommands>>

\* sendCommand of a write: the register may or may not take the value. What
\* comes back is a good status, an error status, or nothing.
SendWrite ==
  /\ pc = "write"
  /\ \/ hw' = hw
     \/ /\ cmd.asic \in present
        /\ hw' = [hw EXCEPT ![cmd.asic] = cmd.value]
  /\ \/ cmd.asic \in present /\ pc' = "readback" /\ UNCHANGED <<nTry, nReadTry, last, raised>>
     \/ Retry
     \/ Return("timeout", "none", TRUE) /\ UNCHANGED <<nTry, nReadTry>>
  /\ UNCHANGED <<present, cache, cmd, initVars, nCommands>>

\* A read that reaches the ASIC updates the cache.
ReadRegister == cache' = [cache EXCEPT ![cmd.asic] = hw[cmd.asic]]

SendRead ==
  /\ pc = "read"
  /\ \/ /\ cmd.asic \in present
        /\ ReadRegister
        /\ Return("ok", hw[cmd.asic], TRUE) /\ UNCHANGED <<nTry, nReadTry>>
     \/ Retry /\ UNCHANGED cache
     \/ Return("timeout", "none", TRUE) /\ UNCHANGED <<cache, nTry, nReadTry>>
  /\ UNCHANGED <<present, hw, cmd, initVars, nCommands>>

\* Mutant of ReadBack: what was read back is not compared.
ReadBackUnchecked ==
  /\ pc = "readback"
  /\ ReadRegister
  /\ Return("ok", cmd.value, TRUE) /\ UNCHANGED <<nTry, nReadTry>>
  /\ UNCHANGED <<present, hw, cmd, initVars, nCommands>>

\* The read command of a write, forced, with its own tries.
ReadBack ==
  /\ pc = "readback"
  /\ \/ /\ ReadRegister
        /\ IF hw[cmd.asic] = cmd.value
           THEN Return("ok", cmd.value, TRUE) /\ UNCHANGED <<nTry, nReadTry>>
           ELSE Retry
     \/ /\ nReadTry + 1 < MaxTries
        /\ nReadTry' = nReadTry + 1
        /\ UNCHANGED <<pc, nTry, last, raised, cache>>
     \/ /\ nReadTry + 1 >= MaxTries
        /\ Retry /\ UNCHANGED cache
     \/ Return("timeout", "none", TRUE) /\ UNCHANGED <<nTry, nReadTry, cache>>
  /\ UNCHANGED <<present, hw, cmd, initVars, nCommands>>

DoAsicCommand == LookUp \/ SendWrite \/ SendRead \/ ReadBack

----------------------------------------------------------------------------
(* initializeSystem *)

Raise == stage' = "failed" /\ todo' = {}

NoCommandUnderWay == pc = "idle" /\ last = NoCommand

\* What initializeSystem leaves alone when it does not use a command.
cmdUnchanged == <<present, activeAsics, pc, cmd, nTry, nReadTry, nCommands>>

\* Mutant of ResetAsics: the cache survives the reset.
ResetKeepingCache ==
  /\ stage \in {"down", "again"} /\ NoCommandUnderWay
  /\ hw' = [a \in Asics |-> "reset"] /\ UNCHANGED cache
  /\ stage' = "config" /\ todo' = Asics
  /\ asicConfigOK' = {} /\ raised' = {}
  /\ UNCHANGED <<initTries, last, cmdUnchanged>>

\* Reset the ASICs and forget what was cached of them. A command to the FEB/D
\* that gets no reply raises CommandErrorTimeout: the cache is then kept, even
\* when the ASICs have been reset.
ResetAsics ==
  /\ stage \in {"down", "again"} /\ NoCommandUnderWay
  /\ \/ /\ hw' = [a \in Asics |-> "reset"]
        /\ cache' = [a \in Asics |-> NotCached]
        /\ stage' = "config" /\ todo' = Asics
        /\ asicConfigOK' = {} /\ raised' = {}
     \/ /\ hw' \in {hw, [a \in Asics |-> "reset"]}
        /\ Raise
        /\ raised' = Asics
        /\ UNCHANGED <<cache, asicConfigOK>>
  /\ UNCHANGED <<initTries, last, cmdUnchanged>>

Looping == stage \in {"config", "check", "normal"}

\* The command of the loop over the ASICs.
CommandOfStage ==
  /\ Looping /\ NoCommandUnderWay
  /\ \E a \in todo :
       Issue(a, stage = "check", IF stage = "normal" THEN "normal" ELSE "calibration", FALSE)
  /\ UNCHANGED <<initVars, nCommands>>

\* Mutant of CommandReturned: an ASIC that could not be configured is taken in.
TakeAnyAsic ==
  /\ Looping /\ pc = "idle" /\ last # NoCommand
  /\ IF last.outcome = "timeout" THEN Raise /\ UNCHANGED asicConfigOK
     ELSE /\ todo' = todo \ {last.asic}
          /\ asicConfigOK' = asicConfigOK \cup {last.asic}
          /\ UNCHANGED stage
  /\ last' = NoCommand
  /\ UNCHANGED <<hw, cache, initTries, raised, cmdUnchanged>>

\* Only the first upload catches a ConfigurationError, and takes the ASIC for
\* absent. The check compares what it read. Any other exception leaves.
CommandReturned ==
  /\ Looping /\ pc = "idle" /\ last # NoCommand
  /\ IF \/ last.outcome = "timeout"
        \/ last.outcome = "error" /\ stage # "config"
        \/ stage = "check" /\ last.value # "calibration"
     THEN Raise /\ UNCHANGED asicConfigOK
     ELSE /\ todo' = todo \ {last.asic}
          /\ asicConfigOK' = IF last.outcome = "ok" THEN asicConfigOK \cup {last.asic}
                                                    ELSE asicConfigOK
          /\ UNCHANGED stage
  /\ last' = NoCommand
  /\ UNCHANGED <<hw, cache, initTries, raised, cmdUnchanged>>

LoopDone(s) == stage = s /\ todo = {} /\ NoCommandUnderWay

\* A local sync, and the start of the acquisition. Some ASICs may come out of
\* it with another configuration, which is what the check is there for.
Sync ==
  /\ LoopDone("config")
  /\ \/ /\ \E lost \in SUBSET Asics :
             /\ Cardinality(lost) <= MaxDisturbed
             /\ hw' = [a \in Asics |-> IF a \in lost THEN "reset" ELSE hw[a]]
        /\ stage' = "check" /\ todo' = asicConfigOK
     \/ Raise /\ UNCHANGED hw
  /\ UNCHANGED <<cache, asicConfigOK, initTries, last, raised, cmdUnchanged>>

\* The receivers are calibrated; then the TX logic goes to normal mode.
CalibrateReceivers ==
  /\ LoopDone("check")
  /\ \/ stage' = "normal" /\ todo' = asicConfigOK
     \/ Raise
  /\ UNCHANGED <<hw, cache, asicConfigOK, initTries, last, raised, cmdUnchanged>>

\* An ASIC is active when the configuration link and both data link checks say
\* so. Do they disagree, initializeSystem calls itself while tries are left.
\* The sorter mode and the bias channels that follow are commands to the FEB/D.
ReadStatus ==
  /\ LoopDone("normal")
  /\ \/ stage' = "failed" /\ UNCHANGED <<activeAsics, initTries>>
     \/ \E deserializerOK, decoderOK \in SUBSET Asics :
          LET active == asicConfigOK \cap deserializerOK \cap decoderOK
              inconsistent == (asicConfigOK \cup deserializerOK \cup decoderOK) \ active
              again == inconsistent # {} /\ initTries > 1
          IN /\ activeAsics' = active
             /\ stage' \in IF again THEN {"again"}
                           ELSE IF inconsistent = {} THEN {"up", "failed"} ELSE {"failed"}
             /\ initTries' = IF again THEN initTries - 1 ELSE initTries
  /\ UNCHANGED <<present, hw, cache, todo, asicConfigOK, cmdVars, nCommands>>

InitializeSystem ==
  ResetAsics \/ CommandOfStage \/ CommandReturned \/ Sync \/ CalibrateReceivers \/ ReadStatus

\* getAsicsConfig and setAsicsConfig, one command at a time, of a script that
\* goes on after an exception.
ScriptCommand ==
  /\ stage = "up" /\ pc = "idle" /\ nCommands < MaxCommands
  /\ \E a \in activeAsics, forceAccess \in BOOLEAN :
       \/ Issue(a, TRUE, "reset", forceAccess)
       \/ \E value \in UserConfigs : Issue(a, FALSE, value, forceAccess)
  /\ nCommands' = nCommands + 1
  /\ UNCHANGED initVars

Next == DoAsicCommand \/ InitializeSystem \/ ScriptCommand

Spec == Init /\ [][Next]_vars

\* One thread does it all, and sendCommand gives up after ten tries.
FairSpec == Spec /\ WF_vars(DoAsicCommand) /\ WF_vars(InitializeSystem)

----------------------------------------------------------------------------
(* Properties *)

\* Type correctness.
TypeOK ==
  /\ present \subseteq Asics
  /\ hw \in [Asics -> Configs] /\ cache \in [Asics -> Configs \cup {NotCached}]
  /\ stage \in {"down", "config", "check", "normal", "again", "up", "failed"}
  /\ todo \subseteq Asics /\ initTries \in 1 .. MaxInitTries
  /\ asicConfigOK \subseteq Asics /\ activeAsics \subseteq Asics
  /\ pc \in {"idle", "try", "write", "read", "readback"} /\ cmd \in Command
  /\ nTry \in 0 .. MaxTries /\ nReadTry \in 0 .. MaxTries - 1
  /\ raised \subseteq Asics /\ nCommands \in 0 .. MaxCommands

\* While no command is under way, the cache of an ASIC differs from its
\* register only if the last command that reached for it raised an exception:
\* then a write may have got through without its reply. Every other error path
\* (a bad acknowledge, a failed read-back, a retry, a reset) leaves a cache that
\* may be trusted. It holds as long as nothing but commands changes registers.
CacheStaleOnlyAfterError ==
  pc = "idle" => \A a \in Asics : cache[a] \in {NotCached, hw[a]} \/ a \in raised

\* A command that has gone to the ASIC and returned with no exception tells the
\* truth: the register holds what was read, or what was written.
AccessedIsTrue ==
  pc = "idle" /\ last.outcome = "ok" /\ last.accessed => hw[last.asic] = last.value

\* What the software believes of a register is so, in the cache and in an answer.
BeliefsAreTrue == TypeOK /\ CacheStaleOnlyAfterError /\ AccessedIsTrue

\* When initializeSystem ends well, every ASIC it lists as active is plugged in
\* and has the configuration for taking data, however many tries it took and
\* whatever failed on the way.
ActiveAsicsConfigured ==
  [][stage' = "up" /\ stage # "up" =>
       \A a \in activeAsics' : a \in present /\ hw[a] = "normal"]_vars

\* initializeSystem comes to an end: retries of commands inside retries of
\* commands inside retries of itself are all counted.
InitializeEnds == <>(stage \in {"up", "failed"})

\* daqd.py:268 "Check that the ASIC configuration has not changed after sync":
\* what goes on to normal mode is unchanged.
CheckedAfterSync ==
  stage = "normal" => \A a \in asicConfigOK : hw[a] # "reset"

============================================================================
