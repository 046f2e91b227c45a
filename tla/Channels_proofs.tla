-------------------------- MODULE Channels_proofs ---------------------------
(***************************************************************************)
(* Proofs about the channels of the ASICs, before a run and after it; the  *)
(* two parts share no variable. AsicConfig, for every set of ASICs and of   *)
(* configurations and every number of tries: what the software believes of  *)
(* a register is so, and the ASICs initializeSystem lists as active are     *)
(* configured. HitChain, in OfflinePrograms, for any block of hits: its     *)
(* handling splits no photon, and misses a coincidence only behind a        *)
(* photon whose brightest hit is late.                                      *)
(***************************************************************************)
EXTENDS AsicConfig, OfflinePrograms, FiniteSetTheorems, WellFoundedInduction, TLAPS

----------------------------------------------------------------------------
(* AsicConfig: the inductive invariant *)

\* A command under way has a try left; it is where its kind belongs, and was
\* acknowledged by an ASIC that is there before it is read back.
UnderWay ==
  /\ pc # "idle" => nTry < MaxTries
  /\ pc = "read" => cmd.read
  /\ pc \in {"write", "readback"} => ~cmd.read
  /\ pc = "readback" => cmd.asic \in present

\* A stage of initializeSystem issues one command at a time, to an ASIC it has
\* to deal with, and takes notice of its outcome before the next.
OneAtATime ==
  Looping => /\ pc # "idle" => /\ last = NoCommand /\ cmd.asic \in todo
                               /\ cmd.value = IF stage = "normal" THEN "normal" ELSE "calibration"
                               /\ stage = "normal" => ~cmd.read /\ ~cmd.forceAccess
             /\ pc = "idle" /\ last # NoCommand => last.asic \in todo

\* Until the last stage no register has its configuration, nor does the cache
\* claim so.
NoneNormalYet ==
  stage \in {"config", "check"} => \A a \in Asics : hw[a] # "normal" /\ cache[a] # "normal"

\* The last stage cannot find its configuration in the cache: each ASIC it is
\* done with has it in the register.
NormalByAccess ==
  stage = "normal" =>
    /\ \A a \in todo : cache[a] = "normal" => pc = "idle" /\ last # NoCommand /\ last.asic = a
    /\ \A a \in asicConfigOK \ todo : a \in present /\ hw[a] = "normal"
    /\ pc = "idle" /\ last.outcome = "ok" => last.accessed /\ last.asic \in present /\ last.value = "normal"

\* What a returned command says of itself.
LastIsOutcome == last = NoCommand \/ last.outcome \in {"ok", "error", "timeout"}

AsicInv ==
  /\ TypeOK /\ UnderWay /\ OneAtATime /\ NoneNormalYet /\ NormalByAccess /\ LastIsOutcome
  /\ AccessedIsTrue

\* The cache is stale after an exception, or under a write that got through.
CacheStaleUnderWrite ==
  \A a \in Asics :
    \/ cache[a] \in {NotCached, hw[a]} \/ a \in raised
    \/ pc # "idle" /\ a = cmd.asic /\ ~cmd.read /\ hw[a] = cmd.value

----------------------------------------------------------------------------
(* The invariant holds initially *)

\* Nothing is configured yet, and nothing believed.
LEMMA InitAsic == Init => AsicInv /\ CacheStaleUnderWrite
<1> SUFFICES ASSUME Init PROVE AsicInv /\ CacheStaleUnderWrite
  OBVIOUS
<1>1. "reset" \in Configs
  BY DEF Configs
<1>2. cmd \in Command
  <2>1. PICK a \in Asics : cmd = [asic |-> a, read |-> TRUE, value |-> "reset", forceAccess |-> TRUE]
    BY DEF Init
  <2>2. QED
    BY <1>1, <2>1 DEF Command
<1>3. TypeOK
  BY <1>1, <1>2, ConfigAssumption DEF Init, TypeOK
<1>4. last = NoCommand /\ last.outcome = "none"
  BY DEF Init, NoCommand
<1>5. UnderWay /\ OneAtATime /\ NoneNormalYet /\ NormalByAccess /\ LastIsOutcome /\ AccessedIsTrue
  BY <1>4 DEF Init, UnderWay, OneAtATime, Looping, NoneNormalYet, NormalByAccess, LastIsOutcome, AccessedIsTrue
<1>6. CacheStaleUnderWrite
  BY DEF Init, CacheStaleUnderWrite
<1>7. QED
  BY <1>3, <1>5, <1>6 DEF AsicInv

----------------------------------------------------------------------------
(* What the parts of a command do *)

\* A command leaves initializeSystem, the ASICs that are there and its own
\* arguments alone. It ends with an outcome of its own ASIC, or has a try left.
LEMMA CommandSteps ==
  ASSUME TypeOK, UnderWay, DoAsicCommand
  PROVE  /\ UNCHANGED <<initVars, present, cmd, nCommands>> /\ pc # "idle"
         /\ \/ /\ pc' \in {"try", "read", "write", "readback"} /\ UNCHANGED <<last, raised>>
               /\ nTry' < MaxTries
            \/ /\ pc' = "idle" /\ last'.asic = cmd.asic /\ last'.outcome \in {"ok", "error", "timeout"}
               /\ raised' = IF last'.outcome # "ok" THEN raised \cup {cmd.asic}
                            ELSE IF last'.accessed THEN raised \ {cmd.asic} ELSE raised
         /\ nTry' \in 0 .. MaxTries /\ nReadTry' \in 0 .. MaxTries - 1
<1>0. nTry \in 0 .. MaxTries /\ nReadTry \in 0 .. MaxTries - 1 /\ MaxTries \in Nat \ {0}
  BY ConfigAssumption DEF TypeOK
<1>1. CASE LookUp
  BY <1>0, <1>1 DEF LookUp, Return, UnderWay
<1>2. CASE SendWrite
  BY <1>0, <1>2 DEF SendWrite, Retry, Return, UnderWay, initVars
<1>3. CASE SendRead
  BY <1>0, <1>3 DEF SendRead, Retry, Return, UnderWay, initVars
<1>4. CASE ReadBack
  BY <1>0, <1>4 DEF ReadBack, Retry, Return, UnderWay, initVars
<1>5. QED
  BY <1>1, <1>2, <1>3, <1>4 DEF DoAsicCommand

\* A register takes its value from a write to its ASIC, and the cache its from
\* the register.
LEMMA CommandWrites ==
  ASSUME TypeOK, UnderWay, DoAsicCommand
  PROVE  /\ \A a \in Asics : hw'[a] # hw[a] => a = cmd.asic /\ ~cmd.read /\ hw'[a] = cmd.value /\ pc = "write"
         /\ \A a \in Asics : cache'[a] # cache[a] => a = cmd.asic /\ cache'[a] = hw[a] /\ hw' = hw
         /\ hw' \in [Asics -> Configs] /\ cache' \in [Asics -> Configs \cup {NotCached}]
<1>0. /\ hw \in [Asics -> Configs] /\ cache \in [Asics -> Configs \cup {NotCached}]
      /\ cmd.asic \in Asics /\ cmd.value \in Configs
  BY DEF TypeOK, Command
<1>1. CASE LookUp
  BY <1>0, <1>1 DEF LookUp
<1>2. CASE SendWrite
  <2>1. cache' = cache /\ pc = "write" /\ ~cmd.read
    BY <1>2 DEF SendWrite, UnderWay
  <2>2. hw' = hw \/ hw' = [hw EXCEPT ![cmd.asic] = cmd.value]
    BY <1>2 DEF SendWrite
  <2>3. QED
    BY <1>0, <2>1, <2>2
<1>3. CASE SendRead \/ ReadBack
  <2>1. hw' = hw /\ (cache' = cache \/ cache' = [cache EXCEPT ![cmd.asic] = hw[cmd.asic]])
    BY <1>3 DEF SendRead, ReadBack, ReadRegister
  <2>2. QED
    BY <1>0, <2>1
<1>4. QED
  BY <1>1, <1>2, <1>3 DEF DoAsicCommand

\* A good outcome comes from the cache, or from the register, which the cache
\* then agrees with.
LEMMA GoodOutcome ==
  ASSUME TypeOK, UnderWay, DoAsicCommand, pc' = "idle", last'.outcome = "ok"
  PROVE  /\ hw' = hw
         /\ \/ /\ last'.accessed /\ last'.value = hw[cmd.asic] /\ cache'[cmd.asic] = hw[cmd.asic]
               /\ cmd.asic \in present /\ (cmd.read \/ cmd.value = hw[cmd.asic])
            \/ /\ ~last'.accessed /\ last'.value = cache[cmd.asic] /\ cache' = cache
               /\ InCache /\ (cmd.read \/ cache[cmd.asic] = cmd.value)
<1>0. cache \in [Asics -> Configs \cup {NotCached}] /\ cmd.asic \in Asics
  BY DEF TypeOK, Command
<1>1. CASE LookUp
  BY <1>0, <1>1 DEF LookUp, Return
<1>2. CASE SendWrite
  BY <1>0, <1>2 DEF SendWrite, Retry, Return
<1>3. CASE SendRead
  BY <1>0, <1>3 DEF SendRead, Retry, Return, ReadRegister, UnderWay
<1>4. CASE ReadBack
  BY <1>0, <1>4 DEF ReadBack, Retry, Return, ReadRegister, UnderWay
<1>5. QED
  BY <1>1, <1>2, <1>3, <1>4 DEF DoAsicCommand

\* Where a command goes next.
LEMMA CommandPlaces == TypeOK /\ UnderWay /\ DoAsicCommand => UnderWay'
<1> SUFFICES ASSUME TypeOK, UnderWay, DoAsicCommand PROVE UnderWay'
  OBVIOUS
<1>1. (pc # "idle" => nTry < MaxTries)' /\ UNCHANGED <<cmd, present>>
  BY CommandSteps
<1>2. CASE LookUp
  BY <1>1, <1>2 DEF UnderWay, LookUp, Return
<1>3. CASE SendWrite
  BY <1>1, <1>3 DEF UnderWay, SendWrite, Retry, Return
<1>4. CASE SendRead
  BY <1>1, <1>4 DEF UnderWay, SendRead, Retry, Return
<1>5. CASE ReadBack
  BY <1>1, <1>5 DEF UnderWay, ReadBack, Retry, Return
<1>6. QED
  BY <1>2, <1>3, <1>4, <1>5 DEF DoAsicCommand

\* A command keeps the invariant.
LEMMA CommandKeeps == AsicInv /\ DoAsicCommand => AsicInv'
<1> SUFFICES ASSUME AsicInv, DoAsicCommand PROVE AsicInv'
  OBVIOUS
<1>0. TypeOK /\ UnderWay /\ cmd.asic \in Asics /\ pc # "idle"
  BY CommandSteps DEF AsicInv, TypeOK, Command
<1>1. UNCHANGED <<initVars, present, cmd, nCommands>>
  BY <1>0, CommandSteps
<1>2. /\ pc' \in {"try", "read", "write", "readback"} => last' = last
      /\ pc' = "idle" => last'.asic = cmd.asic /\ last'.outcome \in {"ok", "error", "timeout"}
      /\ pc' \in {"idle", "try", "read", "write", "readback"} /\ raised' \subseteq Asics
  BY <1>0, CommandSteps DEF TypeOK
<1>3. TypeOK'
  BY <1>0, <1>1, <1>2, CommandSteps, CommandWrites DEF TypeOK, initVars
<1>4. UnderWay'
  BY <1>0, CommandPlaces
<1>5. OneAtATime'
  <2>1. Looping' = Looping
    BY <1>1 DEF Looping, initVars
  <2>2. QED
    BY <1>0, <1>1, <1>2, <2>1 DEF AsicInv, OneAtATime, initVars
<1>6. NoneNormalYet'
  <2>1. stage \in {"config", "check"} => cmd.value = "calibration"
    BY <1>0 DEF AsicInv, OneAtATime, Looping
  <2>2. QED
    BY <1>0, <1>1, <2>1, CommandWrites DEF AsicInv, NoneNormalYet, initVars
<1>7. NormalByAccess'
  <2> SUFFICES ASSUME stage = "normal" PROVE NormalByAccess'
    BY <1>1 DEF NormalByAccess, initVars
  <2>1. cmd.asic \in todo /\ cmd.value = "normal" /\ ~cmd.read
    BY <1>0 DEF AsicInv, OneAtATime, Looping
  <2>2. \A a \in todo : cache[a] # "normal"
    BY <1>0 DEF AsicInv, NormalByAccess
  <2>3. ASSUME pc' = "idle", last'.outcome = "ok"
        PROVE  last'.accessed /\ last'.asic \in present' /\ last'.value = "normal"
    BY <1>0, <1>1, <1>2, <2>1, <2>2, <2>3, GoodOutcome
  <2>4. ASSUME NEW a \in todo, cache'[a] = "normal"
        PROVE  pc' = "idle" /\ last' # NoCommand /\ last'.asic = a
    <3>1. a = cmd.asic /\ hw[a] = "normal" /\ cache' # cache
      BY <1>0, <2>2, <2>4, CommandWrites DEF TypeOK
    <3>2. CASE ReadBack
      BY <1>0, <2>1, <3>1, <3>2 DEF ReadBack, ReadRegister, Return, NoCommand
    <3>3. CASE LookUp \/ SendWrite
      BY <3>1, <3>3 DEF LookUp, SendWrite
    <3>4. CASE SendRead
      BY <1>0, <2>1, <3>4 DEF SendRead, UnderWay
    <3>5. QED
      BY <3>2, <3>3, <3>4 DEF DoAsicCommand
  <2>5. ASSUME NEW a \in asicConfigOK \ todo PROVE a \in present /\ hw'[a] = "normal"
    BY <1>0, <2>1, CommandWrites DEF AsicInv, NormalByAccess, TypeOK
  <2>6. QED
    BY <1>1, <2>3, <2>4, <2>5 DEF NormalByAccess, initVars
<1>8. LastIsOutcome'
  BY <1>2 DEF AsicInv, LastIsOutcome
<1>9. AccessedIsTrue'
  BY <1>0, <1>1, <1>2, GoodOutcome DEF AccessedIsTrue
<1>10. QED
  BY <1>3, <1>4, <1>5, <1>6, <1>7, <1>8, <1>9 DEF AsicInv

----------------------------------------------------------------------------
(* What initializeSystem and a script do *)

\* Issuing a command keeps what concerns commands.
LEMMA IssueKeeps ==
  ASSUME AsicInv, NEW a \in Asics, NEW read \in BOOLEAN, NEW value \in Configs, NEW force \in BOOLEAN,
         Issue(a, read, value, force), UNCHANGED initVars, nCommands' \in 0 .. MaxCommands
  PROVE  TypeOK' /\ UnderWay' /\ LastIsOutcome' /\ AccessedIsTrue'
<1>1. cmd' \in Command /\ pc' = "try" /\ nTry' = 0 /\ nReadTry' = 0
  BY DEF Issue, Command
<1>2. UNCHANGED <<present, hw, cache, last, raised>>
  BY DEF Issue
<1>3. TypeOK'
  BY <1>1, <1>2, ConfigAssumption DEF AsicInv, TypeOK, initVars
<1>4. UnderWay' /\ LastIsOutcome' /\ AccessedIsTrue'
  BY <1>1, <1>2, ConfigAssumption DEF AsicInv, UnderWay, LastIsOutcome, AccessedIsTrue
<1>5. QED
  BY <1>3, <1>4

\* The reset forgets everything, or raises.
LEMMA ResetKeeps == AsicInv /\ ResetAsics => AsicInv'
<1> SUFFICES ASSUME AsicInv, ResetAsics PROVE AsicInv'
  OBVIOUS
<1>0. pc = "idle" /\ last = NoCommand /\ last' = last /\ UNCHANGED cmdUnchanged /\ initTries' = initTries
  BY DEF ResetAsics, NoCommandUnderWay
<1>1. "reset" \in Configs /\ last.outcome = "none"
  BY <1>0 DEF Configs, NoCommand
<1>2. TypeOK'
  BY <1>0, <1>1 DEF ResetAsics, Raise, cmdUnchanged, AsicInv, TypeOK
<1>3. UnderWay' /\ LastIsOutcome' /\ AccessedIsTrue' /\ OneAtATime'
  BY <1>0, <1>1 DEF cmdUnchanged, UnderWay, LastIsOutcome, AccessedIsTrue, OneAtATime
<1>4. NoneNormalYet' /\ NormalByAccess'
  BY DEF ResetAsics, Raise, NoneNormalYet, NormalByAccess, NotCached
<1>5. QED
  BY <1>2, <1>3, <1>4 DEF AsicInv

\* The stages: a command issued, its outcome taken notice of, and what is
\* between the stages.
LEMMA StageKeeps ==
  AsicInv /\ (CommandOfStage \/ CommandReturned \/ Sync \/ CalibrateReceivers \/ ReadStatus) => AsicInv'
<1> SUFFICES ASSUME AsicInv, CommandOfStage \/ CommandReturned \/ Sync \/ CalibrateReceivers \/ ReadStatus
             PROVE  AsicInv'
  OBVIOUS
<1>0. TypeOK /\ pc = "idle" /\ UnderWay /\ OneAtATime /\ NoneNormalYet /\ NormalByAccess /\ AccessedIsTrue
      /\ LastIsOutcome
  BY DEF AsicInv, CommandOfStage, CommandReturned, Sync, CalibrateReceivers, ReadStatus, NoCommandUnderWay, LoopDone
<1>1. CASE CommandOfStage
  <2>1. PICK a \in todo :
          Issue(a, stage = "check", IF stage = "normal" THEN "normal" ELSE "calibration", FALSE)
    BY <1>1 DEF CommandOfStage
  <2>2. Looping /\ last = NoCommand /\ UNCHANGED <<initVars, nCommands>>
    BY <1>1 DEF CommandOfStage, NoCommandUnderWay
  <2>3. a \in Asics /\ (stage = "check") \in BOOLEAN /\ nCommands' \in 0 .. MaxCommands
        /\ (IF stage = "normal" THEN "normal" ELSE "calibration") \in Configs
    BY <1>0, <2>2 DEF TypeOK, Configs
  <2>4. TypeOK' /\ UnderWay' /\ LastIsOutcome' /\ AccessedIsTrue'
    BY <2>1, <2>2, <2>3, IssueKeeps
  <2>5. UNCHANGED <<present, hw, cache, last>> /\ pc' = "try"
        /\ cmd' = [asic |-> a, read |-> (stage = "check"),
                   value |-> (IF stage = "normal" THEN "normal" ELSE "calibration"), forceAccess |-> FALSE]
    BY <2>1 DEF Issue
  <2>6. OneAtATime'
    BY <2>2, <2>5 DEF OneAtATime, initVars
  <2>7. NoneNormalYet'
    BY <1>0, <2>2, <2>5 DEF NoneNormalYet, initVars
  <2>8. NormalByAccess'
    <3>1. ASSUME stage = "normal", NEW b \in todo PROVE cache[b] # "normal"
      BY <1>0, <2>2, <3>1 DEF NormalByAccess
    <3>2. QED
      BY <1>0, <2>2, <2>5, <3>1 DEF NormalByAccess, initVars
  <2>9. QED
    BY <2>4, <2>6, <2>7, <2>8 DEF AsicInv
<1>2. CASE CommandReturned
  <2>1. UNCHANGED <<hw, cache, initTries, raised, cmdUnchanged>> /\ last' = NoCommand /\ last # NoCommand /\ Looping
    BY <1>2 DEF CommandReturned
  <2>2. UnderWay' /\ LastIsOutcome' /\ AccessedIsTrue'
    BY <1>0, <2>1 DEF cmdUnchanged, UnderWay, LastIsOutcome, AccessedIsTrue, NoCommand
  <2>3. CASE stage' = "failed" /\ todo' = {} /\ asicConfigOK' = asicConfigOK
    <3>1. TypeOK'
      BY <1>0, <2>1, <2>3 DEF cmdUnchanged, TypeOK
    <3>2. QED
      BY <2>2, <2>3, <3>1 DEF AsicInv, OneAtATime, Looping, NoneNormalYet, NormalByAccess
  <2>4. CASE /\ last.outcome \in {"ok", "error"} /\ (last.outcome = "error" => stage = "config")
             /\ todo' = todo \ {last.asic} /\ stage' = stage
             /\ asicConfigOK' = IF last.outcome = "ok" THEN asicConfigOK \cup {last.asic} ELSE asicConfigOK
    <3>1. last.asic \in todo
      BY <1>0, <2>1 DEF OneAtATime
    <3>2. TypeOK'
      BY <1>0, <2>1, <2>4, <3>1 DEF cmdUnchanged, TypeOK
    <3>3. OneAtATime' /\ NoneNormalYet'
      BY <1>0, <2>1, <2>4 DEF cmdUnchanged, OneAtATime, NoneNormalYet
    <3>4. NormalByAccess'
      <4> SUFFICES ASSUME stage = "normal" PROVE NormalByAccess'
        BY <2>4 DEF NormalByAccess
      <4>1. last.outcome = "ok" /\ last.asic \in present /\ hw[last.asic] = "normal"
        BY <1>0, <2>4 DEF NormalByAccess, AccessedIsTrue
      <4>2. \A b \in todo' : cache'[b] # "normal"
        BY <1>0, <2>1, <2>4 DEF NormalByAccess
      <4>3. \A b \in asicConfigOK' \ todo' : b \in present' /\ hw'[b] = "normal"
        BY <1>0, <2>1, <2>4, <4>1 DEF NormalByAccess, cmdUnchanged
      <4>4. last'.outcome # "ok"
        BY <2>1 DEF NoCommand
      <4>5. QED
        BY <4>2, <4>3, <4>4 DEF NormalByAccess
    <3>5. QED
      BY <2>2, <3>2, <3>3, <3>4 DEF AsicInv
  <2>5. QED
    BY <1>0, <1>2, <2>1, <2>3, <2>4 DEF CommandReturned, Raise, LastIsOutcome
<1>3. CASE Sync
  <2>1. /\ UNCHANGED <<cache, asicConfigOK, initTries, last, raised, cmdUnchanged>> /\ last = NoCommand
        /\ stage = "config"
    BY <1>3 DEF Sync, LoopDone, NoCommandUnderWay
  <2>2. UnderWay' /\ LastIsOutcome' /\ AccessedIsTrue'
    BY <1>0, <2>1 DEF cmdUnchanged, UnderWay, LastIsOutcome, AccessedIsTrue, NoCommand
  <2>3. hw' \in [Asics -> Configs] /\ \A a \in Asics : hw'[a] \in {hw[a], "reset"}
    <3>1. "reset" \in Configs /\ hw \in [Asics -> Configs]
      BY <1>0 DEF Configs, TypeOK
    <3>2. hw' = hw \/ \E lost \in SUBSET Asics : hw' = [a \in Asics |-> IF a \in lost THEN "reset" ELSE hw[a]]
      BY <1>3 DEF Sync
    <3>3. QED
      BY <3>1, <3>2
  <2>4. \/ stage' = "check" /\ todo' = asicConfigOK
        \/ stage' = "failed" /\ todo' = {}
    BY <1>3 DEF Sync, Raise
  <2>5. TypeOK'
    BY <1>0, <2>1, <2>3, <2>4 DEF cmdUnchanged, TypeOK
  <2>6. OneAtATime' /\ NoneNormalYet' /\ NormalByAccess'
    BY <1>0, <2>1, <2>3, <2>4 DEF cmdUnchanged, OneAtATime, NoneNormalYet, NormalByAccess
  <2>7. QED
    BY <2>2, <2>5, <2>6 DEF AsicInv
<1>4. CASE CalibrateReceivers
  <2>1. /\ UNCHANGED <<hw, cache, asicConfigOK, initTries, last, raised, cmdUnchanged>> /\ last = NoCommand
        /\ stage = "check"
    BY <1>4 DEF CalibrateReceivers, LoopDone, NoCommandUnderWay
  <2>2. UnderWay' /\ LastIsOutcome' /\ AccessedIsTrue'
    BY <1>0, <2>1 DEF cmdUnchanged, UnderWay, LastIsOutcome, AccessedIsTrue, NoCommand
  <2>3. \/ stage' = "normal" /\ todo' = asicConfigOK
        \/ stage' = "failed" /\ todo' = {}
    BY <1>4 DEF CalibrateReceivers, Raise
  <2>4. TypeOK'
    BY <1>0, <2>1, <2>3 DEF cmdUnchanged, TypeOK
  <2>5. OneAtATime' /\ NoneNormalYet'
    BY <1>0, <2>1, <2>3 DEF cmdUnchanged, OneAtATime, NoneNormalYet
  <2>6. NormalByAccess'
    BY <1>0, <2>1, <2>3 DEF NoneNormalYet, NormalByAccess, NoCommand, TypeOK
  <2>7. QED
    BY <2>2, <2>4, <2>5, <2>6 DEF AsicInv
<1>5. CASE ReadStatus
  <2>1. UNCHANGED <<present, hw, cache, todo, asicConfigOK, cmdVars, nCommands>> /\ last = NoCommand
    BY <1>5 DEF ReadStatus, LoopDone, NoCommandUnderWay
  <2>2. UnderWay' /\ LastIsOutcome' /\ AccessedIsTrue'
    BY <1>0, <2>1 DEF cmdVars, UnderWay, LastIsOutcome, AccessedIsTrue
  <2>3. stage' \in {"failed", "again", "up"} /\ activeAsics' \subseteq Asics /\ initTries' \in 1 .. MaxInitTries
    BY <1>0, <1>5, ConfigAssumption DEF ReadStatus, TypeOK
  <2>4. TypeOK'
    BY <1>0, <2>1, <2>3 DEF cmdVars, TypeOK
  <2>5. OneAtATime' /\ NoneNormalYet' /\ NormalByAccess'
    BY <2>3 DEF OneAtATime, Looping, NoneNormalYet, NormalByAccess
  <2>6. QED
    BY <2>2, <2>4, <2>5 DEF AsicInv
<1>6. QED
  BY <1>1, <1>2, <1>3, <1>4, <1>5

\* A script gives its commands when initializeSystem is done.
LEMMA ScriptKeeps == AsicInv /\ ScriptCommand => AsicInv'
<1> SUFFICES ASSUME AsicInv, ScriptCommand PROVE AsicInv'
  OBVIOUS
<1>1. PICK a \in activeAsics, forceAccess \in BOOLEAN :
        \/ Issue(a, TRUE, "reset", forceAccess)
        \/ \E value \in UserConfigs : Issue(a, FALSE, value, forceAccess)
  BY DEF ScriptCommand
<1>2. PICK read \in BOOLEAN, value \in Configs : Issue(a, read, value, forceAccess)
  BY <1>1 DEF Configs
<1>3. a \in Asics /\ nCommands' \in 0 .. MaxCommands /\ UNCHANGED initVars /\ stage = "up"
  BY ConfigAssumption DEF AsicInv, TypeOK, ScriptCommand
<1>4. TypeOK' /\ UnderWay' /\ LastIsOutcome' /\ AccessedIsTrue'
  BY <1>2, <1>3, IssueKeeps
<1>5. OneAtATime' /\ NoneNormalYet' /\ NormalByAccess'
  BY <1>3 DEF OneAtATime, Looping, NoneNormalYet, NormalByAccess, initVars
<1>6. QED
  BY <1>4, <1>5 DEF AsicInv

\* Every step keeps the invariant.
LEMMA NextAsic == AsicInv /\ [Next]_vars => AsicInv'
<1> SUFFICES ASSUME AsicInv, [Next]_vars PROVE AsicInv'
  OBVIOUS
<1>1. CASE UNCHANGED vars
  BY <1>1 DEF AsicInv, vars, initVars, cmdVars, TypeOK, UnderWay, OneAtATime, Looping, NoneNormalYet, NormalByAccess,
    LastIsOutcome, AccessedIsTrue
<1>2. QED
  BY <1>1, CommandKeeps, ResetKeeps, StageKeeps, ScriptKeeps DEF Next, InitializeSystem

----------------------------------------------------------------------------
(* The cache *)

\* With ASICs that keep their configuration at sync, every step keeps the cache
\* right: a write that may have got through ends in an exception, or in a
\* reading back.
LEMMA NextCache ==
  ASSUME MaxDisturbed = 0, AsicInv, CacheStaleUnderWrite, [Next]_vars
  PROVE  CacheStaleUnderWrite'
<1>0. TypeOK /\ UnderWay
  BY DEF AsicInv
<1>1. CASE DoAsicCommand
  <2> SUFFICES ASSUME NEW a \in Asics
               PROVE  \/ cache'[a] \in {NotCached, hw'[a]} \/ a \in raised'
                      \/ pc' # "idle" /\ a = cmd.asic /\ ~cmd.read /\ hw'[a] = cmd.value
    BY <1>0, <1>1, CommandSteps DEF CacheStaleUnderWrite
  <2>1. pc # "idle" /\ UNCHANGED cmd /\ raised \ {cmd.asic} \subseteq raised'
    BY <1>0, <1>1, CommandSteps
  <2>2. CASE a # cmd.asic
    BY <1>0, <1>1, <2>1, <2>2, CommandWrites DEF CacheStaleUnderWrite
  <2>3. CASE a = cmd.asic /\ pc' # "idle"
    <3>1. raised' = raised
      BY <1>0, <1>1, <2>3, CommandSteps
    <3>2. CASE hw'[a] # hw[a]
      BY <1>0, <1>1, <2>3, <3>2, CommandWrites
    <3>3. CASE hw'[a] = hw[a] /\ cache'[a] # cache[a]
      BY <1>0, <1>1, <3>3, CommandWrites
    <3>4. CASE hw'[a] = hw[a] /\ cache'[a] = cache[a]
      BY <2>3, <3>1, <3>4 DEF CacheStaleUnderWrite
    <3>5. QED
      BY <3>2, <3>3, <3>4
  <2>4. CASE a = cmd.asic /\ pc' = "idle" /\ last'.outcome # "ok"
    BY <1>0, <1>1, <2>4, CommandSteps
  <2>5. CASE a = cmd.asic /\ pc' = "idle" /\ last'.outcome = "ok"
    <3>1. CASE last'.accessed
      BY <1>0, <1>1, <2>5, <3>1, GoodOutcome
    <3>2. CASE ~last'.accessed
      <4>1. hw' = hw /\ cache' = cache /\ (cmd.read \/ cache[a] = cmd.value) /\ raised' = raised
        BY <1>0, <1>1, <2>5, <3>2, GoodOutcome, CommandSteps
      <4>2. QED
        BY <2>5, <4>1 DEF CacheStaleUnderWrite
    <3>3. QED
      BY <3>1, <3>2
  <2>6. QED
    BY <2>2, <2>3, <2>4, <2>5
<1>2. CASE ResetAsics
  BY <1>2 DEF ResetAsics, NoCommandUnderWay, CacheStaleUnderWrite
<1>3. CASE Sync
  <2>1. hw' = hw
    <3>1. CASE UNCHANGED hw
      BY <3>1
    <3>2. ASSUME NEW lost \in SUBSET Asics, Cardinality(lost) <= 0,
                 hw' = [a \in Asics |-> IF a \in lost THEN "reset" ELSE hw[a]]
          PROVE  hw' = hw
      <4>1. IsFiniteSet(lost) /\ Cardinality(lost) \in Nat
        BY ConfigAssumption, FS_Subset, FS_CardinalityType
      <4>2. lost = {}
        BY <3>2, <4>1, FS_EmptySet
      <4>3. hw \in [Asics -> Configs]
        BY <1>0 DEF TypeOK
      <4>4. QED
        BY <3>2, <4>2, <4>3
    <3>3. QED
      BY <1>3, <3>1, <3>2 DEF Sync
  <2>2. UNCHANGED <<cache, raised, pc, cmd>>
    BY <1>3 DEF Sync, cmdUnchanged
  <2>3. QED
    BY <2>1, <2>2 DEF CacheStaleUnderWrite
<1>4. CASE CommandOfStage \/ ScriptCommand
  <2>1. pc = "idle" /\ UNCHANGED <<hw, cache, raised>>
    BY <1>4 DEF CommandOfStage, ScriptCommand, Issue
  <2>2. QED
    BY <2>1 DEF CacheStaleUnderWrite
<1>5. CASE CommandReturned \/ CalibrateReceivers \/ ReadStatus \/ UNCHANGED vars
  <2>1. UNCHANGED <<hw, cache, raised, pc, cmd>>
    BY <1>5 DEF CommandReturned, CalibrateReceivers, ReadStatus, cmdUnchanged, vars, cmdVars
  <2>2. QED
    BY <2>1 DEF CacheStaleUnderWrite
<1>6. QED
  BY <1>1, <1>2, <1>3, <1>4, <1>5 DEF Next, InitializeSystem

----------------------------------------------------------------------------
(* The theorems *)

\* Whatever fails, and whatever the ASICs do at sync: the stages of
\* initializeSystem and the command under way are related as AsicInv says, and a
\* command that went to the ASIC and returned tells the truth.
THEOREM AsicInvariant == Spec => []AsicInv
BY InitAsic, NextAsic, PTL DEF Spec

\* With any ASICs, that keep their configuration at sync: what the software
\* believes of a register is so, in the cache, unless the last command for the
\* register raised an exception, and in what a command returns.
THEOREM Beliefs ==
  ASSUME MaxDisturbed = 0 PROVE Spec => []BeliefsAreTrue
<1>1. Init => CacheStaleUnderWrite
  BY InitAsic
<1>2. AsicInv /\ CacheStaleUnderWrite /\ [Next]_vars => CacheStaleUnderWrite'
  BY NextCache
<1>3. AsicInv /\ CacheStaleUnderWrite => BeliefsAreTrue
  BY DEF AsicInv, CacheStaleUnderWrite, BeliefsAreTrue, CacheStaleOnlyAfterError
<1>4. QED
  BY AsicInvariant, <1>1, <1>2, <1>3, PTL DEF Spec

\* When initializeSystem ends well, all active ASICs are plugged in and have the
\* configuration for taking data, even when some lost theirs at sync.
THEOREM ActiveConfigured == Spec => ActiveAsicsConfigured
<1>1. ASSUME AsicInv, [Next]_vars
      PROVE  [stage' = "up" /\ stage # "up" => \A a \in activeAsics' : a \in present /\ hw[a] = "normal"]_vars
  <2> SUFFICES ASSUME Next, stage' = "up", stage # "up", NEW a \in activeAsics'
               PROVE  a \in present /\ hw[a] = "normal"
    BY <1>1
  <2>1. ReadStatus
    <3>1. ~DoAsicCommand
      BY <1>1, CommandSteps DEF AsicInv, initVars
    <3>2. ~(ResetAsics \/ CommandOfStage \/ CommandReturned \/ Sync \/ CalibrateReceivers \/ ScriptCommand)
      BY DEF ResetAsics, CommandOfStage, CommandReturned, Sync, CalibrateReceivers, ScriptCommand, Raise, initVars
    <3>3. QED
      BY <3>1, <3>2 DEF Next, InitializeSystem
  <2>2. a \in asicConfigOK /\ stage = "normal" /\ todo = {}
    BY <2>1 DEF ReadStatus, LoopDone
  <2>3. QED
    BY <1>1, <2>2 DEF AsicInv, NormalByAccess
<1>2. QED
  BY AsicInvariant, <1>1, PTL DEF Spec, ActiveAsicsConfigured

----------------------------------------------------------------------------
(* The smallest and the largest of a set of numbers *)

\* Every set of subsets of a finite set has a smallest one.
LEMMA SmallestOf ==
  ASSUME NEW S, IsFiniteSet(S), NEW T \in SUBSET (SUBSET S), T # {}
  PROVE  \E x \in T : \A y \in T : y \subseteq x => y = x
<1>1. IsWellFoundedOn(StrictSubsetOrdering(S), FiniteSubsetsOf(S))
  BY FS_StrictSubsetOrderingWellFounded
<1>2. T \subseteq FiniteSubsetsOf(S)
  BY FS_Subset DEF FiniteSubsetsOf
<1>3. \E x \in T : \A y \in T : ~(<<y, x>> \in StrictSubsetOrdering(S))
  BY <1>1, <1>2, WFMin
<1>4. QED
  BY <1>2, <1>3, Zenon DEF StrictSubsetOrdering, FiniteSubsetsOf

\* A set of numbers up to N has one that does not follow another of the set.
LEMMA LeastOf ==
  ASSUME NEW N \in Nat, NEW P \in SUBSET (0 .. N), P # {}
  PROVE  \E k \in P : k = 0 \/ k - 1 \notin P
<1> DEFINE T == {x \in SUBSET (0 .. N) : \E k \in P : x = 0 .. k}
<1>0. ASSUME NEW k \in P PROVE 0 .. k \in T
  OBVIOUS
<1>1. T # {} /\ T \in SUBSET (SUBSET (0 .. N))
  BY <1>0, Zenon
<1>2. IsFiniteSet(0 .. N)
  BY FS_Interval
<1>3. \E x \in T : \A y \in T : y \subseteq x => y = x
  <2>1. PICK S : S = 0 .. N
    OBVIOUS
  <2> HIDE DEF T
  <2>2. IsFiniteSet(S) /\ T # {} /\ T \in SUBSET (SUBSET S)
    BY <1>1, <1>2, <2>1
  <2>3. QED
    BY <2>2, SmallestOf
<1>4. PICK k \in P : \A j \in P : 0 .. j \subseteq 0 .. k => 0 .. j = 0 .. k
  BY <1>0, <1>3, Zenon
<1>5. ASSUME k # 0, k - 1 \in P PROVE FALSE
  <2>1. k \in 1 .. N
    BY <1>5
  <2>2. 0 .. (k - 1) \subseteq 0 .. k /\ 0 .. (k - 1) # 0 .. k
    BY <2>1
  <2>3. QED
    BY <1>4, <1>5, <2>2
<1>6. QED
  BY <1>5

\* The smallest and the largest element of a set of numbers.
MinOf(S, m) == m \in S /\ \A x \in S : m <= x
MaxOfSet(S, m) == m \in S /\ \A x \in S : x <= m

\* Min and Max of a set of bounded numbers are what they are named for.
LEMMA NatMin ==
  ASSUME NEW N \in Nat, NEW S \in SUBSET (0 .. N), S # {}
  PROVE  MinOf(S, Min(S))
<1> DEFINE P == {k \in 0 .. N : \E x \in S : x <= k}
<1>1. PICK k \in P : k = 0 \/ k - 1 \notin P
  <2>1. P \in SUBSET (0 .. N) /\ P # {}
    <3>1. PICK x \in S : TRUE
      BY Zenon
    <3>2. x \in P
      BY <3>1
    <3> QED
      BY <3>2
  <2> HIDE DEF P
  <2> QED
    BY <2>1, LeastOf
<1>2. k \in S /\ \A x \in S : k <= x
  BY <1>1
<1> QED
  BY <1>2, Zenon DEF Min, MinOf

LEMMA NatMax ==
  ASSUME NEW N \in Nat, NEW S \in SUBSET (0 .. N), S # {}
  PROVE  MaxOfSet(S, Max(S))
<1> DEFINE P == {k \in 0 .. N : N - k \in S}
<1>1. PICK k : MinOf(P, k)
  <2>1. P \in SUBSET (0 .. N) /\ P # {}
    <3>1. PICK x \in S : TRUE
      BY Zenon
    <3>2. N - x \in P
      BY <3>1
    <3> QED
      BY <3>2, Zenon
  <2> HIDE DEF P
  <2> QED
    BY <2>1, NatMin, Zenon
<1>2. N - k \in S /\ \A x \in S : x <= N - k
  <2>1. k \in P /\ \A y \in P : k <= y
    BY <1>1 DEF MinOf
  <2>2. ASSUME NEW x \in S PROVE x <= N - k
    <3>1. N - x \in P
      OBVIOUS
    <3> QED
      BY <2>1, <3>1
  <2> QED
    BY <2>1, <2>2
<1> QED
  BY <1>2, Zenon DEF Max, MaxOfSet

----------------------------------------------------------------------------
(* HitChain: sets in order *)

(* Finite sets one element after the other. *)

\* B gives of each element those before it.
IsOrder(S, B) ==
  /\ B \in [S -> SUBSET S]
  /\ \A c \in S : c \notin B[c]
  /\ \A c, d \in S : d \in B[c] => B[d] \subseteq B[c]
  /\ \A c, d \in S : c = d \/ c \in B[d] \/ d \in B[c]

\* The element with n - 1 before it.
At(S, B, n) == CHOOSE c \in S : Cardinality(B[c]) = n - 1

\* The number of elements before one is its place.
LEMMA RankIs ==
  ASSUME NEW S, IsFiniteSet(S), NEW B, IsOrder(S, B)
  PROVE  /\ Cardinality(S) \in Nat
         /\ \A c \in S : Cardinality(B[c]) \in 0 .. Cardinality(S) - 1
         /\ \A c, d \in S : d \in B[c] <=> Cardinality(B[d]) < Cardinality(B[c])
<1>1. Cardinality(S) \in Nat
  BY FS_CardinalityType
<1>2. ASSUME NEW c \in S PROVE IsFiniteSet(B[c]) /\ Cardinality(B[c]) \in Nat /\ Cardinality(B[c]) < Cardinality(S)
  <2>1. B[c] \in SUBSET S /\ B[c] # S
    BY DEF IsOrder
  <2>2. IsFiniteSet(B[c]) /\ Cardinality(B[c]) <= Cardinality(S) /\ Cardinality(S) # Cardinality(B[c])
    BY <2>1, FS_Subset
  <2>3. Cardinality(B[c]) \in Nat
    BY <2>2, FS_CardinalityType
  <2> QED
    BY <1>1, <2>2, <2>3
<1>3. ASSUME NEW c \in S, NEW d \in S, d \in B[c] PROVE Cardinality(B[d]) < Cardinality(B[c])
  <2>1. B[d] \in SUBSET B[c] /\ B[d] # B[c]
    BY <1>3 DEF IsOrder
  <2>2. IsFiniteSet(B[c]) /\ Cardinality(B[c]) \in Nat /\ Cardinality(B[d]) \in Nat
    BY <1>2
  <2>3. Cardinality(B[d]) <= Cardinality(B[c]) /\ Cardinality(B[c]) # Cardinality(B[d])
    BY <2>1, <2>2, FS_Subset
  <2> QED
    BY <2>2, <2>3
<1>4. ASSUME NEW c \in S, NEW d \in S, Cardinality(B[d]) < Cardinality(B[c]) PROVE d \in B[c]
  <2>1. c # d /\ ~(c \in B[d])
    BY <1>2, <1>3, <1>4
  <2> QED
    BY <2>1 DEF IsOrder
<1> QED
  BY <1>1, <1>2, <1>3, <1>4

\* Every place is taken: places are different, and as many as elements.
LEMMA RankOnto ==
  ASSUME NEW S, IsFiniteSet(S), NEW B, IsOrder(S, B), NEW n \in 1 .. Cardinality(S)
  PROVE  \E c \in S : Cardinality(B[c]) = n - 1
<1> DEFINE T == 0 .. Cardinality(S) - 1
<1> DEFINE r == [c \in S |-> Cardinality(B[c])]
<1>1. /\ Cardinality(S) \in Nat
      /\ \A c \in S : Cardinality(B[c]) \in T
      /\ \A c, d \in S : d \in B[c] <=> Cardinality(B[d]) < Cardinality(B[c])
  BY RankIs
<1>2. \A c, d \in S : r[c] = r[d] => c = d
  <2>1. SUFFICES ASSUME NEW c \in S, NEW d \in S, r[c] = r[d], c # d PROVE FALSE
    OBVIOUS
  <2>2. c \in B[d] \/ d \in B[c]
    BY <2>1 DEF IsOrder
  <2>3. r[c] < r[d] \/ r[d] < r[c]
    BY <1>1, <2>2
  <2> QED
    BY <1>1, <2>1, <2>3
<1>3. r \in [S -> T]
  BY <1>1
<1>4. IsFiniteSet(T) /\ Cardinality(T) = Cardinality(S)
  <2>1. PICK m \in Int : m = Cardinality(S) - 1 /\ m >= 0
    BY <1>1
  <2>2. IsFiniteSet(0 .. m) /\ Cardinality(0 .. m) = m + 1
    BY <2>1, FS_Interval
  <2> QED
    BY <1>1, <2>1, <2>2
<1>5. r \in Injection(S, T)
  BY <1>2, <1>3 DEF Injection, IsInjective
<1> HIDE DEF r
<1>6. r \in Surjection(S, T)
  BY <1>4, <1>5, FS_Injection
<1>7. \E c \in S : r[c] = n - 1
  BY <1>1, <1>6 DEF Surjection
<1> QED
  BY <1>7 DEF r

\* So an order of a finite set goes through its elements once each.
LEMMA AtIs ==
  ASSUME NEW S, IsFiniteSet(S), NEW B, IsOrder(S, B)
  PROVE  /\ Cardinality(S) \in Nat
         /\ \A n \in 1 .. Cardinality(S) : At(S, B, n) \in S
         /\ \A n, m \in 1 .. Cardinality(S) : n < m => At(S, B, n) \in B[At(S, B, m)]
         /\ \A c \in S : \E n \in 1 .. Cardinality(S) : At(S, B, n) = c
<1>1. /\ Cardinality(S) \in Nat
      /\ \A c \in S : Cardinality(B[c]) \in 0 .. Cardinality(S) - 1
      /\ \A c, d \in S : d \in B[c] <=> Cardinality(B[d]) < Cardinality(B[c])
  BY RankIs
<1>2. ASSUME NEW n \in 1 .. Cardinality(S) PROVE At(S, B, n) \in S /\ Cardinality(B[At(S, B, n)]) = n - 1
  BY RankOnto DEF At
<1>3. ASSUME NEW n \in 1 .. Cardinality(S), NEW m \in 1 .. Cardinality(S), n < m
      PROVE  At(S, B, n) \in B[At(S, B, m)]
  BY <1>1, <1>2, <1>3
<1>4. ASSUME NEW c \in S PROVE \E n \in 1 .. Cardinality(S) : At(S, B, n) = c
  <2>1. PICK n \in 1 .. Cardinality(S) : Cardinality(B[c]) = n - 1
    <3>1. Cardinality(B[c]) + 1 \in 1 .. Cardinality(S) /\ Cardinality(B[c]) = (Cardinality(B[c]) + 1) - 1
      BY <1>1
    <3> QED
      BY <3>1
  <2>2. PICK d : d = At(S, B, n) /\ d \in S /\ Cardinality(B[d]) = n - 1
    BY <1>2
  <2>3. ~(d \in B[c]) /\ ~(c \in B[d])
    BY <1>1, <2>1, <2>2
  <2>4. d = c
    BY <2>2, <2>3 DEF IsOrder
  <2> QED
    BY <2>2, <2>4, Zenon
<1> QED
  BY <1>1, <1>2, <1>3, <1>4

\* Cardinality of HitChain is that of the library.
LEMMA HitCardinality ==
  ASSUME NEW S
  PROVE  Hit!Cardinality(S) = Cardinality(S)
  BY DEF Hit!Cardinality, Cardinality

\* A set of numbers in order.
NthNumber(S, n) == CHOOSE c \in S : Cardinality({d \in S : d < c}) = n - 1
InOrder(S) == [n \in 1 .. Cardinality(S) |-> NthNumber(S, n)]

\* InOrder goes through a set of numbers from the smallest to the largest.
LEMMA NumbersInOrder ==
  ASSUME NEW N \in Nat, NEW S \in SUBSET (1 .. N)
  PROVE  /\ InOrder(S) \in Seq(S) /\ Len(InOrder(S)) <= N
         /\ \A n, m \in DOMAIN InOrder(S) : n < m => InOrder(S)[n] < InOrder(S)[m]
         /\ \A c \in S : \E n \in DOMAIN InOrder(S) : InOrder(S)[n] = c
<1>0. \A c \in S : c \in Nat
  OBVIOUS
<1> DEFINE B == [c \in S |-> {d \in S : d < c}]
<1>1. IsFiniteSet(S) /\ Cardinality(S) <= N
  <2>1. IsFiniteSet(1 .. N) /\ Cardinality(1 .. N) = N
    BY FS_Interval
  <2> QED
    BY <2>1, FS_Subset, Zenon
<1>2. \A c \in S : B[c] = {d \in S : d < c} /\ B[c] \subseteq S
  OBVIOUS
<1>3. IsOrder(S, B)
  <2>2. \A c \in S : ~(c < c)
    BY <1>0
  <2>3. \A c, d, e \in S : d < c /\ e < d => e < c
    BY <1>0
  <2>4. \A c, d \in S : c = d \/ c < d \/ d < c
    BY <1>0
  <2>5. B \in [S -> SUBSET S]
    OBVIOUS
  <2> HIDE DEF B
  <2>6. \A c, d \in S : d \in B[c] <=> d < c
    BY <1>2
  <2>7. \A c, d \in S : d \in B[c] => B[d] \subseteq B[c]
    BY <1>2, <2>3, <2>6, Zenon
  <2> QED
    BY <2>2, <2>4, <2>5, <2>6, <2>7 DEF IsOrder
<1> HIDE DEF B
<1>4. PICK f : f = InOrder(S)
  OBVIOUS
<1>5. /\ Cardinality(S) \in Nat
      /\ \A n \in 1 .. Cardinality(S) : At(S, B, n) \in S
      /\ \A n, m \in 1 .. Cardinality(S) : n < m => At(S, B, n) \in B[At(S, B, m)]
      /\ \A c \in S : \E n \in 1 .. Cardinality(S) : At(S, B, n) = c
  BY <1>1, <1>3, AtIs
<1>6. f = [n \in 1 .. Cardinality(S) |-> At(S, B, n)]
  <2>1. \A c \in S : \A n : Cardinality(B[c]) = n - 1 <=> Cardinality({d \in S : d < c}) = n - 1
    BY <1>2, Zenon
  <2>2. \A n : At(S, B, n) = NthNumber(S, n)
    BY <2>1 DEF At, NthNumber
  <2> QED
    BY <1>4, <2>2 DEF InOrder
<1>7. f \in Seq(S) /\ Len(f) = Cardinality(S) /\ DOMAIN f = 1 .. Cardinality(S)
      /\ \A n \in DOMAIN f : f[n] = At(S, B, n)
  BY <1>5, <1>6
<1>8. \A c, d \in S : d \in B[c] => d < c
  BY <1>2, Zenon
<1>9. \A n, m \in DOMAIN f : n < m => f[n] < f[m]
  <2>1. SUFFICES ASSUME NEW n \in DOMAIN f, NEW m \in DOMAIN f, n < m PROVE f[n] < f[m]
    OBVIOUS
  <2>2. n \in 1 .. Cardinality(S) /\ m \in 1 .. Cardinality(S) /\ f[n] = At(S, B, n) /\ f[m] = At(S, B, m)
    BY <1>7
  <2>3. At(S, B, n) \in S /\ At(S, B, m) \in S /\ At(S, B, n) \in B[At(S, B, m)]
    BY <1>5, <2>1, <2>2
  <2> QED
    BY <1>8, <2>2, <2>3
<1> QED
  BY <1>1, <1>4, <1>5, <1>7, <1>9

\* A set of pairs in the order of two loops.
PairBefore(c, d) == c[1] < d[1] \/ (c[1] = d[1] /\ c[2] < d[2])
NthPair(S, n) == CHOOSE c \in S : Cardinality({d \in S : PairBefore(d, c)}) = n - 1
PairsInOrder(S) == [n \in 1 .. Cardinality(S) |-> NthPair(S, n)]

\* PairsInOrder goes through a set of pairs, once each.
LEMMA PairsOneByOne ==
  ASSUME NEW N \in Nat, NEW S \in SUBSET ((1 .. N) \X (1 .. N))
  PROVE  /\ PairsInOrder(S) \in Seq(S)
         /\ \A m, n \in DOMAIN PairsInOrder(S) : PairsInOrder(S)[m] = PairsInOrder(S)[n] => m = n
         /\ \A c \in S : \E n \in DOMAIN PairsInOrder(S) : PairsInOrder(S)[n] = c
<1>0. \A c \in S : c[1] \in Nat /\ c[2] \in Nat /\ c = <<c[1], c[2]>>
  OBVIOUS
<1> DEFINE B == [c \in S |-> {d \in S : PairBefore(d, c)}]
<1>1. IsFiniteSet(S)
  <2>1. IsFiniteSet(1 .. N)
    BY FS_Interval
  <2>2. IsFiniteSet((1 .. N) \X (1 .. N))
    BY <2>1, FS_Product
  <2> QED
    BY <2>2, FS_Subset
<1>2. \A c \in S : B[c] = {d \in S : PairBefore(d, c)} /\ B[c] \subseteq S
  OBVIOUS
<1>3. IsOrder(S, B)
  <2>2. \A c \in S : ~PairBefore(c, c)
    BY <1>0 DEF PairBefore
  <2>3. \A c, d, e \in S : PairBefore(d, c) /\ PairBefore(e, d) => PairBefore(e, c)
    BY <1>0 DEF PairBefore
  <2>4. \A c, d \in S : c = d \/ PairBefore(c, d) \/ PairBefore(d, c)
    <3>1. SUFFICES ASSUME NEW c \in S, NEW d \in S, ~PairBefore(c, d), ~PairBefore(d, c) PROVE c = d
      OBVIOUS
    <3>2. c[1] = d[1] /\ c[2] = d[2]
      BY <1>0, <3>1 DEF PairBefore
    <3> QED
      BY <1>0, <3>2
  <2>5. B \in [S -> SUBSET S]
    OBVIOUS
  <2> HIDE DEF B
  <2>6. \A c, d \in S : d \in B[c] <=> PairBefore(d, c)
    BY <1>2
  <2>7. \A c, d \in S : d \in B[c] => B[d] \subseteq B[c]
    BY <1>2, <2>3, <2>6
  <2> QED
    BY <2>2, <2>4, <2>5, <2>6, <2>7 DEF IsOrder
<1> HIDE DEF B
<1>4. PICK f : f = PairsInOrder(S)
  OBVIOUS
<1>5. /\ Cardinality(S) \in Nat
      /\ \A n \in 1 .. Cardinality(S) : At(S, B, n) \in S
      /\ \A n, m \in 1 .. Cardinality(S) : n < m => At(S, B, n) \in B[At(S, B, m)]
      /\ \A c \in S : \E n \in 1 .. Cardinality(S) : At(S, B, n) = c
  BY <1>1, <1>3, AtIs
<1>6. f = [n \in 1 .. Cardinality(S) |-> At(S, B, n)]
  <2>1. \A c \in S : \A n : Cardinality(B[c]) = n - 1 <=> Cardinality({d \in S : PairBefore(d, c)}) = n - 1
    BY <1>2, Zenon
  <2>2. \A n : At(S, B, n) = NthPair(S, n)
    BY <2>1 DEF At, NthPair
  <2> QED
    BY <1>4, <2>2 DEF PairsInOrder
<1>7. f \in Seq(S) /\ Len(f) = Cardinality(S) /\ DOMAIN f = 1 .. Cardinality(S)
      /\ \A n \in DOMAIN f : f[n] = At(S, B, n)
  <2>1. Cardinality(S) \in Nat /\ \A n \in 1 .. Cardinality(S) : At(S, B, n) \in S
    BY <1>5
  <2> QED
    BY <1>6, <2>1
<1>8. ASSUME NEW m \in DOMAIN f, NEW n \in DOMAIN f, f[m] = f[n] PROVE m = n
  <2>1. m \in 1 .. Cardinality(S) /\ n \in 1 .. Cardinality(S) /\ m \in Nat /\ n \in Nat
    BY <1>7
  <2>2. At(S, B, m) = At(S, B, n) /\ At(S, B, m) \in S
    BY <1>5, <1>7, <1>8, <2>1
  <2>3. ~(m < n) /\ ~(n < m)
    BY <1>3, <1>5, <2>1, <2>2 DEF IsOrder
  <2> QED
    BY <2>1, <2>3
<1>9. ASSUME NEW c \in S PROVE \E n \in DOMAIN f : f[n] = c
  <2>1. PICK n \in 1 .. Cardinality(S) : At(S, B, n) = c
    BY <1>5
  <2> QED
    BY <1>7, <2>1
<1> QED
  BY <1>4, <1>7, <1>8, <1>9, Zenon

\* Of a finite set one has the highest energy.
LEMMA Highest ==
  ASSUME NEW S, IsFiniteSet(S), S # {}, NEW f \in [S -> Int]
  PROVE  \E n \in S : \A k \in S : f[k] <= f[n]
<1> DEFINE D(n) == {k \in S : f[k] > f[n]}
<1> DEFINE T == {D(n) : n \in S}
<1>1. PICK x \in T : \A y \in T : y \subseteq x => y = x
  <2>1. T \in SUBSET (SUBSET S) /\ T # {}
    <3>1. \A n \in S : D(n) \in SUBSET S
      OBVIOUS
    <3> HIDE DEF D
    <3> QED
      BY <3>1
  <2> HIDE DEF T
  <2> QED
    BY <2>1, SmallestOf
<1>2. PICK n \in S : x = D(n)
  OBVIOUS
<1>3. ASSUME NEW k \in S, f[k] > f[n] PROVE FALSE
  <2>1. k \in D(n) /\ k \notin D(k) /\ D(k) \in T
    BY <1>3
  <2>2. \A j \in S : f[j] > f[k] => f[j] > f[n]
    BY <1>3
  <2>3. D(k) \subseteq D(n)
    BY <2>2
  <2> HIDE DEF D, T
  <2> QED
    BY <1>1, <1>2, <2>1, <2>3
<1> QED
  BY <1>3

----------------------------------------------------------------------------
(* HitChain: the handlers of a block *)

\* What the tables say of a channel, and the hits after calibration.
Conf == [shift : 0 .. Correction, tdc : BOOLEAN, qdc : BOOLEAN, region : Nat \cup {-1}, x : Int]
HitRec == [time : Int, energy : Int, region : Nat, x : Int]

\* Out of order by at most d.
SortedTo(s, d) == \A j, k \in DOMAIN s : j < k => s[k].time + d >= s[j].time

\* The times are out of order by no more than half the overlap.
LEMMA Constants ==
  /\ Coarse \in Nat \ {0} /\ Frame \in Nat \ {0} /\ Overlap \in Nat /\ Correction \in Nat
  /\ Overlap \div 2 \in Nat /\ 2 * (Overlap \div 2) <= Overlap
  /\ Coarse - 1 + Correction <= Overlap \div 2
<1>1. Coarse \in Nat \ {0} /\ Frame \in Nat \ {0} /\ Overlap \in Nat /\ Correction \in Nat
      /\ Coarse + Correction <= Overlap \div 2 + 1
  BY OfflineAssumption
<1>2. Overlap \div 2 \in Nat /\ 2 * (Overlap \div 2) <= Overlap
  BY <1>1
<1> QED
  BY <1>1, <1>2

\* The handlers a block passes.
LEMMA Stages ==
  ASSUME hInput.program \in {"singles", "coincidence"}
  PROVE  /\ Hit!Chain[1] = "sort" /\ Hit!After("sort") = "process"
         /\ Hit!After("process") = IF hInput.program = "singles" THEN "write" ELSE "group"
         /\ hInput.program = "coincidence" => Hit!After("group") = "write"
         /\ Hit!After("write") = "done"
<1>1. CASE hInput.program = "singles"
  <2>1. Hit!Chain = <<"sort", "process", "write", "done">>
    BY <1>1 DEF Hit!Chain
  <2>2. DOMAIN Hit!Chain = 1 .. 4
    BY <2>1
  <2>3. /\ (CHOOSE n \in DOMAIN Hit!Chain : Hit!Chain[n] = "sort") = 1
        /\ (CHOOSE n \in DOMAIN Hit!Chain : Hit!Chain[n] = "process") = 2
        /\ (CHOOSE n \in DOMAIN Hit!Chain : Hit!Chain[n] = "write") = 3
    BY <2>1, <2>2
  <2> QED
    BY <1>1, <2>1, <2>3 DEF Hit!After
<1>2. CASE hInput.program = "coincidence"
  <2>1. Hit!Chain = <<"sort", "process", "group", "write", "done">>
    BY <1>2 DEF Hit!Chain
  <2>2. DOMAIN Hit!Chain = 1 .. 5
    BY <2>1
  <2>3. /\ (CHOOSE n \in DOMAIN Hit!Chain : Hit!Chain[n] = "sort") = 1
        /\ (CHOOSE n \in DOMAIN Hit!Chain : Hit!Chain[n] = "process") = 2
        /\ (CHOOSE n \in DOMAIN Hit!Chain : Hit!Chain[n] = "group") = 3
        /\ (CHOOSE n \in DOMAIN Hit!Chain : Hit!Chain[n] = "write") = 4
    BY <2>1, <2>2
  <2> QED
    BY <1>2, <2>1, <2>3 DEF Hit!After
<1> QED
  BY <1>1, <1>2

\* A line of a table for a channel it names.
LEMMA LineType ==
  ASSUME NEW lines \in Seq(TableLine), NEW c, Hit!Named(lines, c)
  PROVE  Hit!Line(lines, c) \in TableLine
<1>1. PICK S : S = Hit!LinesOf(lines, c)
  OBVIOUS
<1>2. Len(lines) \in Nat /\ DOMAIN lines = 1 .. Len(lines)
  OBVIOUS
<1>3. S \in SUBSET (0 .. Len(lines)) /\ S # {} /\ S \subseteq DOMAIN lines
  BY <1>1, <1>2 DEF Hit!LinesOf, Hit!Named
<1>4. Max(S) \in S
  BY <1>2, <1>3, NatMax, Zenon DEF MaxOfSet
<1>5. Hit!Line(lines, c) = lines[Max(S)]
  BY <1>1 DEF Hit!Line, Hit!Max, Max
<1> QED
  BY <1>3, <1>4, <1>5

\* The tables loaded are tables.
LEMMA LoadedType ==
  ASSUME HitFile(hInput), NEW c, NEW cfg \in Conf
  PROVE  Hit!LoadChannelMap(c, Hit!LoadQDC(c, Hit!LoadTDC(c, cfg))) \in Conf
<1>1. hInput.tdc \in Seq(TableLine) /\ hInput.map \in Seq(TableLine)
  BY DEF HitFile
<1>2. ASSUME NEW f \in Conf PROVE Hit!LoadTDC(c, f) \in Conf
  <2>1. CASE Hit!Named(hInput.tdc, c)
    <3>1. Hit!Line(hInput.tdc, c).shift \in 0 .. Correction
      BY <1>1, <2>1, LineType, Zenon DEF TableLine
    <3> QED
      BY <2>1, <3>1, Zenon DEF Hit!LoadTDC, Conf
  <2>2. CASE ~Hit!Named(hInput.tdc, c)
    BY <2>2 DEF Hit!LoadTDC
  <2> QED
    BY <2>1, <2>2
<1>3. ASSUME NEW f \in Conf PROVE Hit!LoadQDC(c, f) \in Conf
  BY Zenon DEF Hit!LoadQDC, Conf
<1>4. ASSUME NEW f \in Conf PROVE Hit!LoadChannelMap(c, f) \in Conf
  <2>1. CASE Hit!Named(hInput.map, c)
    <3>1. Hit!Line(hInput.map, c).region \in Nat /\ Hit!Line(hInput.map, c).x \in Int
      BY <1>1, <2>1, LineType, Zenon DEF TableLine
    <3> QED
      BY <2>1, <3>1, Zenon DEF Hit!LoadChannelMap, Conf
  <2>2. CASE ~Hit!Named(hInput.map, c)
    BY <2>2 DEF Hit!LoadChannelMap
  <2> QED
    BY <2>1, <2>2
<1> QED
  BY <1>2, <1>3, <1>4

\* Two times in one coarse bin are less than it apart.
LEMMA CoarseTime ==
  ASSUME NEW c \in Nat \ {0}, NEW t \in Int, NEW u \in Int, ~(u \div c < t \div c)
  PROVE  u + (c - 1) >= t
<1>1. /\ t \div c \in Int /\ c * (t \div c) <= t /\ t <= c * (t \div c) + c - 1
      /\ u \div c \in Int /\ c * (u \div c) <= u
  OBVIOUS
<1>2. PICK p \in Int, q \in Int : p = t \div c /\ q = u \div c
  BY <1>1
<1>3. p <= q
  BY <1>2
<1>4. c * p <= c * q
  BY <1>3
<1> QED
  BY <1>1, <1>2, <1>4

\* The sorter leaves the hits out of order by less than the coarse time.
LEMMA SortedRaw ==
  ASSUME HitFile(hInput), Hit!Sort
  PROVE  raw' \in Seq(RawHits) /\ raw' \in Seq(Hit!Range(hInput.block)) /\ SortedTo(raw', Coarse - 1)
<1>1. PICK order \in [DOMAIN hInput.block -> DOMAIN hInput.block] :
        /\ \A j, k \in DOMAIN order : j < k => ~Hit!Earlier(hInput.block[order[k]], hInput.block[order[j]])
        /\ raw' = [n \in DOMAIN order |-> hInput.block[order[n]]]
  BY DEF Hit!Sort
<1>2. hInput.block \in Seq(RawHits)
  BY DEF HitFile
<1>3. DOMAIN order = 1 .. Len(hInput.block) /\ Len(hInput.block) \in Nat
      /\ \A n \in DOMAIN order : order[n] \in DOMAIN hInput.block
  BY <1>1, <1>2
<1>4. \A n \in DOMAIN order : hInput.block[order[n]] \in RawHits /\ hInput.block[order[n]] \in Hit!Range(hInput.block)
  BY <1>2, <1>3 DEF Hit!Range
<1>5. raw' \in Seq(RawHits) /\ raw' \in Seq(Hit!Range(hInput.block))
  <2>1. raw' \in [1 .. Len(hInput.block) -> RawHits]
    BY <1>1, <1>3, <1>4
  <2>2. raw' \in [1 .. Len(hInput.block) -> Hit!Range(hInput.block)]
    BY <1>1, <1>3, <1>4
  <2> QED
    BY <1>3, <2>1, <2>2
<1>6. SortedTo(raw', Coarse - 1)
  <2>1. SUFFICES ASSUME NEW j \in DOMAIN raw', NEW k \in DOMAIN raw', j < k
                 PROVE  raw'[k].time + (Coarse - 1) >= raw'[j].time
    BY DEF SortedTo
  <2>2. raw'[j] \in RawHits /\ raw'[k] \in RawHits /\ ~Hit!Earlier(raw'[k], raw'[j])
    BY <1>1, <1>4, <2>1
  <2>3. PICK t \in Int, u \in Int : t = raw'[j].time /\ u = raw'[k].time
    BY <2>2 DEF RawHits
  <2>4. ~(u \div Coarse < t \div Coarse)
    BY <2>2, <2>3 DEF Hit!Earlier
  <2>5. u + (Coarse - 1) >= t
    BY <2>3, <2>4, Constants, CoarseTime
  <2> QED
    BY <2>3, <2>5
<1> QED
  BY <1>5, <1>6

\* The calibration takes off at most Correction, and keeps the order.
LEMMA CalibratedHits ==
  ASSUME HitFile(hInput), config \in [HitChannel -> Conf], raw \in Seq(RawHits), SortedTo(raw, Coarse - 1),
         Hit!ProcessHit
  PROVE  hits' \in Seq(HitRec) /\ Len(hits') <= Len(raw) /\ SortedTo(hits', Coarse - 1 + Correction)
<1>1. PICK S, N : S = {n \in DOMAIN raw : Hit!Accepted(raw[n])} /\ N = Len(raw)
  BY Zenon
<1>2. N \in Nat /\ S \in SUBSET (1 .. N) /\ DOMAIN raw = 1 .. N
  BY <1>1
<1>3. PICK f : f = InOrder(S)
  OBVIOUS
<1>4. hits' = [n \in DOMAIN f |-> Hit!Calibrated(raw[f[n]])]
  <2>1. \A c \in S : Hit!Cardinality({d \in S : d < c}) = Cardinality({d \in S : d < c})
    BY HitCardinality
  <2>2. Hit!Cardinality(S) = Cardinality(S)
    BY HitCardinality
  <2>3. f = [n \in 1 .. Hit!Cardinality(S) |-> CHOOSE c \in S : Hit!Cardinality({d \in S : d < c}) = n - 1]
    <3>1. \A n : NthNumber(S, n) = CHOOSE c \in S : Hit!Cardinality({d \in S : d < c}) = n - 1
      BY <2>1, Zenon DEF NthNumber
    <3>2. f = [n \in 1 .. Cardinality(S) |-> NthNumber(S, n)]
      BY <1>3 DEF InOrder
    <3>3. f = [n \in 1 .. Hit!Cardinality(S) |-> NthNumber(S, n)]
      BY <2>2, <3>2
    <3> QED
      BY <3>1, <3>3, Zenon
  <2> QED
    BY <1>1, <2>3 DEF Hit!ProcessHit, Hit!InOrder
<1>5. /\ f \in Seq(S) /\ Len(f) <= N /\ DOMAIN f = 1 .. Len(f) /\ Len(f) \in Nat
      /\ \A n, m \in DOMAIN f : n < m => f[n] < f[m]
  BY <1>2, <1>3, NumbersInOrder
<1>6. ASSUME NEW n \in DOMAIN f
      PROVE  /\ f[n] \in DOMAIN raw /\ raw[f[n]] \in RawHits /\ Hit!Calibrated(raw[f[n]]) \in HitRec
             /\ Hit!Calibrated(raw[f[n]]).time <= raw[f[n]].time
             /\ raw[f[n]].time <= Hit!Calibrated(raw[f[n]]).time + Correction
  <2>1. f[n] \in S
    BY <1>5
  <2>2. f[n] \in DOMAIN raw /\ raw[f[n]] \in RawHits /\ Hit!Accepted(raw[f[n]])
    BY <1>1, <2>1
  <2>3. PICK h \in RawHits : h = raw[f[n]]
    BY <2>2
  <2>4. PICK cc \in Conf : cc = config[h.channel]
    BY <2>3 DEF RawHits
  <2>5. cc.region \in Nat /\ cc.shift \in 0 .. Correction /\ cc.x \in Int /\ h.time \in Int /\ h.energy \in Int
    BY <2>2, <2>3, <2>4 DEF Hit!Accepted, Conf, RawHits
  <2>6. Hit!Calibrated(h) = [time |-> h.time - cc.shift, energy |-> h.energy, region |-> cc.region, x |-> cc.x]
    BY <2>4 DEF Hit!Calibrated
  <2>7. Correction \in Nat
    BY Constants
  <2>8. Hit!Calibrated(h) \in HitRec /\ Hit!Calibrated(h).time = h.time - cc.shift
    BY <2>5, <2>6, <2>7 DEF HitRec
  <2> QED
    BY <2>2, <2>3, <2>5, <2>7, <2>8
<1>7. hits' \in Seq(HitRec) /\ Len(hits') = Len(f) /\ DOMAIN hits' = DOMAIN f
  <2>1. hits' \in [1 .. Len(f) -> HitRec]
    BY <1>4, <1>5, <1>6
  <2> QED
    BY <1>5, <2>1
<1>8. SortedTo(hits', Coarse - 1 + Correction)
  <2>1. SUFFICES ASSUME NEW j \in DOMAIN f, NEW k \in DOMAIN f, j < k
                 PROVE  hits'[k].time + (Coarse - 1 + Correction) >= hits'[j].time
    BY <1>7 DEF SortedTo
  <2>2. f[j] < f[k] /\ f[j] \in DOMAIN raw /\ f[k] \in DOMAIN raw
    BY <1>5, <1>6, <2>1
  <2>3. raw[f[k]].time + (Coarse - 1) >= raw[f[j]].time
    BY <2>2 DEF SortedTo
  <2>4. /\ hits'[k].time \in Int /\ hits'[j].time \in Int /\ raw[f[k]].time \in Int /\ raw[f[j]].time \in Int
        /\ hits'[j].time <= raw[f[j]].time /\ raw[f[k]].time <= hits'[k].time + Correction
    <3>1. hits'[k] = Hit!Calibrated(raw[f[k]]) /\ hits'[j] = Hit!Calibrated(raw[f[j]])
      BY <1>4
    <3>2. hits'[k] \in HitRec /\ hits'[j] \in HitRec /\ raw[f[k]] \in RawHits /\ raw[f[j]] \in RawHits
      BY <1>6, <3>1
    <3> QED
      BY <1>6, <3>1, <3>2 DEF HitRec, RawHits
  <2>5. Coarse \in Int /\ Correction \in Int
    BY Constants
  <2>6. PICK t \in Int, u \in Int, v \in Int, w \in Int :
          t = hits'[j].time /\ u = raw[f[j]].time /\ v = raw[f[k]].time /\ w = hits'[k].time
    BY <2>4
  <2>7. v + (Coarse - 1) >= u /\ t <= u /\ v <= w + Correction
    BY <2>3, <2>4, <2>6
  <2>8. w + (Coarse - 1 + Correction) >= t
    <3>1. PICK c \in Int, d \in Int : c = Coarse /\ d = Correction
      BY <2>5
    <3>2. v + (c - 1) >= u /\ v <= w + d
      BY <2>7, <3>1
    <3>3. w + (c - 1 + d) >= t
      BY <2>7, <3>2
    <3> QED
      BY <3>1, <3>3
  <2> QED
    BY <2>6, <2>8
<1> QED
  BY <1>2, <1>1, <1>5, <1>7, <1>8

----------------------------------------------------------------------------
(* The photons. *)

\* The photons of both kinds, and what one is made of.
Found(ph, rj) == {ph[n] : n \in DOMAIN ph} \cup {rj[n] : n \in DOMAIN rj}
PhotonOf(hs) == [hits : SUBSET DOMAIN hs, of : DOMAIN hs]

\* A photon is of hits that join its first, and all that do and are free were taken.
PhotonRight(p, tk, j) ==
  /\ MinOf(p.hits, Hit!Seed(p)) /\ Hit!Seed(p) <= j /\ p.of \in p.hits /\ p.hits \subseteq tk
  /\ \A n \in p.hits : n = Hit!Seed(p) \/ Hit!Joins(hits[Hit!Seed(p)], hits[n])
  /\ \A n \in DOMAIN hits : Hit!Seed(p) < n /\ Hit!Joins(hits[Hit!Seed(p)], hits[n]) => n \in tk

\* Photons that share no hit and could not have been one, and all of them so, in the
\* order of their first hits.
Apart(p, q) ==
  /\ p.hits \cap q.hits = {}
  /\ Hit!Seed(p) # Hit!Seed(q) /\ ~Hit!Joins(hits[Hit!Seed(p)], hits[Hit!Seed(q)])

PhotonsRight(ph, rj, tk, j) ==
  /\ ph \in Seq(PhotonOf(hits)) /\ rj \in Seq(PhotonOf(hits))
  /\ \A p \in Found(ph, rj) : PhotonRight(p, tk, j)
  /\ \A p, q \in Found(ph, rj) : p # q => Apart(p, q)
  /\ \A n, m \in DOMAIN ph : n < m => Hit!Seed(ph[n]) < Hit!Seed(ph[m])

\* Two hits join in either order.
LEMMA JoinsSymmetric ==
  ASSUME NEW h \in HitRec, NEW k \in HitRec, Hit!Joins(h, k)
  PROVE  Hit!Joins(k, h)
<1>1. /\ h.time \in Int /\ k.time \in Int /\ h.x \in Int /\ k.x \in Int
  BY DEF HitRec
<1>2. ASSUME NEW x \in Int, NEW y \in Int PROVE Hit!Abs(x - y) = Hit!Abs(y - x)
  BY DEF Hit!Abs
<1>3. Hit!Abs(h.time - k.time) = Hit!Abs(k.time - h.time) /\ Hit!Abs(h.x - k.x) = Hit!Abs(k.x - h.x)
  BY <1>1, <1>2
<1>4. \A a, b : {a, b} = {b, a}
  OBVIOUS
<1>5. Hit!PairLines(k.region, h.region) = Hit!PairLines(h.region, k.region)
  BY <1>4 DEF Hit!PairLines
<1>6. Hit!Allowed("M", k.region, h.region) <=> Hit!Allowed("M", h.region, k.region)
  BY <1>5 DEF Hit!Allowed
<1> QED
  BY <1>3, <1>6 DEF Hit!Joins

\* Hits that join are within the group window.
LEMMA JoinsInWindow ==
  ASSUME HitFile(hInput), NEW h \in HitRec, NEW k \in HitRec, Hit!Joins(h, k)
  PROVE  /\ hInput.settings.groupWindow \in Nat
         /\ h.time <= k.time + hInput.settings.groupWindow /\ k.time <= h.time + hInput.settings.groupWindow
<1>1. h.time \in Int /\ k.time \in Int /\ hInput.settings.groupWindow \in Nat
  BY DEF HitRec, HitFile
<1>2. Hit!Abs(h.time - k.time) <= hInput.settings.groupWindow
  BY DEF Hit!Joins, Hit!set
<1> QED
  BY <1>1, <1>2 DEF Hit!Abs

\* The search misses none that is still free.
LEMMA NoneMissed ==
  ASSUME HitFile(hInput), hits \in Seq(HitRec), SortedTo(hits, Coarse - 1 + Correction),
         NEW n \in DOMAIN hits, NEW k \in DOMAIN hits, n < k, Hit!Joins(hits[n], hits[k])
  PROVE  k \in taken \/ k \in Hit!Members(n)
<1>1. SUFFICES ASSUME k \notin taken PROVE k \in Hit!Members(n)
  OBVIOUS
<1> DEFINE free == (n + 1 .. Len(hits)) \ taken
<1> DEFINE past == {j \in free : hits[j].time - hits[n].time > Hit!GroupReach}
<1>2. DOMAIN hits = 1 .. Len(hits) /\ Len(hits) \in Nat
  OBVIOUS
<1>3. k \in free
  BY <1>1, <1>2
<1>4. PICK w \in Nat : w = hInput.settings.groupWindow /\ Hit!GroupReach = Overlap + w
  BY DEF HitFile, Hit!GroupReach, Hit!set
<1>5. Coarse \in Int /\ Correction \in Int /\ Overlap \in Nat /\ Coarse - 1 + Correction <= Overlap
  BY Constants
<1>6. ASSUME NEW j \in past PROVE k < j
  <2>1. j \in DOMAIN hits /\ j \in Nat /\ hits[j] \in HitRec /\ hits[k] \in HitRec /\ hits[n] \in HitRec
    BY <1>2
  <2>2. PICK tj \in Int, tk \in Int, tn \in Int : tj = hits[j].time /\ tk = hits[k].time /\ tn = hits[n].time
    BY <2>1 DEF HitRec
  <2>3. tj - tn > Overlap + w
    BY <1>4, <2>2
  <2>4. tk <= tn + w
    BY <1>4, <2>1, <2>2, JoinsInWindow
  <2>5. ASSUME j < k PROVE FALSE
    <3>1. PICK d \in Int, v \in Nat : d = Coarse - 1 + Correction /\ v = Overlap /\ d <= v
      BY <1>5
    <3>2. tk + d >= tj
      BY <2>1, <2>2, <2>5, <3>1 DEF SortedTo
    <3>3. tj - tn > v + w
      BY <2>3, <3>1
    <3> QED
      BY <2>4, <3>1, <3>2, <3>3
  <2>6. ASSUME j = k PROVE FALSE
    <3>1. PICK v \in Nat : v = Overlap
      BY <1>5
    <3>2. tk - tn > v + w
      BY <2>2, <2>3, <2>6, <3>1
    <3> QED
      BY <2>4, <3>2
  <2> QED
    BY <1>2, <2>1, <2>5, <2>6
<1>7. k \in Hit!Searched(n)
  <2> HIDE DEF free, past
  <2>1. Hit!Searched(n) = {j \in free : \A p \in past : j < p}
    BY DEF Hit!Searched, free, past
  <2> QED
    BY <1>3, <1>6, <2>1
<1> QED
  BY <1>7 DEF Hit!Members

\* Brightest finds a hit of the highest energy.
LEMMA BrightestIs ==
  ASSUME hits \in Seq(HitRec), NEW S \in SUBSET DOMAIN hits, S # {}
  PROVE  Hit!Brightest(S) \in S /\ \A k \in S : hits[k].energy <= hits[Hit!Brightest(S)].energy
<1>1. Len(hits) \in Nat /\ DOMAIN hits = 1 .. Len(hits)
  OBVIOUS
<1>2. IsFiniteSet(S)
  <2>1. IsFiniteSet(1 .. Len(hits))
    BY <1>1, FS_Interval
  <2> QED
    BY <1>1, <2>1, FS_Subset
<1>3. PICK f : f = [n \in S |-> hits[n].energy]
  BY Zenon
<1>4. f \in [S -> Int]
  <2>1. \A n \in S : hits[n] \in HitRec
    OBVIOUS
  <2>2. \A n \in S : hits[n].energy \in Int
    BY <2>1 DEF HitRec
  <2> QED
    BY <1>3, <2>2
<1>5. PICK n \in S : \A k \in S : f[k] <= f[n]
  BY <1>2, <1>4, Highest
<1>6. PICK B : B = {m \in S : \A k \in S : hits[k].energy <= hits[m].energy}
  BY Zenon
<1>7. B \in SUBSET (0 .. Len(hits)) /\ B # {}
  <2>1. n \in B
    BY <1>3, <1>5, <1>6
  <2>2. B \subseteq S
    BY <1>6
  <2>3. S \subseteq 0 .. Len(hits)
    BY <1>1
  <2> QED
    BY <2>1, <2>2, <2>3
<1>8. Min(B) \in B
  BY <1>1, <1>7, NatMin, Zenon DEF MinOf
<1>9. Hit!Brightest(S) = Min(B)
  BY <1>6 DEF Hit!Brightest, Hit!Min, Min
<1> QED
  BY <1>6, <1>8, <1>9

\* A photon has its first hit and some that join it.
LEMMA KeptIs ==
  ASSUME hits \in Seq(HitRec), NEW n \in DOMAIN hits
  PROVE  /\ Hit!Members(n) \subseteq DOMAIN hits /\ \A k \in Hit!Members(n) : n < k /\ Hit!Joins(hits[n], hits[k])
         /\ Hit!Kept(n) \subseteq {n} \cup Hit!Members(n) /\ n \in Hit!Kept(n)
         /\ Hit!Min(Hit!Kept(n)) = n /\ Hit!Members(n) \cap taken = {}
<1>1. Len(hits) \in Nat /\ DOMAIN hits = 1 .. Len(hits) /\ n \in Nat
  OBVIOUS
<1>2. Hit!Searched(n) \subseteq n + 1 .. Len(hits)
  BY DEF Hit!Searched
<1>3. Hit!Members(n) \subseteq n + 1 .. Len(hits) /\ \A k \in Hit!Members(n) : Hit!Joins(hits[n], hits[k])
  BY <1>2 DEF Hit!Members
<1>4. Hit!Kept(n) \subseteq {n} \cup Hit!Members(n) /\ n \in Hit!Kept(n)
  BY DEF Hit!Kept
<1>5. \A k \in Hit!Kept(n) : k \in Nat /\ n <= k
  BY <1>1, <1>3, <1>4
<1>6. \A x \in Hit!Kept(n) : (\A y \in Hit!Kept(n) : x <= y) => x = n
  BY <1>1, <1>4, <1>5
<1>7. Hit!Min(Hit!Kept(n)) = n
  <2>1. PICK K : K = Hit!Kept(n)
    OBVIOUS
  <2>2. n \in K /\ (\A y \in K : n <= y) /\ \A x \in K : (\A y \in K : x <= y) => x = n
    BY <1>4, <1>5, <1>6, <2>1
  <2>3. Hit!Min(K) = n
    BY <2>2 DEF Hit!Min
  <2> QED
    BY <2>1, <2>3
<1>8. Hit!Members(n) \cap taken = {}
  BY DEF Hit!Members, Hit!Searched
<1> QED
  BY <1>1, <1>3, <1>4, <1>7, <1>8

\* One more photon is found.
LEMMA FoundAppended ==
  ASSUME NEW S, NEW ph \in Seq(S), NEW rj \in Seq(S), NEW p
  PROVE  /\ Found(Append(ph, p), rj) = Found(ph, rj) \cup {p}
         /\ Found(ph, Append(rj, p)) = Found(ph, rj) \cup {p}
<1>1. ASSUME NEW s \in Seq(S)
      PROVE  {Append(s, p)[n] : n \in DOMAIN Append(s, p)} = {s[n] : n \in DOMAIN s} \cup {p}
  <2>1. DOMAIN Append(s, p) = 1 .. Len(s) + 1 /\ DOMAIN s = 1 .. Len(s) /\ Len(s) \in Nat
    OBVIOUS
  <2>2. (\A n \in DOMAIN s : n \in DOMAIN Append(s, p) /\ Append(s, p)[n] = s[n])
        /\ Len(s) + 1 \in DOMAIN Append(s, p) /\ Append(s, p)[Len(s) + 1] = p
    BY <2>1
  <2>3. \A n \in DOMAIN Append(s, p) : n \in DOMAIN s \/ n = Len(s) + 1
    BY <2>1
  <2> QED
    BY <2>2, <2>3
<1> QED
  BY <1>1, Zenon DEF Found

\* The photon of a free hit is right: all that join it were taken now or before.
LEMMA NewPhoton ==
  ASSUME HitFile(hInput), hits \in Seq(HitRec), SortedTo(hits, Coarse - 1 + Correction),
         NEW n \in DOMAIN hits, n \notin taken, NEW tk, taken \cup {n} \cup Hit!Members(n) \subseteq tk
  PROVE  /\ Hit!Photon(n) \in PhotonOf(hits) /\ PhotonRight(Hit!Photon(n), tk, n)
         /\ Hit!Seed(Hit!Photon(n)) = n /\ Hit!Photon(n).hits \cap taken = {}
<1>1. /\ Hit!Members(n) \subseteq DOMAIN hits /\ \A k \in Hit!Members(n) : n < k /\ Hit!Joins(hits[n], hits[k])
      /\ Hit!Kept(n) \subseteq {n} \cup Hit!Members(n) /\ n \in Hit!Kept(n)
      /\ Hit!Min(Hit!Kept(n)) = n /\ Hit!Members(n) \cap taken = {}
  BY KeptIs
<1>2. n \in Nat
  OBVIOUS
<1>3. PICK K, b : K = Hit!Kept(n) /\ b = Hit!Brightest(K)
  OBVIOUS
<1>4. K \in SUBSET DOMAIN hits /\ K # {}
  BY <1>1, <1>3
<1>5. b \in K
  BY <1>3, <1>4, BrightestIs
<1>6. PICK p : p = [hits |-> K, of |-> b]
  BY Zenon
<1>7. Hit!Photon(n) = p
  BY <1>3, <1>6 DEF Hit!Photon
<1>8. p \in PhotonOf(hits) /\ p.hits = K /\ p.of = b
  BY <1>4, <1>5, <1>6 DEF PhotonOf
<1>9. Hit!Seed(p) = n
  BY <1>1, <1>3, <1>8 DEF Hit!Seed
<1>10. MinOf(K, n)
  BY <1>1, <1>2, <1>3 DEF MinOf
<1>11. \A k \in K : k = n \/ Hit!Joins(hits[n], hits[k])
  BY <1>1, <1>3
<1>12. \A k \in DOMAIN hits : n < k /\ Hit!Joins(hits[n], hits[k]) => k \in tk
  BY NoneMissed
<1>13. K \subseteq tk /\ K \cap taken = {}
  BY <1>1, <1>3
<1> QED
  BY <1>2, <1>5, <1>7, <1>8, <1>9, <1>10, <1>11, <1>12, <1>13 DEF PhotonRight

\* A step of the grouper keeps the photons right and apart: the first hit of a new one
\* was free, so it joins the first of none before.
LEMMA PhotonsGrow ==
  ASSUME HitFile(hInput), hits \in Seq(HitRec), SortedTo(hits, Coarse - 1 + Correction),
         hIndex \in 0 .. Len(hits), taken \subseteq DOMAIN hits,
         PhotonsRight(photons, rejected, taken, hIndex), Hit!GroupHit
  PROVE  /\ hIndex' = hIndex + 1 /\ hIndex < Len(hits) /\ taken' \subseteq DOMAIN hits
         /\ PhotonsRight(photons', rejected', taken', hIndex + 1)
<1>1. PICK n : n = hIndex + 1
  OBVIOUS
<1>2. hIndex \in Nat /\ hIndex' = n /\ hIndex < Len(hits) /\ n \in DOMAIN hits /\ n \in Nat
  BY <1>1 DEF Hit!GroupHit
<1>3. ASSUME NEW p \in Found(photons, rejected)
      PROVE  PhotonRight(p, taken, hIndex) /\ p \in PhotonOf(hits) /\ Hit!Seed(p) \in DOMAIN hits /\ Hit!Seed(p) < n
             /\ Hit!Seed(p) \in Nat
  <2>1. PhotonRight(p, taken, hIndex) /\ p \in PhotonOf(hits)
    BY DEF PhotonsRight, Found
  <2>2. Hit!Seed(p) \in DOMAIN hits
    BY <2>1 DEF PhotonRight, MinOf, PhotonOf
  <2>3. Hit!Seed(p) <= hIndex
    BY <2>1 DEF PhotonRight
  <2> QED
    BY <1>1, <1>2, <2>1, <2>2, <2>3
<1>4. ASSUME NEW p \in Found(photons, rejected), taken \subseteq taken'
      PROVE  PhotonRight(p, taken', n)
  <2>1. PhotonRight(p, taken, hIndex) /\ Hit!Seed(p) <= n
    BY <1>2, <1>3
  <2> QED
    BY <1>4, <2>1 DEF PhotonRight
<1>5. CASE n \in taken
  <2>1. taken' = taken /\ photons' = photons /\ rejected' = rejected
    BY <1>1, <1>5 DEF Hit!GroupHit
  <2>2. PhotonsRight(photons, rejected, taken, n)
    BY <1>4, <2>1 DEF PhotonsRight
  <2> QED
    BY <1>1, <1>2, <2>1, <2>2
<1>6. CASE n \notin taken
  <2>1. PICK P : P = Hit!Photon(n)
    OBVIOUS
  <2>2. /\ taken' = taken \cup {n} \cup Hit!Members(n)
        /\ \/ photons' = Append(photons, P) /\ rejected' = rejected
           \/ rejected' = Append(rejected, P) /\ photons' = photons
    BY <1>1, <1>6, <2>1 DEF Hit!GroupHit
  <2>3. P \in PhotonOf(hits) /\ PhotonRight(P, taken', n) /\ Hit!Seed(P) = n /\ P.hits \cap taken = {}
    BY <1>2, <1>6, <2>1, <2>2, NewPhoton
  <2>4. taken' \subseteq DOMAIN hits
    BY <1>2, <2>2, KeptIs
  <2>5. photons \in Seq(PhotonOf(hits)) /\ rejected \in Seq(PhotonOf(hits))
    BY DEF PhotonsRight
  <2>6. photons' \in Seq(PhotonOf(hits)) /\ rejected' \in Seq(PhotonOf(hits))
    <3>1. PICK S : S = PhotonOf(hits)
      OBVIOUS
    <3>2. photons \in Seq(S) /\ rejected \in Seq(S) /\ P \in S
      BY <2>3, <2>5, <3>1
    <3>3. Append(photons, P) \in Seq(S) /\ Append(rejected, P) \in Seq(S)
      BY <3>2
    <3>4. photons' \in Seq(S) /\ rejected' \in Seq(S)
      BY <2>2, <3>2, <3>3, Zenon
    <3> QED
      BY <3>1, <3>4
  <2>7. Found(photons', rejected') = Found(photons, rejected) \cup {P}
    <3>1. PICK S : S = PhotonOf(hits)
      OBVIOUS
    <3>2. photons \in Seq(S) /\ rejected \in Seq(S)
      BY <2>5, <3>1
    <3>3. /\ Found(Append(photons, P), rejected) = Found(photons, rejected) \cup {P}
          /\ Found(photons, Append(rejected, P)) = Found(photons, rejected) \cup {P}
      BY <3>2, FoundAppended
    <3> QED
      BY <2>2, <3>3, Zenon
  <2>8. \A p \in Found(photons', rejected') : PhotonRight(p, taken', n)
    BY <1>4, <2>2, <2>3, <2>7, Zenon
  <2>9. ASSUME NEW p \in Found(photons, rejected) PROVE Apart(p, P) /\ Apart(P, p)
    <3>1. Hit!Seed(p) # n /\ Hit!Seed(p) < n /\ Hit!Seed(p) \in DOMAIN hits /\ PhotonRight(p, taken, hIndex)
      BY <1>2, <1>3
    <3>2. ~Hit!Joins(hits[Hit!Seed(p)], hits[n])
      BY <1>2, <1>6, <3>1 DEF PhotonRight
    <3>3. hits[n] \in HitRec /\ hits[Hit!Seed(p)] \in HitRec
      BY <1>2, <3>1
    <3>4. ~Hit!Joins(hits[n], hits[Hit!Seed(p)])
      BY <3>2, <3>3, JoinsSymmetric
    <3>5. p.hits \cap P.hits = {} /\ P.hits \cap p.hits = {}
      BY <2>3, <3>1 DEF PhotonRight
    <3> QED
      BY <2>3, <3>1, <3>2, <3>4, <3>5 DEF Apart
  <2>10. \A p, q \in Found(photons', rejected') : p # q => Apart(p, q)
    <3>1. \A p, q \in Found(photons, rejected) : p # q => Apart(p, q)
      BY DEF PhotonsRight
    <3> QED
      BY <2>7, <2>9, <3>1
  <2>11. ASSUME NEW k \in DOMAIN photons', NEW m \in DOMAIN photons', k < m
         PROVE  Hit!Seed(photons'[k]) < Hit!Seed(photons'[m])
    <3>1. CASE photons' = photons
      BY <2>11, <3>1 DEF PhotonsRight
    <3>2. CASE photons' = Append(photons, P)
      <4>1. DOMAIN photons = 1 .. Len(photons) /\ Len(photons) \in Nat /\ DOMAIN photons' = 1 .. Len(photons) + 1
        BY <2>5, <3>2
      <4>2. k \in DOMAIN photons /\ photons'[k] = photons[k]
        BY <2>5, <2>11, <3>2, <4>1
      <4>3. CASE m \in DOMAIN photons
        <5>1. photons'[m] = photons[m]
          BY <2>5, <3>2, <4>1, <4>3
        <5> QED
          BY <2>11, <4>2, <4>3, <5>1 DEF PhotonsRight
      <4>4. CASE m = Len(photons) + 1
        <5>1. photons'[m] = P
          BY <2>5, <3>2, <4>1, <4>4
        <5>2. photons[k] \in Found(photons, rejected)
          BY <4>2 DEF Found
        <5> QED
          BY <1>3, <2>3, <4>2, <5>1, <5>2
      <4> QED
        BY <4>1, <4>3, <4>4
    <3> QED
      BY <2>2, <3>1, <3>2
  <2>12. PhotonsRight(photons', rejected', taken', n)
    BY <2>6, <2>8, <2>10, <2>11 DEF PhotonsRight
  <2> QED
    BY <1>1, <1>2, <2>4, <2>12
<1> QED
  BY <1>5, <1>6

----------------------------------------------------------------------------
(* The coincidences. *)

\* The brightest hit of a photon is after its first in the list, and within the group
\* window of it.
LEMMA PhotonTime ==
  ASSUME HitFile(hInput), hits \in Seq(HitRec), SortedTo(hits, Coarse - 1 + Correction),
         PhotonsRight(photons, rejected, taken, hIndex), NEW p \in DOMAIN photons
  PROVE  /\ Hit!PhotonHit(p) \in HitRec /\ Hit!Seed(photons[p]) \in DOMAIN hits
         /\ hInput.settings.groupWindow \in Nat /\ Hit!Lag(p) \in Int /\ Hit!Disorder \in Nat
         /\ Hit!PhotonHit(p).time = hits[Hit!Seed(photons[p])].time + Hit!Lag(p)
         /\ -Hit!Disorder <= Hit!Lag(p) /\ Hit!Lag(p) <= hInput.settings.groupWindow
<1>1. hInput.settings.groupWindow \in Nat /\ Hit!Disorder \in Nat /\ Hit!Disorder = Coarse - 1 + Correction
  BY Constants DEF HitFile, Hit!Disorder
<1>2. PICK P : P = photons[p]
  OBVIOUS
<1>3. P \in PhotonOf(hits) /\ PhotonRight(P, taken, hIndex)
  BY <1>2 DEF PhotonsRight, Found
<1>4. P.of \in DOMAIN hits /\ Hit!Seed(P) \in DOMAIN hits /\ P.of \in P.hits /\ Hit!Seed(P) <= P.of
  BY <1>3 DEF PhotonRight, PhotonOf, MinOf
<1>5. Hit!PhotonHit(p) = hits[P.of]
  BY <1>2 DEF Hit!PhotonHit
<1>6. PICK h \in HitRec, k \in HitRec : h = hits[Hit!Seed(P)] /\ k = hits[P.of]
  BY <1>4
<1>7. PICK t \in Int, u \in Int : t = h.time /\ u = k.time
  BY DEF HitRec
<1>8. P.of = Hit!Seed(P) \/ Hit!Joins(h, k)
  BY <1>3, <1>4, <1>6 DEF PhotonRight
<1>9. Hit!Lag(p) = u - t
  BY <1>2, <1>5, <1>6, <1>7 DEF Hit!Lag
<1>10. u - t <= hInput.settings.groupWindow
  <2>1. CASE P.of = Hit!Seed(P)
    BY <1>1, <1>6, <1>7, <2>1
  <2>2. CASE Hit!Joins(h, k)
    <3>1. u <= t + hInput.settings.groupWindow
      BY <1>7, <2>2, JoinsInWindow
    <3> QED
      BY <1>1, <3>1
  <2> QED
    BY <1>8, <2>1, <2>2
<1>11. -Hit!Disorder <= u - t
  <2>1. PICK d \in Nat : d = Hit!Disorder /\ d = Coarse - 1 + Correction
    BY <1>1
  <2>2. CASE P.of = Hit!Seed(P)
    BY <1>6, <1>7, <2>1, <2>2
  <2>3. CASE P.of # Hit!Seed(P)
    <3>1. Hit!Seed(P) < P.of
      <4>1. P.of \in Nat /\ Hit!Seed(P) \in Nat
        BY <1>4
      <4> QED
        BY <1>4, <2>3, <4>1
    <3>2. u + d >= t
      BY <1>4, <1>6, <1>7, <2>1, <3>1 DEF SortedTo
    <3> QED
      BY <2>1, <3>2
  <2> QED
    BY <2>2, <2>3
<1>12. u = t + (u - t)
  OBVIOUS
<1> QED
  BY <1>1, <1>2, <1>4, <1>5, <1>6, <1>7, <1>9, <1>10, <1>11, <1>12

\* What a time later by v + w means for how long the hits lag.
LEMMA LaterAndLater ==
  ASSUME NEW v \in Int, NEW w \in Int, NEW d \in Int, NEW tp \in Int, NEW tq \in Int, NEW tr \in Int,
         NEW ta \in Int, NEW tb \in Int, NEW lr \in Int, NEW lq \in Int,
         tr - tp > v + w, tq - tp <= w, tb + d >= ta, tr = ta + lr, tq = tb + lq
  PROVE  lr - lq > v - d
  OBVIOUS

\* The search for the other photon of a coincidence misses none, but behind a photon
\* that lags more than the overlap is for.
LEMMA PairMissed ==
  ASSUME HitFile(hInput), hits \in Seq(HitRec), SortedTo(hits, Coarse - 1 + Correction),
         PhotonsRight(photons, rejected, taken, hIndex),
         NEW p \in DOMAIN photons, NEW q \in DOMAIN photons, p < q, Hit!Coincide(p, q), ~Hit!PassedOver(p, q)
  PROVE  q \in Hit!InReach(p)
<1> DEFINE after == p + 1 .. Len(photons)
<1> DEFINE past == {r \in after : Hit!PhotonHit(r).time - Hit!PhotonHit(p).time > Hit!PairReach}
<1>1. DOMAIN photons = 1 .. Len(photons) /\ Len(photons) \in Nat
  BY DEF PhotonsRight
<1>2. q \in after
  BY <1>1
<1>3. PICK w \in Nat : w = hInput.settings.coincidenceWindow /\ Hit!PairReach = Overlap + w
  BY DEF HitFile, Hit!PairReach, Hit!set
<1>4. PICK v \in Nat, d \in Nat : v = Overlap /\ d = Hit!Disorder /\ d = Coarse - 1 + Correction
  BY Constants DEF Hit!Disorder
<1>5. ASSUME NEW r \in past PROVE q < r
  <2>1. r \in DOMAIN photons /\ r \in Nat /\ p < r
    BY <1>1
  <2>2. PICK tp \in Int, tq \in Int, tr \in Int :
          tp = Hit!PhotonHit(p).time /\ tq = Hit!PhotonHit(q).time /\ tr = Hit!PhotonHit(r).time
    <3>1. Hit!PhotonHit(p) \in HitRec /\ Hit!PhotonHit(q) \in HitRec /\ Hit!PhotonHit(r) \in HitRec
      BY <2>1, PhotonTime
    <3> QED
      BY <3>1 DEF HitRec
  <2>3. tr - tp > v + w
    BY <1>3, <1>4, <2>2
  <2>4. tq - tp <= w
    <3>1. Hit!Abs(tp - tq) <= w
      BY <1>3, <2>2 DEF Hit!Coincide, Hit!set
    <3> QED
      BY <3>1 DEF Hit!Abs
  <2>5. ASSUME q = r PROVE FALSE
    <3>1. tq - tp > v + w
      BY <2>2, <2>3, <2>5
    <3> QED
      BY <2>4, <3>1
  <2>6. ASSUME r < q PROVE FALSE
    <3>1. PICK a, b : a = Hit!Seed(photons[r]) /\ b = Hit!Seed(photons[q])
      OBVIOUS
    <3>2. a < b
      BY <2>1, <2>6, <3>1 DEF PhotonsRight
    <3>3. a \in DOMAIN hits /\ b \in DOMAIN hits
      BY <2>1, <3>1, PhotonTime
    <3>4. PICK ta \in Int, tb \in Int : ta = hits[a].time /\ tb = hits[b].time
      <4>1. hits[a] \in HitRec /\ hits[b] \in HitRec
        BY <3>3
      <4> QED
        BY <4>1, Zenon DEF HitRec
    <3>5. tb + d >= ta
      BY <1>4, <3>2, <3>3, <3>4 DEF SortedTo
    <3>6. PICK lr \in Int, lq \in Int : lr = Hit!Lag(r) /\ lq = Hit!Lag(q) /\ tr = ta + lr /\ tq = tb + lq
      <4>1. Hit!Lag(r) \in Int /\ tr = ta + Hit!Lag(r)
        BY <2>1, <2>2, <3>1, <3>4, PhotonTime
      <4>2. Hit!Lag(q) \in Int /\ tq = tb + Hit!Lag(q)
        BY <2>2, <3>1, <3>4, PhotonTime
      <4> QED
        BY <4>1, <4>2
    <3>7. lr - lq > v - d
      <4>1. tr = ta + lr /\ tq = tb + lq
        BY <3>6
      <4> QED
        BY <2>3, <2>4, <3>5, <4>1, LaterAndLater
    <3>8. r \in p + 1 .. q - 1
      BY <1>1, <2>1, <2>6
    <3> QED
      BY <1>4, <3>6, <3>7, <3>8 DEF Hit!PassedOver
  <2> QED
    BY <1>1, <2>1, <2>5, <2>6
<1>6. Hit!InReach(p) = {r \in after : \A s \in past : r < s}
  BY DEF Hit!InReach
<1> HIDE DEF after, past
<1> QED
  BY <1>2, <1>5, <1>6

\* An overlap that allows for the group window lets no photon be passed over.
LEMMA NonePassedOver ==
  ASSUME HitFile(hInput), hits \in Seq(HitRec), SortedTo(hits, Coarse - 1 + Correction),
         PhotonsRight(photons, rejected, taken, hIndex),
         NEW p \in DOMAIN photons, NEW q \in DOMAIN photons, Hit!PassedOver(p, q)
  PROVE  ~(Overlap >= hInput.settings.groupWindow + 2 * Hit!Disorder)
<1>1. DOMAIN photons = 1 .. Len(photons) /\ Len(photons) \in Nat
  BY DEF PhotonsRight
<1>2. PICK r \in p + 1 .. q - 1 : Hit!Lag(r) - Hit!Lag(q) > Overlap - Hit!Disorder
  BY DEF Hit!PassedOver
<1>3. r \in DOMAIN photons
  BY <1>1
<1>4. PICK g \in Nat, d \in Nat, v \in Nat : g = hInput.settings.groupWindow /\ d = Hit!Disorder /\ v = Overlap
  BY PhotonTime, Constants
<1>5. PICK lr \in Int : lr = Hit!Lag(r) /\ lr <= g
  BY <1>3, <1>4, PhotonTime
<1>6. PICK lq \in Int : lq = Hit!Lag(q) /\ -d <= lq
  BY <1>4, PhotonTime
<1>7. lr - lq > v - d
  BY <1>2, <1>4, <1>5, <1>6
<1>8. ~(v >= g + 2 * d)
  BY <1>5, <1>6, <1>7
<1> QED
  BY <1>4, <1>8

\* The pairs of photons the grouper finds.
Pairs == {c \in (DOMAIN photons) \X (DOMAIN photons) : c[2] \in Hit!InReach(c[1]) /\ Hit!Coincide(c[1], c[2])}

\* The pairs found coincide, and have hits of their own.
LEMMA PairsAre ==
  ASSUME PhotonsRight(photons, rejected, taken, hIndex), NEW c \in Pairs
  PROVE  /\ c[1] \in DOMAIN photons /\ c[2] \in DOMAIN photons /\ c[1] < c[2] /\ Hit!Coincide(c[1], c[2])
         /\ c = <<c[1], c[2]>>
<1>1. DOMAIN photons = 1 .. Len(photons) /\ Len(photons) \in Nat
  BY DEF PhotonsRight
<1>2. c \in (DOMAIN photons) \X (DOMAIN photons) /\ c[2] \in Hit!InReach(c[1]) /\ Hit!Coincide(c[1], c[2])
  BY DEF Pairs
<1>3. c[1] \in Nat /\ c[2] \in Nat
  BY <1>1, <1>2
<1>4. c[2] \in c[1] + 1 .. Len(photons)
  BY <1>2 DEF Hit!InReach
<1> QED
  BY <1>1, <1>2, <1>3, <1>4

LEMMA OwnHits ==
  ASSUME hits \in Seq(HitRec), PhotonsRight(photons, rejected, taken, hIndex),
         NEW p \in DOMAIN photons, NEW q \in DOMAIN photons, photons[p].of = photons[q].of
  PROVE  p = q
<1>1. p \in Nat /\ q \in Nat
  <2>1. DOMAIN photons = 1 .. Len(photons)
    BY DEF PhotonsRight
  <2> QED
    BY <2>1
<1>2. PICK P, Q : P = photons[p] /\ Q = photons[q]
  BY Zenon
<1>3. P \in Found(photons, rejected) /\ Q \in Found(photons, rejected)
  BY <1>2 DEF Found
<1>4. P.of \in P.hits /\ Q.of \in Q.hits
  BY <1>3 DEF PhotonsRight, PhotonRight
<1>5. P = Q
  BY <1>2, <1>3, <1>4 DEF PhotonsRight, Apart
<1>6. PICK a : a = Hit!Seed(P) /\ a = Hit!Seed(Q) /\ a \in Nat
  <2>1. P \in PhotonOf(hits) /\ MinOf(P.hits, Hit!Seed(P))
    BY <1>2, <1>3 DEF PhotonsRight, PhotonRight
  <2>2. Hit!Seed(P) \in DOMAIN hits
    BY <2>1 DEF MinOf, PhotonOf
  <2> QED
    BY <1>5, <2>2
<1>7. ~(p < q) /\ ~(q < p)
  <2>1. \A n, m \in DOMAIN photons : n < m => Hit!Seed(photons[n]) < Hit!Seed(photons[m])
    BY DEF PhotonsRight
  <2>2. Hit!Seed(photons[p]) = a /\ Hit!Seed(photons[q]) = a
    BY <1>2, <1>6
  <2>3. ~(a < a)
    BY <1>6
  <2> QED
    BY <2>1, <2>2, <2>3
<1> QED
  BY <1>1, <1>7

----------------------------------------------------------------------------
(* The invariant of the chain. *)

\* The rows of the coincidences, in the order of the loops.
CoincidenceRows == [n \in DOMAIN PairsInOrder(pairs) |-> Hit!CoincidenceRow(PairsInOrder(pairs)[n])]

\* The times are out of order by no more than what sorting and calibration leave.
Ordered ==
  /\ HitFile(hInput) /\ config \in [HitChannel -> Conf]
  /\ raw \in Seq(RawHits) /\ SortedTo(raw, Coarse - 1)
  /\ hits \in Seq(HitRec) /\ SortedTo(hits, Coarse - 1 + Correction)

\* What the handlers before this one have done.
Handled ==
  /\ hStage \in {"load", "sort", "process", "exited"} => hits = << >>
  /\ hStage \in {"load", "sort", "process", "exited"} => photons = << >> /\ rejected = << >>
  /\ hStage = "group" => hInput.program = "coincidence"
  /\ hStage \in {"write", "done"} /\ hInput.program = "coincidence" => pairs = Pairs
  /\ hStage # "done" => rows = << >>
  /\ hStage = "done" /\ hInput.program = "coincidence" => rows = CoincidenceRows

PhotonsInv == PhotonsRight(photons, rejected, taken, hIndex)

\* The invariant of the chain: the times are in order to the tolerance, the photons are
\* right and apart, and the handlers did their part.
HitInv == Ordered /\ Hit!TypeOK /\ PhotonsInv /\ Handled

\* What depends on the hits and photons only.
LEMMA JoinsAfter ==
  ASSUME hInput' = hInput
  PROVE  \A h, k : Hit!Joins(h, k)' <=> Hit!Joins(h, k)
  BY DEF Hit!Joins, Hit!Allowed, Hit!PairLines, Hit!Abs, Hit!set, Hit!Range, Hit!Max

LEMMA PhotonsAfter ==
  ASSUME hInput' = hInput, hits' = hits, PhotonsRight(photons', rejected', taken', hIndex')
  PROVE  PhotonsRight(photons, rejected, taken, hIndex)'
<1>1. \A h, k : Hit!Joins(h, k)' <=> Hit!Joins(h, k)
  BY JoinsAfter
<1>2. \A p : Hit!Seed(p)' = Hit!Seed(p)
  BY DEF Hit!Seed, Hit!Min
<1>3. \A p, tk, j : PhotonRight(p, tk, j)' <=> PhotonRight(p, tk, j)
  BY <1>1, <1>2 DEF PhotonRight, MinOf
<1>4. \A p, q : Apart(p, q)' <=> Apart(p, q)
  BY <1>1, <1>2 DEF Apart
<1> QED
  BY <1>2, <1>3, <1>4 DEF PhotonsRight, Found, PhotonOf

LEMMA PairsAfter ==
  ASSUME hInput' = hInput, hits' = hits, photons' = photons
  PROVE  Pairs' = Pairs /\ \A c : Hit!CoincidenceRow(c)' = Hit!CoincidenceRow(c)
  BY DEF Pairs, Hit!InReach, Hit!Coincide, Hit!PhotonHit, Hit!PairReach, Hit!Allowed, Hit!PairLines, Hit!Abs, Hit!set,
         Hit!Range, Hit!Max, Hit!CoincidenceRow

\* Without photons all are right.
LEMMA NoPhotons ==
  ASSUME NEW j, NEW tk
  PROVE  PhotonsRight(<< >>, << >>, tk, j)
  BY DEF PhotonsRight, Found

\* The pairs are of photons.
LEMMA PairsType ==
  ASSUME PhotonsRight(photons, rejected, taken, hIndex)
  PROVE  Len(photons) \in Nat /\ Pairs \in SUBSET ((1 .. Len(photons)) \X (1 .. Len(photons)))
<1>1. DOMAIN photons = 1 .. Len(photons) /\ Len(photons) \in Nat
  BY DEF PhotonsRight
<1> QED
  BY <1>1 DEF Pairs

\* A row of a coincidence has the brightest hits of its two photons.
LEMMA RowType ==
  ASSUME PhotonsRight(photons, rejected, taken, hIndex), NEW c \in Pairs
  PROVE  /\ Hit!Range(Hit!CoincidenceRow(c)) = {photons[c[1]].of, photons[c[2]].of}
         /\ c[1] \in DOMAIN photons /\ c[2] \in DOMAIN photons
         /\ {photons[c[1]].of, photons[c[2]].of} \subseteq DOMAIN hits
<1>1. c[1] \in DOMAIN photons /\ c[2] \in DOMAIN photons
  BY DEF Pairs
<1>2. photons[c[1]] \in PhotonOf(hits) /\ photons[c[2]] \in PhotonOf(hits)
  <2>1. PICK S : S = PhotonOf(hits)
    OBVIOUS
  <2>2. photons \in Seq(S)
    BY <2>1 DEF PhotonsRight
  <2> QED
    BY <1>1, <2>1, <2>2
<1>3. PICK a, b : a = photons[c[1]].of /\ b = photons[c[2]].of
  OBVIOUS
<1>4. a \in DOMAIN hits /\ b \in DOMAIN hits
  BY <1>2, <1>3 DEF PhotonOf
<1>5. Hit!CoincidenceRow(c) = <<a, b>> \/ Hit!CoincidenceRow(c) = <<b, a>>
  BY <1>3 DEF Hit!CoincidenceRow
<1>6. \A x, y : Hit!Range(<<x, y>>) = {x, y}
  BY DEF Hit!Range
<1>7. Hit!Range(Hit!CoincidenceRow(c)) = {a, b}
  BY <1>5, <1>6
<1> QED
  BY <1>1, <1>3, <1>4, <1>7

\* The rows are those of the pairs, one for each, in an order f of them.
LEMMA PairRows ==
  ASSUME PhotonsRight(photons, rejected, taken, hIndex), pairs = Pairs
  PROVE  \E f \in Seq(Pairs) :
           /\ DOMAIN CoincidenceRows = DOMAIN f
           /\ \A n \in DOMAIN f : f[n] \in Pairs /\ CoincidenceRows[n] = Hit!CoincidenceRow(f[n])
           /\ \A m, n \in DOMAIN f : f[m] = f[n] => m = n
           /\ \A c \in Pairs : \E n \in DOMAIN f : f[n] = c
<1>1. Len(photons) \in Nat /\ Pairs \in SUBSET ((1 .. Len(photons)) \X (1 .. Len(photons)))
  BY PairsType
<1>2. PICK f, S : f = PairsInOrder(Pairs) /\ S = Pairs
  OBVIOUS
<1>3. /\ f \in Seq(S) /\ \A m, n \in DOMAIN f : f[m] = f[n] => m = n
      /\ \A c \in S : \E n \in DOMAIN f : f[n] = c
  BY <1>1, <1>2, PairsOneByOne
<1>4. PICK g : g = CoincidenceRows
  OBVIOUS
<1>5. g = [n \in DOMAIN f |-> Hit!CoincidenceRow(f[n])]
  BY <1>2, <1>4 DEF CoincidenceRows
<1>6. \A n \in DOMAIN f : f[n] \in S
  BY <1>3
<1>7. DOMAIN g = DOMAIN f /\ \A n \in DOMAIN f : g[n] = Hit!CoincidenceRow(f[n])
  BY <1>5
<1> HIDE DEF Pairs, CoincidenceRows
<1> QED
  BY <1>2, <1>3, <1>4, <1>6, <1>7

\* Write writes them.
LEMMA RowsWritten ==
  ASSUME PhotonsRight(photons, rejected, taken, hIndex), pairs = Pairs,
         hInput.program = "coincidence", Hit!Write
  PROVE  rows' = CoincidenceRows
<1>1. Len(photons) \in Nat /\ Pairs \in SUBSET ((1 .. Len(photons)) \X (1 .. Len(photons)))
  BY PairsType
<1>2. PICK S : S = pairs
  OBVIOUS
<1>3. PICK f : f = PairsInOrder(S)
  OBVIOUS
<1>4. f = [n \in 1 .. Hit!Cardinality(S) |->
             CHOOSE c \in S : Hit!Cardinality({d \in S : d[1] < c[1] \/ (d[1] = c[1] /\ d[2] < c[2])}) = n - 1]
  <2>1. \A c \in S : Hit!Cardinality({d \in S : d[1] < c[1] \/ (d[1] = c[1] /\ d[2] < c[2])})
                        = Cardinality({d \in S : PairBefore(d, c)})
    BY HitCardinality DEF PairBefore
  <2>2. Hit!Cardinality(S) = Cardinality(S)
    BY HitCardinality
  <2>3. \A n : NthPair(S, n) = CHOOSE c \in S :
                 Hit!Cardinality({d \in S : d[1] < c[1] \/ (d[1] = c[1] /\ d[2] < c[2])}) = n - 1
    BY <2>1, Zenon DEF NthPair
  <2>4. f = [n \in 1 .. Cardinality(S) |-> NthPair(S, n)]
    BY <1>3 DEF PairsInOrder
  <2>5. f = [n \in 1 .. Hit!Cardinality(S) |-> NthPair(S, n)]
    BY <2>2, <2>4
  <2> QED
    BY <2>3, <2>5, Zenon
<1>5. rows' = [n \in DOMAIN f |-> Hit!CoincidenceRow(f[n])]
  BY <1>2, <1>4 DEF Hit!Write, Hit!InOrder
<1> QED
  BY <1>2, <1>3, <1>5 DEF CoincidenceRows

\* The rows and the order of the times depend on what they are made of only.
LEMMA RowsAfter ==
  ASSUME hInput' = hInput, hits' = hits, photons' = photons, pairs' = pairs
  PROVE  CoincidenceRows' = CoincidenceRows
  BY PairsAfter DEF CoincidenceRows

LEMMA OrderedAfter ==
  ASSUME Ordered, hInput' = hInput, config' \in [HitChannel -> Conf],
         raw' \in Seq(RawHits), SortedTo(raw', Coarse - 1),
         hits' \in Seq(HitRec), SortedTo(hits', Coarse - 1 + Correction)
  PROVE  Ordered'
<1>1. HitFile(hInput)'
  BY DEF Ordered, HitFile
<1> QED
  BY <1>1 DEF Ordered, SortedTo

\* The steps of the chain, one after the other.
LEMMA LoadStep ==
  ASSUME HitInv, Hit!Load
  PROVE  HitInv'
<1>1. /\ hStage = "load" /\ hStage' \in {"sort", "exited"}
      /\ config' = [c \in HitChannel |-> Hit!LoadChannelMap(c, Hit!LoadQDC(c, Hit!LoadTDC(c, config[c])))]
      /\ hInput' = hInput /\ raw' = raw /\ hits' = hits /\ hIndex' = hIndex /\ taken' = taken
      /\ photons' = photons /\ rejected' = rejected /\ pairs' = pairs /\ rows' = rows
  <2>1. Hit!Chain[1] = "sort"
    BY Stages DEF HitInv, Ordered, HitFile
  <2> QED
    BY <2>1 DEF Hit!Load
<1>2. Ordered'
  <2>1. config' \in [HitChannel -> Conf]
    <3>1. \A c \in HitChannel : config[c] \in Conf
      BY DEF HitInv, Ordered
    <3>2. HitFile(hInput)
      BY DEF HitInv, Ordered
    <3>3. \A c \in HitChannel : Hit!LoadChannelMap(c, Hit!LoadQDC(c, Hit!LoadTDC(c, config[c]))) \in Conf
      BY <3>1, <3>2, LoadedType
    <3> QED
      BY <1>1, <3>3
  <2> QED
    BY <1>1, <2>1, OrderedAfter DEF HitInv, Ordered
<1>3. Hit!TypeOK'
  BY <1>1 DEF HitInv, Hit!TypeOK, Hit!Range
<1>4. PhotonsInv'
  BY <1>1, PhotonsAfter DEF HitInv, PhotonsInv
<1>5. Handled'
  BY <1>1 DEF HitInv, Handled
<1> QED
  BY <1>2, <1>3, <1>4, <1>5 DEF HitInv

LEMMA SortStep ==
  ASSUME HitInv, Hit!Sort
  PROVE  HitInv'
<1>1. /\ hStage = "sort" /\ hStage' = "process"
      /\ hInput' = hInput /\ config' = config /\ hits' = hits /\ hIndex' = hIndex /\ taken' = taken
      /\ photons' = photons /\ rejected' = rejected /\ pairs' = pairs /\ rows' = rows
  <2>1. Hit!After("sort") = "process"
    BY Stages DEF HitInv, Ordered, HitFile
  <2> QED
    BY <2>1 DEF Hit!Sort
<1>2. raw' \in Seq(RawHits) /\ raw' \in Seq(Hit!Range(hInput.block)) /\ SortedTo(raw', Coarse - 1)
  BY SortedRaw DEF HitInv, Ordered
<1>3. Ordered'
  BY <1>1, <1>2, OrderedAfter DEF HitInv, Ordered
<1>4. Hit!TypeOK'
  <2>1. Len(raw') \in Nat
    BY <1>2
  <2>2. hits = << >> /\ Len(hits) = 0
    BY <1>1 DEF HitInv, Handled
  <2> QED
    BY <1>1, <1>2, <2>1, <2>2 DEF HitInv, Hit!TypeOK, Hit!Range
<1>5. PhotonsInv'
  BY <1>1, PhotonsAfter DEF HitInv, PhotonsInv
<1>6. Handled'
  BY <1>1 DEF HitInv, Handled
<1> QED
  BY <1>3, <1>4, <1>5, <1>6 DEF HitInv

LEMMA ProcessStep ==
  ASSUME HitInv, Hit!ProcessHit
  PROVE  HitInv'
<1>1. /\ hStage = "process"
      /\ \/ hInput.program = "singles" /\ hStage' = "write"
         \/ hInput.program = "coincidence" /\ hStage' = "group"
      /\ hInput' = hInput /\ config' = config /\ raw' = raw /\ hIndex' = hIndex /\ taken' = taken
      /\ photons' = photons /\ rejected' = rejected /\ pairs' = pairs /\ rows' = rows
  <2>1. Hit!After("process") = IF hInput.program = "singles" THEN "write" ELSE "group"
    BY Stages DEF HitInv, Ordered, HitFile
  <2>2. hInput.program \in {"singles", "coincidence"}
    BY DEF HitInv, Ordered, HitFile
  <2>3. /\ hStage = "process" /\ hStage' = Hit!After("process")
        /\ hInput' = hInput /\ config' = config /\ raw' = raw /\ hIndex' = hIndex /\ taken' = taken
        /\ photons' = photons /\ rejected' = rejected /\ pairs' = pairs /\ rows' = rows
    BY DEF Hit!ProcessHit, Hit!InOrder
  <2>4. CASE hInput.program = "singles"
    BY <2>1, <2>3, <2>4
  <2>5. CASE hInput.program = "coincidence"
    BY <2>1, <2>3, <2>5
  <2> QED
    BY <2>2, <2>3, <2>4, <2>5
<1>2. hits' \in Seq(HitRec) /\ Len(hits') <= Len(raw) /\ SortedTo(hits', Coarse - 1 + Correction)
  BY CalibratedHits DEF HitInv, Ordered
<1>3. hits = << >> /\ photons = << >> /\ rejected = << >>
  BY <1>1 DEF HitInv, Handled
<1>4. Ordered'
  BY <1>1, <1>2, OrderedAfter DEF HitInv, Ordered
<1>5. Hit!TypeOK'
  <2>1. hIndex = 0 /\ taken = {} /\ rows = << >>
    <3>1. DOMAIN hits = {} /\ Len(hits) = 0 /\ rows = << >>
      BY <1>1, <1>3 DEF HitInv, Handled
    <3> QED
      BY <3>1 DEF HitInv, Hit!TypeOK
  <2>2. Len(hits') \in Nat /\ \A h \in Hit!Range(hits') : h.region \in Nat
    <3>1. \A n \in DOMAIN hits' : hits'[n] \in HitRec
      BY <1>2
    <3>2. \A n \in DOMAIN hits' : hits'[n].region \in Nat
      BY <3>1 DEF HitRec
    <3> QED
      BY <1>2, <3>2 DEF Hit!Range
  <2>3. \A row_ \in Hit!Range(<< >>) : FALSE
    BY DEF Hit!Range
  <2>4. raw \in Seq(Hit!Range(hInput.block))
    BY DEF HitInv, Hit!TypeOK
  <2> QED
    BY <1>1, <1>2, <2>1, <2>2, <2>3, <2>4 DEF Hit!TypeOK, Hit!Range
<1>6. PhotonsInv'
  <2>1. photons' = << >> /\ rejected' = << >>
    BY <1>1, <1>3
  <2> QED
    BY <2>1 DEF PhotonsInv, PhotonsRight, Found
<1>7. Handled'
  <2>1. hInput.program = "coincidence" => hStage' = "group"
    BY <1>1
  <2> QED
    BY <1>1, <2>1 DEF HitInv, Handled
<1> QED
  BY <1>4, <1>5, <1>6, <1>7 DEF HitInv

LEMMA GroupStep ==
  ASSUME HitInv, Hit!GroupHit
  PROVE  HitInv'
<1>1. /\ hStage = "group" /\ hStage' = hStage
      /\ hInput' = hInput /\ config' = config /\ raw' = raw /\ hits' = hits
      /\ pairs' = pairs /\ rows' = rows
  BY DEF Hit!GroupHit
<1>2. /\ hIndex' = hIndex + 1 /\ hIndex < Len(hits) /\ taken' \subseteq DOMAIN hits
      /\ PhotonsRight(photons', rejected', taken', hIndex')
  <2>1. hIndex \in 0 .. Len(hits) /\ taken \subseteq DOMAIN hits
    BY DEF HitInv, Hit!TypeOK
  <2> QED
    BY <2>1, PhotonsGrow DEF HitInv, Ordered, PhotonsInv
<1>3. Ordered'
  BY <1>1, OrderedAfter DEF HitInv, Ordered
<1>4. Hit!TypeOK'
  <2>1. Len(hits) \in Nat
    BY DEF HitInv, Ordered
  <2>2. hIndex' \in 0 .. Len(hits)
    BY <1>2, <2>1 DEF HitInv, Hit!TypeOK
  <2> QED
    BY <1>1, <1>2, <2>2 DEF HitInv, Hit!TypeOK, Hit!Range
<1>5. PhotonsInv'
  BY <1>1, <1>2, PhotonsAfter DEF PhotonsInv
<1>6. Handled'
  BY <1>1 DEF HitInv, Handled
<1> QED
  BY <1>3, <1>4, <1>5, <1>6 DEF HitInv

LEMMA PairStep ==
  ASSUME HitInv, Hit!GroupCoincidences
  PROVE  HitInv'
<1>1. /\ hStage = "group" /\ hStage' = "write" /\ pairs' = Pairs /\ hInput.program = "coincidence"
      /\ hInput' = hInput /\ config' = config /\ raw' = raw /\ hits' = hits /\ hIndex' = hIndex
      /\ taken' = taken /\ photons' = photons /\ rejected' = rejected /\ rows' = rows
  <2>1. hStage = "group" => hInput.program = "coincidence"
    BY DEF HitInv, Handled
  <2>2. hInput.program = "coincidence" => Hit!After("group") = "write"
    BY Stages DEF HitInv, Ordered, HitFile
  <2> QED
    BY <2>1, <2>2 DEF Hit!GroupCoincidences, Pairs
<1>2. Ordered'
  BY <1>1, OrderedAfter DEF HitInv, Ordered
<1>3. Hit!TypeOK'
  BY <1>1 DEF HitInv, Hit!TypeOK, Hit!Range
<1>4. PhotonsInv'
  BY <1>1, PhotonsAfter DEF HitInv, PhotonsInv
<1>5. Handled'
  BY <1>1, PairsAfter DEF HitInv, Handled
<1> QED
  BY <1>2, <1>3, <1>4, <1>5 DEF HitInv

LEMMA WriteStep ==
  ASSUME HitInv, Hit!Write
  PROVE  HitInv'
<1>1. /\ hStage = "write" /\ hStage' = "done"
      /\ hInput' = hInput /\ config' = config /\ raw' = raw /\ hits' = hits /\ hIndex' = hIndex
      /\ taken' = taken /\ photons' = photons /\ rejected' = rejected /\ pairs' = pairs
  <2>1. Hit!After("write") = "done"
    BY Stages DEF HitInv, Ordered, HitFile
  <2> QED
    BY <2>1, Zenon DEF Hit!Write
<1>2. hInput.program = "singles" \/ hInput.program = "coincidence"
  BY DEF HitInv, Ordered, HitFile
<1>3. hInput.program = "singles" => rows' = [n \in DOMAIN hits |-> Hit!SingleRow(n)]
  BY DEF Hit!Write
<1>4. ASSUME hInput.program = "coincidence" PROVE pairs = Pairs /\ rows' = CoincidenceRows
  <2>1. pairs = Pairs
    BY <1>1, <1>4 DEF HitInv, Handled
  <2> QED
    BY <1>4, <2>1, RowsWritten DEF HitInv, PhotonsInv
<1>5. \A line \in Hit!Range(rows') : Hit!Range(line) \subseteq DOMAIN hits
  <2>1. CASE hInput.program = "singles"
    <3>1. \A x : Hit!Range(<<x>>) = {x}
      BY DEF Hit!Range
    <3> QED
      BY <1>3, <2>1, <3>1 DEF Hit!Range, Hit!SingleRow
  <2>2. CASE hInput.program = "coincidence"
    <3>1. \A c \in Pairs : Hit!Range(Hit!CoincidenceRow(c)) \subseteq DOMAIN hits
      BY RowType DEF HitInv, PhotonsInv
    <3>2. \A n \in DOMAIN CoincidenceRows : \E c \in Pairs : CoincidenceRows[n] = Hit!CoincidenceRow(c)
      BY <1>4, <2>2, PairRows, Zenon DEF HitInv, PhotonsInv
    <3> QED
      BY <1>4, <2>2, <3>1, <3>2 DEF Hit!Range
  <2> QED
    BY <1>2, <2>1, <2>2
<1>6. Ordered'
  BY <1>1, OrderedAfter DEF HitInv, Ordered
<1>7. Hit!TypeOK'
  <2>1. \A line \in Hit!Range(rows)' : Hit!Range(line)' \subseteq DOMAIN hits'
    BY <1>1, <1>5 DEF Hit!Range
  <2> QED
    BY <1>1, <2>1 DEF HitInv, Hit!TypeOK, Hit!Range
<1>8. PhotonsInv'
  BY <1>1, PhotonsAfter DEF HitInv, PhotonsInv
<1>9. Handled'
  BY <1>1, <1>4, PairsAfter, RowsAfter DEF HitInv, Handled
<1> QED
  BY <1>6, <1>7, <1>8, <1>9 DEF HitInv

\* The invariant of the chain at the beginning and after every step.
LEMMA HitInit ==
  ASSUME OfflineInit
  PROVE  HitInv
<1>1. HitFile(hInput)
  <2>1. CASE hInput \in HitInputs
    BY <2>1, OfflineAssumption
  <2>2. CASE hInput = NoBlock
    <3>1. << >> \in Seq(TableLine) /\ << >> \in Seq(RawHits)
      OBVIOUS
    <3> QED
      BY <2>2, <3>1 DEF HitFile, NoBlock
  <2> QED
    BY <2>1, <2>2 DEF OfflineInit
<1>2. /\ hStage = "load" /\ config = [c \in HitChannel |-> Hit!NullChannel]
      /\ raw = << >> /\ hits = << >> /\ hIndex = 0 /\ taken = {}
      /\ photons = << >> /\ rejected = << >> /\ rows = << >>
  BY DEF OfflineInit, Hit!Begin
<1>3. Ordered
  <2>1. Hit!NullChannel \in Conf
    BY Constants DEF Hit!NullChannel, Conf
  <2> QED
    BY <1>1, <1>2, <2>1 DEF Ordered, SortedTo
<1>4. Hit!TypeOK
  BY <1>2 DEF Hit!TypeOK, Hit!Range
<1>5. PhotonsInv
  BY <1>2, NoPhotons DEF PhotonsInv
<1>6. Handled
  BY <1>2 DEF Handled
<1> QED
  BY <1>3, <1>4, <1>5, <1>6 DEF HitInv

LEMMA HitStep ==
  ASSUME HitInv, [OfflineNext]_offlineVars
  PROVE  HitInv'
<1>1. CASE Hit!Next
  BY <1>1, LoadStep, SortStep, ProcessStep, GroupStep, PairStep, WriteStep DEF Hit!Next
<1>2. CASE UNCHANGED hitVars
  <2>1. /\ hInput' = hInput /\ hStage' = hStage /\ config' = config /\ raw' = raw /\ hits' = hits
        /\ hIndex' = hIndex /\ taken' = taken /\ photons' = photons /\ rejected' = rejected
        /\ pairs' = pairs /\ rows' = rows
    BY <1>2 DEF hitVars
  <2>2. Ordered'
    BY <2>1, OrderedAfter DEF HitInv, Ordered
  <2>3. Hit!TypeOK'
    BY <2>1 DEF HitInv, Hit!TypeOK, Hit!Range
  <2>4. PhotonsInv'
    BY <2>1, PhotonsAfter DEF HitInv, PhotonsInv
  <2>5. Handled'
    BY <2>1, PairsAfter, RowsAfter DEF HitInv, Handled
  <2> QED
    BY <2>2, <2>3, <2>4, <2>5 DEF HitInv
<1> QED
  BY <1>1, <1>2 DEF OfflineNext, Convert, Merge, Group, offlineVars

\* The invariant is enough for both properties.
LEMMA PhotonsStayApart ==
  ASSUME HitInv
  PROVE  PhotonsAreApart
<1>1. Hit!SortedToTolerance
  <2>1. PICK half \in Nat : half = Overlap \div 2 /\ Coarse - 1 + Correction <= half
    BY Constants
  <2>2. Coarse \in Nat /\ Correction \in Nat
    BY Constants
  <2>3. ASSUME NEW j \in DOMAIN raw, NEW k \in DOMAIN raw, j < k
        PROVE  raw[k].time + half >= raw[j].time
    <3>1. raw[k].time + (Coarse - 1) >= raw[j].time
      BY <2>3 DEF HitInv, Ordered, SortedTo
    <3>2. raw[k] \in RawHits /\ raw[j] \in RawHits
      BY <2>3 DEF HitInv, Ordered
    <3>3. PICK t \in Int, u \in Int : t = raw[j].time /\ u = raw[k].time
      BY <3>2 DEF RawHits
    <3> QED
      BY <2>1, <2>2, <3>1, <3>3
  <2>4. ASSUME NEW j \in DOMAIN hits, NEW k \in DOMAIN hits, j < k
        PROVE  hits[k].time + half >= hits[j].time
    <3>1. hits[k].time + (Coarse - 1 + Correction) >= hits[j].time
      BY <2>4 DEF HitInv, Ordered, SortedTo
    <3>2. hits[k] \in HitRec /\ hits[j] \in HitRec
      BY <2>4 DEF HitInv, Ordered
    <3>3. PICK t \in Int, u \in Int : t = hits[j].time /\ u = hits[k].time
      BY <3>2 DEF HitRec
    <3> QED
      BY <2>1, <2>2, <3>1, <3>3
  <2> QED
    BY <2>1, <2>3, <2>4 DEF Hit!SortedToTolerance
<1>2. Hit!PhotonsAreApart
  <2>1. Hit!Range(photons \o rejected) = Found(photons, rejected)
    <3>1. PICK S : S = PhotonOf(hits)
      OBVIOUS
    <3>2. photons \in Seq(S) /\ rejected \in Seq(S)
      BY <3>1 DEF HitInv, PhotonsInv, PhotonsRight
    <3>3. PICK a, b, both : a = photons /\ b = rejected /\ both = a \o b
      BY Zenon
    <3>4. /\ DOMAIN a = 1 .. Len(a) /\ DOMAIN b = 1 .. Len(b) /\ DOMAIN both = 1 .. Len(a) + Len(b)
          /\ Len(a) \in Nat /\ Len(b) \in Nat
          /\ \A n \in DOMAIN both : both[n] = IF n <= Len(a) THEN a[n] ELSE b[n - Len(a)]
      BY <3>2, <3>3
    <3>5. ASSUME NEW n \in DOMAIN both PROVE both[n] \in Found(a, b)
      <4>1. CASE n <= Len(a)
        <5>1. n \in DOMAIN a /\ both[n] = a[n]
          BY <3>4, <4>1
        <5> QED
          BY <5>1 DEF Found
      <4>2. CASE ~(n <= Len(a))
        <5>1. n - Len(a) \in DOMAIN b /\ both[n] = b[n - Len(a)]
          BY <3>4, <4>2
        <5> QED
          BY <5>1 DEF Found
      <4> QED
        BY <4>1, <4>2
    <3>6. ASSUME NEW n \in DOMAIN a PROVE n \in DOMAIN both /\ both[n] = a[n]
      BY <3>4
    <3>7. ASSUME NEW n \in DOMAIN b PROVE n + Len(a) \in DOMAIN both /\ both[n + Len(a)] = b[n]
      BY <3>4
    <3>8. {both[n] : n \in DOMAIN both} = Found(a, b)
      BY <3>5, <3>6, <3>7 DEF Found
    <3> QED
      BY <3>3, <3>8 DEF Hit!Range
  <2> QED
    BY <2>1 DEF HitInv, PhotonsInv, PhotonsRight, Apart, Hit!PhotonsAreApart
<1> QED
  BY <1>1, <1>2 DEF HitInv, PhotonsAreApart

LEMMA CoincidencesAreFound ==
  ASSUME HitInv
  PROVE  CoincidencesFound
<1> DEFINE due == {c \in (DOMAIN photons) \X (DOMAIN photons) : c[1] < c[2] /\ Hit!Coincide(c[1], c[2])}
<1>1. SUFFICES ASSUME hStage = "done", hInput.program = "coincidence"
      PROVE  /\ \A m, n \in DOMAIN rows : Hit!Range(rows[m]) = Hit!Range(rows[n]) => m = n
             /\ \A line \in Hit!Range(rows) : \E c \in due : Hit!Range(line) = {photons[c[1]].of, photons[c[2]].of}
             /\ \A c \in due : Hit!Written(c[1], c[2]) \/ Hit!PassedOver(c[1], c[2])
             /\ Overlap >= hInput.settings.groupWindow + 2 * Hit!Disorder => \A c \in due : Hit!Written(c[1], c[2])
  BY Zenon DEF CoincidencesFound, Hit!CoincidencesFound, Hit!set
<1>2. pairs = Pairs /\ rows = CoincidenceRows /\ PhotonsRight(photons, rejected, taken, hIndex)
  BY <1>1 DEF HitInv, Handled, PhotonsInv
<1>3. HitFile(hInput) /\ hits \in Seq(HitRec) /\ SortedTo(hits, Coarse - 1 + Correction)
  BY DEF HitInv, Ordered
<1>4. PICK f \in Seq(Pairs) :
        /\ DOMAIN rows = DOMAIN f
        /\ \A n \in DOMAIN f : f[n] \in Pairs /\ rows[n] = Hit!CoincidenceRow(f[n])
        /\ \A m, n \in DOMAIN f : f[m] = f[n] => m = n
        /\ \A c \in Pairs : \E n \in DOMAIN f : f[n] = c
  BY <1>2, PairRows
<1>5. ASSUME NEW c \in Pairs
      PROVE  c \in due /\ Hit!Range(Hit!CoincidenceRow(c)) = {photons[c[1]].of, photons[c[2]].of}
  <2>1. c \in (DOMAIN photons) \X (DOMAIN photons) /\ c[1] < c[2] /\ Hit!Coincide(c[1], c[2])
    BY <1>2, PairsAre DEF Pairs
  <2> QED
    BY <1>2, <2>1, RowType
<1>6. ASSUME NEW m \in DOMAIN rows, NEW n \in DOMAIN rows, Hit!Range(rows[m]) = Hit!Range(rows[n])
      PROVE  m = n
  <2>1. PICK c \in Pairs, d \in Pairs :
          c = f[m] /\ d = f[n] /\ Hit!Range(Hit!CoincidenceRow(c)) = Hit!Range(Hit!CoincidenceRow(d))
    BY <1>4, <1>6
  <2>2. /\ c[1] \in DOMAIN photons /\ c[2] \in DOMAIN photons /\ c[1] < c[2] /\ c = <<c[1], c[2]>>
        /\ d[1] \in DOMAIN photons /\ d[2] \in DOMAIN photons /\ d[1] < d[2] /\ d = <<d[1], d[2]>>
    BY <1>2, PairsAre
  <2>3. {photons[c[1]].of, photons[c[2]].of} = {photons[d[1]].of, photons[d[2]].of}
    BY <1>5, <2>1
  <2>4. c[1] \in {d[1], d[2]} /\ c[2] \in {d[1], d[2]}
    BY <1>2, <1>3, <2>2, <2>3, OwnHits, Zenon
  <2>5. c[1] \in Nat /\ c[2] \in Nat /\ d[1] \in Nat /\ d[2] \in Nat
    <3>1. DOMAIN photons = 1 .. Len(photons)
      BY <1>2 DEF PhotonsRight
    <3> QED
      BY <2>2, <3>1
  <2>6. c[1] = d[1] /\ c[2] = d[2]
    BY <2>2, <2>4, <2>5
  <2>7. f[m] = f[n]
    BY <2>1, <2>2, <2>6
  <2> QED
    BY <1>4, <2>7
<1>7. ASSUME NEW c \in due
      PROVE  c[1] \in DOMAIN photons /\ c[2] \in DOMAIN photons /\ (Hit!Written(c[1], c[2]) \/ Hit!PassedOver(c[1], c[2]))
  <2>1. c[1] \in DOMAIN photons /\ c[2] \in DOMAIN photons /\ c[1] < c[2] /\ Hit!Coincide(c[1], c[2])
    OBVIOUS
  <2>2. SUFFICES ASSUME ~Hit!PassedOver(c[1], c[2]) PROVE Hit!Written(c[1], c[2])
    BY <2>1
  <2>3. c[2] \in Hit!InReach(c[1])
    BY <1>2, <1>3, <2>1, <2>2, PairMissed
  <2>4. c \in Pairs
    BY <2>3 DEF Pairs
  <2>5. PICK n \in DOMAIN rows : rows[n] = Hit!CoincidenceRow(c)
    BY <1>4, <2>4
  <2>6. Hit!Range(rows[n]) = {photons[c[1]].of, photons[c[2]].of}
    BY <1>5, <2>4, <2>5
  <2> QED
    BY <2>6 DEF Hit!Written, Hit!Range
<1>8. ASSUME NEW line \in Hit!Range(rows)
      PROVE  \E c \in due : Hit!Range(line) = {photons[c[1]].of, photons[c[2]].of}
  <2>1. PICK n \in DOMAIN rows : line = rows[n]
    BY DEF Hit!Range
  <2>2. PICK c \in Pairs : line = Hit!CoincidenceRow(c)
    BY <1>4, <2>1
  <2> QED
    BY <1>5, <2>2
<1>9. ASSUME Overlap >= hInput.settings.groupWindow + 2 * Hit!Disorder, NEW c \in due
      PROVE  Hit!Written(c[1], c[2])
  BY <1>2, <1>3, <1>7, <1>9, NonePassedOver
<1> HIDE DEF due
<1> QED
  BY <1>6, <1>7, <1>8, <1>9

\* No two photons of a block share a hit or could have been one, for any block, any tables
\* and any settings: the search ends early and misses none (SimpleGrouper.cpp:105).
THEOREM NoPhotonInTwo == OfflineSpec => []PhotonsAreApart
<1>1. OfflineInit => HitInv
  BY HitInit
<1>2. HitInv /\ [OfflineNext]_offlineVars => HitInv'
  BY HitStep
<1>3. HitInv => PhotonsAreApart
  BY PhotonsStayApart
<1> QED
  BY <1>1, <1>2, <1>3, PTL DEF OfflineSpec

\* The rows of a block are of coincidences, once each, and the early end of the search
\* misses one only behind a photon whose brightest hit lags more than the overlap is for
\* (CoincidenceGrouper.cpp:36); none if the overlap allows for the group window.
THEOREM MissedBehindLagOnly == OfflineSpec => []CoincidencesFound
<1>1. OfflineInit => HitInv
  BY HitInit
<1>2. HitInv /\ [OfflineNext]_offlineVars => HitInv'
  BY HitStep
<1>3. HitInv => CoincidencesFound
  BY CoincidencesAreFound
<1> QED
  BY <1>1, <1>2, <1>3, PTL DEF OfflineSpec
=============================================================================
