------------------------------- MODULE Health -------------------------------
(***************************************************************************)
(* The two health scores: CalculateHealth of internal/heartbeat, and       *)
(* CalculateHealthV2 of internal/inventory.  Readings are whole numbers.   *)
(* The means are kept exact where the code has float64: V2's overall score *)
(* is 400 times the code's, since its weights and the mean of the four     *)
(* security scores are multiples of 1/400.                                 *)
(***************************************************************************)
EXTENDS Integers, SequencesExt

\* heartbeat.CalculateHealth: a reading out of range is left out.
CalculateHealth(cpu, memory, disk) ==
    LET known(v) == v \in 0..100
        value(v) == IF known(v) THEN v ELSE 0
        counted(v) == IF known(v) THEN 1 ELSE 0
        total == value(cpu) + value(memory) + value(disk)
        count == counted(cpu) + counted(memory) + counted(disk)
        maximum(limit) == \E v \in {cpu, memory, disk} : v \in limit..100
        overall(limit) == count > 0 /\ total >= limit * count
    IN  IF maximum(90) \/ overall(85) THEN "Critical"
        ELSE IF maximum(75) \/ overall(65) THEN "Warning"
        ELSE "Healthy"

\* Mutant of usageScore: the range is not checked.
usageUnchecked(value) == 100 - value

usageScore(value) == IF value \in 0..100 THEN 100 - value ELSE 50

heartbeatScore(status) ==
    CASE status = "ONLINE" -> 100 [] status = "PENDING" -> 50 [] OTHER -> 0

\* Mutant of latencyScore: the last case is missing.
latencyUnbounded(value) ==
    CASE value < 0 -> 50
      [] value \in 201..500 -> 70
      [] value \in 501..1000 -> 40
      [] OTHER -> 100

latencyScore(value) ==
    CASE value < 0 -> 50
      [] value \in 0..200 -> 100
      [] value \in 201..500 -> 70
      [] value \in 501..1000 -> 40
      [] OTHER -> 10

securityScore(state) ==
    IF ~state.available THEN 50 ELSE IF state.enabled THEN 100 ELSE 0

\* What the assessment says besides the scores.
Explanations(cpu, memory, disk, heartbeat, latency, security) ==
    LET off(s) == s.available /\ ~s.enabled
        said == [cpu |-> cpu >= 85, memory |-> memory >= 85, disk |-> disk >= 85,
                 heartbeat |-> heartbeat = "OFFLINE", latency |-> latency > 500,
                 firewall |-> off(security.firewall),
                 defender |-> off(security.defender),
                 bitlocker |-> off(security.bitlocker)]
    IN  {e \in DOMAIN said : said[e]}

\* The weighted sum of the scores; protection is the sum of the security ones.
overallScore(cpu, memory, disk, heartbeat, latency, protection) ==
    80 * (cpu + memory + disk) + 60 * heartbeat + 40 * latency + 15 * protection

overallStatus(overall) ==
    IF overall >= 80 * 400 THEN "Healthy"
    ELSE IF overall >= 60 * 400 THEN "Warning"
    ELSE "Critical"

protectionScore(security) ==
    securityScore(security.tpm) + securityScore(security.bitlocker)
        + securityScore(security.defender) + securityScore(security.firewall)

CalculateHealthV2(cpu, memory, disk, heartbeat, latency, security) ==
    LET overall == overallScore(usageScore(cpu), usageScore(memory), usageScore(disk),
                                heartbeatScore(heartbeat), latencyScore(latency),
                                protectionScore(security))
    IN  [usage |-> <<usageScore(cpu), usageScore(memory), usageScore(disk)>>,
         overall |-> overall, status |-> overallStatus(overall),
         explanations |->
            Explanations(cpu, memory, disk, heartbeat, latency, security)]
=============================================================================
