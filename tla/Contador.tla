------------------------------ MODULE Contador ------------------------------
(***************************************************************************)
(* What a counter of UsageQuota promises, whatever the requests behind it: *)
(* a holder takes its units only if they fit in the plan, gives back what  *)
(* it took and nothing else, and may at worst lose them (a process that    *)
(* dies, a refund that fails).  So the counter never shows less than what  *)
(* is held, and what is held never exceeds the plan.                       *)
(***************************************************************************)
EXTENDS Naturals, FiniteSets

CONSTANTS Titulares,   \* who may hold a unit
          Limite       \* the limit of a limited plan

VARIABLES plano,       \* "limitado", "ilimitado", or "semLinha": no UsageQuota row
          usado,       \* the counter
          detidos      \* the holders of a unit
vars == <<plano, usado, detidos>>

Planos == {"limitado", "ilimitado", "semLinha"}

Init == plano \in Planos /\ usado = 0 /\ detidos = {}

Tomar(t) ==
  /\ t \notin detidos
  /\ \/ plano = "ilimitado"
     \/ plano = "limitado" /\ usado < Limite
  /\ usado' = usado + 1 /\ detidos' = detidos \cup {t}
  /\ UNCHANGED plano

Largar(t) ==
  /\ t \in detidos
  /\ usado' = usado - 1 /\ detidos' = detidos \ {t}
  /\ UNCHANGED plano

Perder(t) ==
  /\ t \in detidos
  /\ detidos' = detidos \ {t}
  /\ UNCHANGED <<plano, usado>>

Next == \E t \in Titulares : Tomar(t) \/ Largar(t) \/ Perder(t)

Spec == Init /\ [][Next]_vars
=============================================================================
