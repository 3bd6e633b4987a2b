------------------------------ MODULE Calendario ------------------------------
(***************************************************************************)
(* Month arithmetic of the engines that compute future dates: addMonths of *)
(* the renewal engine and nextDate of the obligations.  A date is a day in *)
(* a month, and months are numbered on from January of a leap year.        *)
(***************************************************************************)
EXTENDS Naturals

Data(mes, dia) == [mes |-> mes, dia |-> dia]
Menor(a, b) == IF a <= b THEN a ELSE b

bissexto(mes) == (mes \div 12) % 4 = 0
ultimoDia(mes) ==
  IF mes % 12 = 1 THEN (IF bissexto(mes) THEN 29 ELSE 28)
  ELSE IF mes % 12 \in {3, 5, 8, 10} THEN 30 ELSE 31

(* Mutant: the raw setMonth, which overflows into the month after.         *)
addMonths_Transborda(base, meses) ==
  LET mes == base.mes + meses IN
  IF base.dia <= ultimoDia(mes) THEN Data(mes, base.dia)
  ELSE Data(mes + 1, base.dia - ultimoDia(mes))

(* The day is kept, or clamped to the last of the month that lacks it.     *)
addMonths(base, meses) ==
  LET mes == base.mes + meses IN Data(mes, Menor(base.dia, ultimoDia(mes)))
=============================================================================
