------------------------------ MODULE Calendar ------------------------------
(***************************************************************************)
(* The civil calendar (src/src/summary/time.rs): days counted from         *)
(* 1970-01-01 and the proleptic Gregorian dates they name, as <<year,      *)
(* month, day>>.  Rust's `/` truncates and TLA+'s \div floors: Quot is the *)
(* first, written out where a dividend may be negative.                    *)
(***************************************************************************)
EXTENDS Integers, Sequences

(* Truncating division, which the era is found by. *)
Quot(a, b) == IF a >= 0 THEN a \div b ELSE 0 - ((0 - a) \div b)

(* A mutant that starts the era's year in January. *)
mutant_days_from_civil(year, month, day) ==
    LET era == Quot(IF year >= 0 THEN year ELSE year - 399, 400)
        yoe == year - era * 400
        doy == (153 * (month + (IF month > 2 THEN -3 ELSE 9)) + 2) \div 5 + day - 1
        whole == IF month <= 2 THEN 1 ELSE 0
    IN  era * 146097 + (yoe - whole) * 365 + yoe \div 4 - yoe \div 100 + doy - 719468

days_from_civil(year, month, day) ==
    LET y == IF month <= 2 THEN year - 1 ELSE year
        era == Quot(IF y >= 0 THEN y ELSE y - 399, 400)
        yoe == y - era * 400
        doy == (153 * (month + (IF month > 2 THEN -3 ELSE 9)) + 2) \div 5 + day - 1
    IN  era * 146097 + yoe * 365 + yoe \div 4 - yoe \div 100 + doy - 719468

civil_from_days(days) ==
    LET d == days + 719468
        era == Quot(IF d >= 0 THEN d ELSE d - 146096, 146097)
        doe == d - era * 146097
        yoe == (doe - doe \div 1460 + doe \div 36524 - doe \div 146096) \div 365
        doy == doe - (365 * yoe + yoe \div 4 - yoe \div 100)
        mp == (5 * doy + 2) \div 153
        day == doy - (153 * mp + 2) \div 5 + 1
        month == mp + (IF mp < 10 THEN 3 ELSE -9)
    IN  <<yoe + era * 400 + (IF month <= 2 THEN 1 ELSE 0), month, day>>

days_in_month(year, month) ==
    CASE month \in {4, 6, 9, 11} -> 30
      [] month = 2 /\ year % 4 = 0 /\ (year % 100 # 0 \/ year % 400 = 0) -> 29
      [] month = 2 /\ ~(year % 4 = 0 /\ (year % 100 # 0 \/ year % 400 = 0)) -> 28
      [] month \in {1, 3, 5, 7, 8, 10, 12} -> 31
      [] OTHER -> 0
=============================================================================
