--------------------------- MODULE MCStreakReplay ---------------------------
(***************************************************************************)
(* Two sets of histories, with a two-day minimum and a two-day cooldown.   *)
(*                                                                         *)
(* Every history of five days: the shortest span in which grace can be     *)
(* spent twice, be refused for the cooldown and be refused for a short run.*)
(*                                                                         *)
(* Every set of passed days of eight: long enough for one changed day to   *)
(* move grace to a later miss and that, in turn, to deny it to a third.    *)
(***************************************************************************)
EXTENDS StreakReplay

MCDays == 1..8

MCPassesOnly ==
    [ logged : UNION {[D -> {TRUE}] : D \in SUBSET MCDays},
      bad    : {{}},
      today  : {8},
      grace  : BOOLEAN ]

MCHistories == History(1..5) \cup MCPassesOnly

MCStoredRecords == {3}
=============================================================================
