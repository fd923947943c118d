--------------------------- MODULE VersionedConfig ---------------------------
(***************************************************************************)
(* What a chat may count on about its stored alert configuration: it       *)
(* starts paused, every change builds on the version before it, and one    *)
(* change either pauses or resumes the alerts or replaces the selections,  *)
(* never both.                                                             *)
(***************************************************************************)
EXTENDS Naturals

CONSTANTS Providers, Symbols, Intervals,
          NoRow      (* no configuration is stored yet                     *)

VARIABLE row         (* the stored configuration                           *)

Chosen(S) == (SUBSET S) \ {{}}

Rows == [version : Nat, enabled : BOOLEAN, provider : Providers,
         symbols : Chosen(Symbols), intervals : Chosen(Intervals)]

Init == row \in Rows \cup {NoRow}

Create ==
  /\ row = NoRow
  /\ row' \in Rows
  /\ row'.version = 0 /\ ~row'.enabled

Switch ==
  /\ row # NoRow
  /\ \E on \in BOOLEAN :
       row' = [row EXCEPT !.version = @ + 1, !.enabled = on]

Select ==
  /\ row # NoRow
  /\ \E p \in Providers, S \in Chosen(Symbols), I \in Chosen(Intervals) :
       row' = [row EXCEPT !.version = @ + 1, !.provider = p,
                          !.symbols = S, !.intervals = I]

Next == Create \/ Switch \/ Select

Spec == Init /\ [][Next]_row

==============================================================================
