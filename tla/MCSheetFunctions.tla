----------------------------- MODULE MCSheetFunctions -----------------------------
(***************************************************************************)
(* Small sheets for SheetFunctions.  97 is "a", 98 "b", 49 "1", 65 "A".         *)
(* Beyond ASCII: 196 and 228 are A and a with two dots, 304 a capital I with   *)
(* a dot, folded to i and a combining dot (775), 8490 the sign of kelvin,      *)
(* folded to k.                                                                *)
(***************************************************************************)
EXTENDS SheetFunctions

SomeCharacters == 0 .. 127 \cup {196, 228, 304, 775, 8490}

SomeLowerCase ==
  [c \in SomeCharacters |->
     CASE c = 196 -> <<228>> [] c = 304 -> <<105, 775>> [] c = 8490 -> <<107>>
       [] OTHER -> <<LowerAscii(c)>>]

SomeKeys ==
  {Blank, Number(1), Number(12), Number(-2), Text(<<49>>), Text(<<97, 98>>),
   Text(<<65>>), Text(<<42>>), Text(<<196>>), Text(<<304>>), Text(<<8490>>),
   Boolean(TRUE), Error("#N/A")}

SomeAmounts ==
  {<<Number(3), Number(-2), Boolean(TRUE)>>, <<Blank, Number(5), Text(<<97>>)>>,
   <<Number(1), Blank, Error("#REF!")>>}

Lookedup ==
  {Blank, Number(0), Number(1), Number(12), Boolean(FALSE), Boolean(TRUE),
   Text(<<97>>), Text(<<98>>), Text(<<97, 42>>), Text(<<63>>),
   Text(<<42, 98>>), Text(<<126, 42>>), Text(<<228>>), Text(<<105, 775>>),
   Text(<<107>>)}

SomeOperands == {<<>>, <<49>>, <<45, 50>>, <<65, 66>>, True}
SomePatterns == {<<63>>, <<49, 42>>}

\* Ends of months and years, leap days and none, the first and the last days.
Days == {1, 31, 32, 58, 59, 60, 61, 62, 91, 366, 367, 368}
          \cup {36525, 36526, 36583, 36584, 36585, 36586}
          \cup 45288 .. 45296 \cup {45350, 45351, 45352}
          \cup {73108, 73109, 73110} \cup 2958461 .. 2958465

Offsets == -14 .. 14 \cup {24, 60, -40}

\* None; days of the week and of the weekend; a day on which a count ends.
MayBeOff == {{}, {45289, 45292, 45293}, {45290, 45350}, {60, 61}, {2958463}}
=============================================================================
