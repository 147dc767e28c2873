--------------------------- MODULE FormatterProofs ---------------------------
(***************************************************************************)
(* The formatters, for every style sheet and every page: their types, that *)
(* each piece of the source is printed once and in its order, that the     *)
(* indentation follows the braces and the elements open, and where white   *)
(* space is dropped and put in.  With what is proved of scripts, whichever *)
(* formatter works prints everything (Formatters).                         *)
(***************************************************************************)
EXTENDS Formatters, ScriptProofs, FiniteSetTheorems, SequenceTheorems,
        WellFoundedInduction, TLAPS

-----------------------------------------------------------------------------
(* Depth and Excess of a sheet c, and the indentations there may be when n *)
(* of its tokens have been read.                                           *)

Braces(c, n, t) == {m \in 1 .. n : c[m].t = t}
DepthOf(c, n)   == Cardinality(Braces(c, n, "open")) - Cardinality(Braces(c, n, "close"))
Behind(c, n)    == {-DepthOf(c, m) : m \in 0 .. n}
ExcessOf(c, n)  == Max(Behind(c, n))
Bases(c, n)     == {DepthOf(c, m) + ExcessOf(c, m) : m \in 1 .. n}

IsExcess(c, n, x) == x \in Behind(c, n) /\ \A y \in Behind(c, n) : y <= x

\* Nothing is open before the first token.
LEMMA NothingIsOpen == \A c : DepthOf(c, 0) = 0
<1> SUFFICES ASSUME NEW c PROVE DepthOf(c, 0) = 0
  OBVIOUS
<1>1. Braces(c, 0, "open") = {} /\ Braces(c, 0, "close") = {}
  BY DEF Braces
<1> QED
  BY <1>1, FS_EmptySet DEF DepthOf

\* One more token adds its brace to the braces of that kind.
LEMMA BraceCounts ==
    ASSUME NEW c, NEW n \in Nat, NEW t
    PROVE  /\ Cardinality(Braces(c, n, t)) \in Nat
           /\ Cardinality(Braces(c, n + 1, t))
              = Cardinality(Braces(c, n, t)) + (IF c[n + 1].t = t THEN 1 ELSE 0)
<1>1. IsFiniteSet(Braces(c, n, t)) /\ Cardinality(Braces(c, n, t)) \in Nat
  <2>1. IsFiniteSet(1 .. n)
    BY FS_Interval
  <2> QED
    BY <2>1, FS_Subset, FS_CardinalityType DEF Braces
<1>2. ASSUME c[n + 1].t = t
      PROVE  Cardinality(Braces(c, n + 1, t)) = Cardinality(Braces(c, n, t)) + 1
  <2>1. Braces(c, n + 1, t) = Braces(c, n, t) \cup {n + 1} /\ n + 1 \notin Braces(c, n, t)
    BY <1>2 DEF Braces
  <2> QED
    BY <1>1, <2>1, FS_AddElement
<1>3. ASSUME c[n + 1].t # t
      PROVE  Braces(c, n + 1, t) = Braces(c, n, t)
  BY <1>3 DEF Braces
<1> QED
  BY <1>1, <1>2, <1>3

\* One more token changes the depth by its brace.
LEMMA DepthStep ==
    ASSUME NEW c, NEW n \in Nat
    PROVE  /\ DepthOf(c, n) \in Int
           /\ c[n + 1].t = "open" => DepthOf(c, n + 1) = DepthOf(c, n) + 1
           /\ c[n + 1].t = "close" => DepthOf(c, n + 1) = DepthOf(c, n) - 1
           /\ c[n + 1].t \notin {"open", "close"} => DepthOf(c, n + 1) = DepthOf(c, n)
<1>1. /\ Cardinality(Braces(c, n, "open")) \in Nat
      /\ Cardinality(Braces(c, n + 1, "open"))
         = Cardinality(Braces(c, n, "open")) + (IF c[n + 1].t = "open" THEN 1 ELSE 0)
  BY BraceCounts
<1>2. /\ Cardinality(Braces(c, n, "close")) \in Nat
      /\ Cardinality(Braces(c, n + 1, "close"))
         = Cardinality(Braces(c, n, "close")) + (IF c[n + 1].t = "close" THEN 1 ELSE 0)
  BY BraceCounts
<1> QED
  BY <1>1, <1>2 DEF DepthOf

\* There is but one largest number.
LEMMA ExcessIs ==
    ASSUME NEW c, NEW n \in Nat, NEW x \in Int, IsExcess(c, n, x)
    PROVE  ExcessOf(c, n) = x
<1>1. \A y \in Behind(c, n) : y \in Int
  BY DepthStep DEF Behind
<1>2. \A y \in Behind(c, n) : (\A z \in Behind(c, n) : y >= z) => y = x
  BY <1>1 DEF IsExcess
<1>3. x \in Behind(c, n) /\ \A z \in Behind(c, n) : x >= z
  BY <1>1 DEF IsExcess
<1> QED
  BY <1>2, <1>3 DEF ExcessOf, Max

\* The excess grows to what closes more than all before did.
LEMMA ExcessStep ==
    ASSUME NEW c, NEW n \in Nat, NEW x \in Int, IsExcess(c, n, x)
    PROVE  /\ -DepthOf(c, n + 1) <= x => IsExcess(c, n + 1, x)
           /\ -DepthOf(c, n + 1) >= x => IsExcess(c, n + 1, -DepthOf(c, n + 1))
<1>1. Behind(c, n + 1) = Behind(c, n) \cup {-DepthOf(c, n + 1)}
  <2>1. 0 .. n + 1 = (0 .. n) \cup {n + 1}
    OBVIOUS
  <2> QED
    BY <2>1 DEF Behind
<1>2. DepthOf(c, n + 1) \in Int /\ \A y \in Behind(c, n) : y \in Int
  BY DepthStep DEF Behind
<1> QED
  BY <1>1, <1>2 DEF IsExcess

-----------------------------------------------------------------------------
(* The printer.  An output s ends, after its last token at k, in white     *)
(* space whose indentations are in B.                                      *)

SheetPiece  == [k : {"token", "blank", "newline", "indent"}, n : Int]
Gap(B) == {Blank1, Newline} \cup {Indented(b) : b \in B}

Ends(s, k, B) ==
    /\ s \in Seq(SheetPiece)
    /\ k \in 0 .. Len(s)
    /\ k > 0 => s[k].k = "token"
    /\ \A i \in k + 1 .. Len(s) : s[i] \in Gap(B)

\* t is s as far as k.
Same(s, t, k) == \A i \in 1 .. k : t[i] = s[i]

\* White space is no token.
LEMMA GapIs ==
    ASSUME NEW B \in SUBSET Nat, NEW x \in Gap(B)
    PROVE  x \in SheetPiece /\ x.k # "token" /\ (x.k = "indent" => x.n \in B)
  BY DEF Gap, SheetPiece, Blank1, Newline, Indented

\* trim goes back to the last token.
LEMMA TrimIs ==
    ASSUME NEW B \in SUBSET Nat, NEW s, NEW k, Ends(s, k, B)
    PROVE  /\ Trim(s) = SubSeq(s, 1, k)
           /\ Len(Trim(s)) = k
           /\ Ends(Trim(s), k, B)
           /\ Same(s, Trim(s), k)
<1> DEFINE keep == {n \in 1 .. Len(s) : s[n].k = "token"}
<1>1. s \in Seq(SheetPiece) /\ Len(s) \in Nat /\ k \in 0 .. Len(s)
  BY DEF Ends
<1>2. \A n \in keep : n \in 1 .. k
  BY <1>1, GapIs DEF Ends
<1>3. ASSUME k = 0 PROVE keep = {}
  BY <1>2, <1>3
<1>4. ASSUME k # 0
      PROVE  keep # {} /\ k = CHOOSE n \in keep : \A m \in keep : m <= n
  <2>1. k \in keep /\ \A m \in keep : m <= k
    BY <1>1, <1>2, <1>4 DEF Ends
  <2>2. \A n \in keep : (\A m \in keep : m <= n) => n = k
    BY <1>1, <1>2, <2>1
  <2> QED
    BY <2>1, <2>2
<1>5. Trim(s) = SubSeq(s, 1, IF keep = {} THEN 0 ELSE CHOOSE n \in keep : \A m \in keep : m <= n)
  BY DEF Trim
<1>6. Trim(s) = SubSeq(s, 1, k)
  BY <1>3, <1>4, <1>5
<1> HIDE DEF keep
<1>7. /\ Trim(s) \in Seq(SheetPiece) /\ Len(Trim(s)) = k
      /\ \A i \in 1 .. k : Trim(s)[i] = s[i]
  BY <1>1, <1>6
<1> QED
  BY <1>1, <1>6, <1>7 DEF Ends, Same

\* A piece of white space more.
LEMMA GapGrows ==
    ASSUME NEW B \in SUBSET Nat, NEW s, NEW k, Ends(s, k, B), NEW x \in Gap(B)
    PROVE  /\ Ends(Append(s, x), k, B)
           /\ Same(s, Append(s, x), Len(s))
           /\ Same(s, Append(s, x), k)
           /\ Len(Append(s, x)) = Len(s) + 1
           /\ Append(s, x)[Len(s) + 1] = x
<1>1. x \in SheetPiece
  BY GapIs
<1>2. s \in Seq(SheetPiece) /\ Len(s) \in Nat /\ k \in 0 .. Len(s)
  BY DEF Ends
<1>3. /\ Append(s, x) \in Seq(SheetPiece) /\ Len(Append(s, x)) = Len(s) + 1
      /\ \A i \in 1 .. Len(s) : Append(s, x)[i] = s[i]
      /\ Append(s, x)[Len(s) + 1] = x
  BY <1>1, <1>2
<1> QED
  BY <1>2, <1>3 DEF Ends, Same

\* A token more.
LEMMA TokenIs ==
    ASSUME NEW B \in SUBSET Nat, NEW s, NEW k, Ends(s, k, B), NEW n \in Nat
    PROVE  /\ Ends(Append(s, Token(n)), Len(s) + 1, B)
           /\ Same(s, Append(s, Token(n)), Len(s))
           /\ Len(Append(s, Token(n))) = Len(s) + 1
           /\ Append(s, Token(n))[Len(s) + 1] = Token(n)
<1>1. Token(n) \in SheetPiece /\ Token(n).k = "token"
  BY DEF Token, SheetPiece
<1>2. s \in Seq(SheetPiece) /\ Len(s) \in Nat
  BY DEF Ends
<1>3. /\ Append(s, Token(n)) \in Seq(SheetPiece) /\ Len(Append(s, Token(n))) = Len(s) + 1
      /\ \A i \in 1 .. Len(s) : Append(s, Token(n))[i] = s[i]
      /\ Append(s, Token(n))[Len(s) + 1] = Token(n)
  BY <1>1, <1>2
<1> QED
  BY <1>1, <1>2, <1>3 DEF Ends, Same

\* singleSpace parts what comes from the last token.
LEMMA SingleSpaceIs ==
    ASSUME NEW B \in SUBSET Nat, NEW s, NEW k, Ends(s, k, B)
    PROVE  /\ Ends(SingleSpace(s), k, B)
           /\ Same(s, SingleSpace(s), k)
           /\ k > 0 => Len(SingleSpace(s)) > k
           /\ Len(s) > k => SingleSpace(s) = s
<1>1. s \in Seq(SheetPiece) /\ Len(s) \in Nat /\ k \in 0 .. Len(s)
  BY DEF Ends
<1>2. ASSUME s # <<>>, ~IsWhite(s)
      PROVE  SingleSpace(s) = Append(s, Blank1) /\ Len(s) = k
  <2>1. s[Len(s)].k = "token"
    BY <1>2 DEF IsWhite
  <2>2. Len(s) > 0
    BY <1>1, <1>2
  <2>3. ~(Len(s) \in k + 1 .. Len(s))
    BY <2>1, GapIs DEF Ends
  <2> QED
    BY <1>1, <1>2, <2>2, <2>3 DEF SingleSpace
<1>3. ASSUME s = <<>> \/ IsWhite(s)
      PROVE  SingleSpace(s) = s /\ (k > 0 => Len(s) > k)
  <2>1. SingleSpace(s) = s
    BY <1>3 DEF SingleSpace
  <2>2. k > 0 => s # <<>>
    BY <1>1
  <2>3. ASSUME k > 0 PROVE Len(s) > k
    <3>1. s[Len(s)].k # "token" /\ s[k].k = "token"
      BY <1>3, <2>2, <2>3 DEF IsWhite, Ends
    <3>2. Len(s) # k
      BY <3>1
    <3> QED
      BY <1>1, <3>2
  <2> QED
    BY <2>1, <2>3
<1>4. Blank1 \in Gap(B)
  BY DEF Gap
<1>5. ASSUME s # <<>>, ~IsWhite(s)
      PROVE  /\ Ends(SingleSpace(s), k, B)
             /\ Same(s, SingleSpace(s), k)
             /\ Len(SingleSpace(s)) > k
             /\ ~(Len(s) > k)
  <2>1. SingleSpace(s) = Append(s, Blank1) /\ Len(s) = k
    BY <1>2, <1>5
  <2>2. Ends(Append(s, Blank1), k, B) /\ Same(s, Append(s, Blank1), k) /\ Len(Append(s, Blank1)) = Len(s) + 1
    BY <1>4, GapGrows
  <2> QED
    BY <1>1, <2>1, <2>2
<1>6. Same(s, s, k)
  BY DEF Same
<1> QED
  BY <1>3, <1>5, <1>6

\* newLine(true) adds a newline, and indentations if there are any.
LEMMA NewLineKeptIs ==
    ASSUME NEW B \in SUBSET Nat, NEW s, NEW k, Ends(s, k, B), NEW b, b = 0 \/ b \in B
    PROVE  /\ Ends(NewLineKept(s, b), k, B)
           /\ Same(s, NewLineKept(s, b), k)
           /\ Len(s) > 0 => /\ Len(NewLineKept(s, b)) > Len(s)
                            /\ NewLineKept(s, b)[Len(s) + 1] = Newline
           /\ Len(s) > k => NewLineKept(s, b)[k + 1] = s[k + 1]
<1> DEFINE t == Append(s, Newline)
           u == Append(t, Indented(b))
<1>1. s \in Seq(SheetPiece) /\ Len(s) \in Nat /\ k \in 0 .. Len(s)
  BY DEF Ends
<1>2. Newline \in Gap(B) /\ (b # 0 => Indented(b) \in Gap(B))
  BY DEF Gap
<1>3. Newline \in SheetPiece /\ (b # 0 => Indented(b) \in SheetPiece)
  BY <1>2, GapIs
<1>4. /\ Ends(t, k, B)
      /\ Same(s, t, Len(s)) /\ Same(s, t, k)
      /\ Len(t) = Len(s) + 1
      /\ t[Len(s) + 1] = Newline
  BY <1>2, GapGrows
<1>5. ASSUME s = <<>> PROVE NewLineKept(s, b) = s
  BY <1>5 DEF NewLineKept
<1>6. ASSUME s # <<>>, b = 0 PROVE NewLineKept(s, b) = t
  <2>1. NewLineKept(s, b) = s \o <<Newline>> \o <<>>
    BY <1>6 DEF NewLineKept
  <2>2. s \o <<Newline>> \o <<>> = t
    BY <1>1, <1>3
  <2> QED
    BY <2>1, <2>2
<1>7. ASSUME s # <<>>, b # 0 PROVE NewLineKept(s, b) = u
  <2>1. NewLineKept(s, b) = s \o <<Newline>> \o <<Indented(b)>>
    BY <1>7 DEF NewLineKept
  <2>2. s \o <<Newline>> \o <<Indented(b)>> = u
    BY <1>1, <1>3, <1>7
  <2> QED
    BY <2>1, <2>2
<1>8. ASSUME b # 0
      PROVE  /\ Ends(u, k, B)
             /\ Same(t, u, Len(t))
             /\ Len(u) = Len(t) + 1
  BY <1>2, <1>4, <1>8, GapGrows
<1> HIDE DEF t, u
<1>9. Same(s, s, k)
  BY DEF Same
<1>10. ASSUME s = <<>> PROVE Len(s) = 0
  BY <1>10
<1>11. ASSUME b # 0
       PROVE  Same(s, u, k) /\ Len(u) > Len(s) /\ u[Len(s) + 1] = Newline
              /\ (Len(s) > k => u[k + 1] = s[k + 1])
  BY <1>1, <1>4, <1>8, <1>11 DEF Same
<1>12. Len(s) > k => t[k + 1] = s[k + 1]
  BY <1>1, <1>4 DEF Same
<1>13. Len(t) > Len(s)
  BY <1>1, <1>4
<1> QED
  BY <1>1, <1>4, <1>5, <1>6, <1>7, <1>8, <1>9, <1>10, <1>11, <1>12, <1>13

\* newLine parts too; the first thing behind a token is a newline if it was, or if nothing
\* was behind that token.
LEMMA NewLineIs ==
    ASSUME NEW B \in SUBSET Nat, NEW s, NEW k, Ends(s, k, B), NEW b, b = 0 \/ b \in B
    PROVE  /\ Ends(NewLine(s, b), k, B)
           /\ Same(s, NewLine(s, b), k)
           /\ k > 0 => Len(NewLine(s, b)) > k
           /\ k > 0 /\ (Len(s) = k \/ s[k + 1] = Newline) => NewLine(s, b)[k + 1] = Newline
<1>1. s \in Seq(SheetPiece) /\ Len(s) \in Nat /\ k \in 0 .. Len(s)
  BY DEF Ends
<1>2. ASSUME s = <<>> \/ s[Len(s)] = Newline
      PROVE  /\ NewLine(s, b) = NewLineKept(s, b)
             /\ k > 0 => Len(s) > k
  <2>1. NewLine(s, b) = NewLineKept(s, b)
    BY <1>2 DEF NewLine
  <2>2. ASSUME k > 0 PROVE Len(s) > k
    <3>1. s[Len(s)] = Newline /\ s[k].k = "token"
      BY <1>1, <1>2, <2>2 DEF Ends
    <3>2. Len(s) # k
      BY <3>1 DEF Newline
    <3> QED
      BY <1>1, <3>2
  <2> QED
    BY <2>1, <2>2
<1>3. ASSUME ~(s = <<>> \/ s[Len(s)] = Newline)
      PROVE  NewLine(s, b) = NewLineKept(Trim(s), b)
  BY <1>3 DEF NewLine
<1>4. /\ Ends(NewLineKept(s, b), k, B)
      /\ Same(s, NewLineKept(s, b), k)
      /\ Len(s) > 0 => Len(NewLineKept(s, b)) > Len(s)
      /\ Len(s) > k => NewLineKept(s, b)[k + 1] = s[k + 1]
  BY NewLineKeptIs, SMTT(30)
<1>5. /\ Len(Trim(s)) = k
      /\ Ends(Trim(s), k, B)
      /\ Same(s, Trim(s), k)
  BY TrimIs
<1>6. /\ Ends(NewLineKept(Trim(s), b), k, B)
      /\ Same(Trim(s), NewLineKept(Trim(s), b), k)
      /\ Len(Trim(s)) > 0 => /\ Len(NewLineKept(Trim(s), b)) > Len(Trim(s))
                             /\ NewLineKept(Trim(s), b)[Len(Trim(s)) + 1] = Newline
  BY <1>5, NewLineKeptIs
<1>7. Same(s, NewLineKept(Trim(s), b), k)
  BY <1>5, <1>6 DEF Same
<1>8. Len(NewLineKept(s, b)) \in Nat
  BY <1>4 DEF Ends
<1> QED
  BY <1>1, <1>2, <1>3, <1>4, <1>5, <1>6, <1>7, <1>8

\* preserveSingleSpace parts only what white space parts in the sheet.
LEMMA PreserveIs ==
    ASSUME NEW B \in SUBSET Nat, NEW s, NEW k, Ends(s, k, B), NEW white
    PROVE  /\ Ends(PreserveSingleSpace(s, white), k, B)
           /\ Same(s, PreserveSingleSpace(s, white), k)
           /\ white # "none" /\ k > 0 => Len(PreserveSingleSpace(s, white)) > k
           /\ white = "none" \/ Len(s) > k => PreserveSingleSpace(s, white) = s
<1>1. Same(s, s, k)
  BY DEF Same
<1> QED
  BY <1>1, SingleSpaceIs DEF PreserveSingleSpace

-----------------------------------------------------------------------------
(* indentLevel and baseIndentString when n tokens of c have been read.     *)

Level(c, n, l, b) ==
    /\ b \in Nat
    /\ l = DepthOf(c, n)
    /\ IsExcess(c, n, b - l)
    /\ Bases(c, n) \in SUBSET Nat
    /\ IF n = 0 THEN b = 0 ELSE b \in Bases(c, n)

\* Nothing read: no brace is open.
LEMMA LevelAtFirst == \A c : Level(c, 0, 0, 0)
<1> SUFFICES ASSUME NEW c PROVE Level(c, 0, 0, 0)
  OBVIOUS
<1>1. DepthOf(c, 0) = 0
  BY NothingIsOpen
<1>2. Behind(c, 0) = {0}
  <2>1. 0 .. 0 = {0}
    OBVIOUS
  <2> QED
    BY <1>1, <2>1 DEF Behind
<1>3. Bases(c, 0) = {}
  BY DEF Bases
<1> QED
  BY <1>1, <1>2, <1>3 DEF Level, IsExcess

\* What Level says of the next token, given how far both went.
LEMMA LevelNext ==
    ASSUME NEW c, NEW n \in Nat, NEW l, NEW b, Level(c, n, l, b),
           NEW h \in Nat, IsExcess(c, n + 1, h - DepthOf(c, n + 1))
    PROVE  Level(c, n + 1, DepthOf(c, n + 1), h)
<1>1. DepthOf(c, n + 1) \in Int
  BY DepthStep
<1>2. ExcessOf(c, n + 1) = h - DepthOf(c, n + 1)
  BY <1>1, ExcessIs
<1>3. 1 .. n + 1 = (1 .. n) \cup {n + 1}
  OBVIOUS
<1>4. Bases(c, n + 1) = Bases(c, n) \cup {DepthOf(c, n + 1) + ExcessOf(c, n + 1)}
  BY <1>3 DEF Bases
<1>5. DepthOf(c, n + 1) + ExcessOf(c, n + 1) = h
  BY <1>1, <1>2
<1> QED
  BY <1>4, <1>5 DEF Level

\* A brace, or another token, moves the level and the string as the code does.
LEMMA LevelStep ==
    ASSUME NEW c, NEW n \in Nat, NEW l, NEW b, Level(c, n, l, b)
    PROVE  /\ c[n + 1].t = "open" => Level(c, n + 1, l + 1, b + 1)
           /\ c[n + 1].t = "close" => Level(c, n + 1, l - 1, IF b = 0 THEN 0 ELSE b - 1)
           /\ c[n + 1].t \notin {"open", "close"} => Level(c, n + 1, l, b)
<1>1. /\ DepthOf(c, n) \in Int
      /\ c[n + 1].t = "open" => DepthOf(c, n + 1) = DepthOf(c, n) + 1
      /\ c[n + 1].t = "close" => DepthOf(c, n + 1) = DepthOf(c, n) - 1
      /\ c[n + 1].t \notin {"open", "close"} => DepthOf(c, n + 1) = DepthOf(c, n)
  BY DepthStep
<1>2. l = DepthOf(c, n) /\ b \in Nat /\ IsExcess(c, n, b - l)
  BY DEF Level
<1>3. b - l \in Int
  BY <1>1, <1>2
<1>4. /\ -DepthOf(c, n + 1) <= b - l => IsExcess(c, n + 1, b - l)
      /\ -DepthOf(c, n + 1) >= b - l => IsExcess(c, n + 1, -DepthOf(c, n + 1))
  BY <1>2, <1>3, ExcessStep
<1>5. -l <= b - l
  BY <1>1, <1>2
<1>6. ASSUME c[n + 1].t = "open" PROVE Level(c, n + 1, l + 1, b + 1)
  <2>1. DepthOf(c, n + 1) = l + 1 /\ -(l + 1) <= b - l /\ b - l = (b + 1) - (l + 1)
    BY <1>1, <1>2, <1>6
  <2>2. IsExcess(c, n + 1, (b + 1) - DepthOf(c, n + 1))
    BY <1>4, <2>1
  <2>3. b + 1 \in Nat
    BY <1>2
  <2> QED
    BY <2>1, <2>2, <2>3, LevelNext
<1>7. ASSUME c[n + 1].t = "close", b = 0 PROVE Level(c, n + 1, l - 1, 0)
  <2>1. /\ DepthOf(c, n + 1) = l - 1
        /\ -DepthOf(c, n + 1) >= b - l
        /\ -DepthOf(c, n + 1) = 0 - DepthOf(c, n + 1)
    BY <1>1, <1>2, <1>7
  <2>2. IsExcess(c, n + 1, 0 - DepthOf(c, n + 1))
    BY <1>4, <2>1
  <2> QED
    BY <2>1, <2>2, LevelNext
<1>8. ASSUME c[n + 1].t = "close", b # 0 PROVE Level(c, n + 1, l - 1, b - 1)
  <2>1. DepthOf(c, n + 1) = l - 1 /\ -(l - 1) <= b - l /\ b - l = (b - 1) - (l - 1) /\ b - 1 \in Nat
    BY <1>1, <1>2, <1>8
  <2>2. IsExcess(c, n + 1, (b - 1) - DepthOf(c, n + 1))
    BY <1>4, <2>1
  <2> QED
    BY <2>1, <2>2, LevelNext
<1>9. ASSUME c[n + 1].t \notin {"open", "close"} PROVE Level(c, n + 1, l, b)
  <2>1. DepthOf(c, n + 1) = l
    BY <1>1, <1>2, <1>9
  <2>2. IsExcess(c, n + 1, b - DepthOf(c, n + 1))
    BY <1>4, <1>5, <2>1
  <2> QED
    BY <1>2, <2>1, <2>2, LevelNext
<1> QED
  BY <1>6, <1>7, <1>8, <1>9

-----------------------------------------------------------------------------
(* An output s of n tokens of c whose last one is at k.                    *)

\* The sheet c by its tokens and by its characters with a meaning, a block that follows the
\* token n, a text that hides it (Tokens, Characters, BlockFollows and Hidden of a sheet c).
TokensOf(c) == [n \in 1 .. Len(c) |-> c[n].t]
CharactersOf(c) == [n \in 1 .. Len(c) |-> IF c[n].t \in {"#var", "@var"} THEN "open"
                                           ELSE IF c[n].holds # Plain THEN c[n].holds
                                           ELSE c[n].t]
Between(s, n, m, t) == {k \in n + 1 .. m : s[k] \in t}
FollowsIn(c, s, n) ==
    \E e \in n + 1 .. Len(c) :
        /\ s[e] = "open"
        /\ \A m \in n + 1 .. e - 1 :
               /\ s[m] \notin {"open", "semicolon", "close"}
               /\ s[m] = ")" => Cardinality(Between(s, n, m, {")"}))
                                <= Cardinality(Between(s, n, m, {"(", "url("}))
HiddenIn(c, n) == \E m \in n + 1 .. Len(c) : /\ c[m].holds \in {"semicolon", ")"}
                                             /\ \A e \in n + 1 .. m - 1 : c[e].t # "open"

\* Behind x white space may be put in.
PutsBehind(c, x) ==
    \/ c[x].t \in {"open", "close", "semicolon", "comma", "/**/", "//", "@plain_", "@plain:"}
    \/ c[x].t = ":" /\ (FollowsIn(c, TokensOf(c), x) => HiddenIn(c, x))

\* What WhiteSpaceOfSheets says of two tokens x and y with or without white space in between.
Parted(c, x, y, gap) ==
    /\ c[y].white # "none" /\ ~gap =>
           \/ c[y].t \in {":", "semicolon", "comma", ")", "]", "=", "/**/"}
           \/ c[x].t \in {"=", "url("}
           \/ c[x].t = "open" /\ c[y].t = "close"
    /\ c[y].white = "none" /\ gap =>
           PutsBehind(c, x) \/ c[y].t \in {"open", "close", "/**/", "//"}

IsToken(s, i) == s[i].k = "token"

\* The pieces are what has been read, in its order.
InPlace(c, s, n, k) ==
    /\ \A i \in 1 .. k : s[i].k = "indent" => s[i].n \in Bases(c, n)
    /\ \A i \in 1 .. k : IsToken(s, i) => s[i].n \in 1 .. n
    /\ \A m \in 1 .. n : \E i \in 1 .. k : IsToken(s, i) /\ s[i].n = m
    /\ \A i, j \in 1 .. k : IsToken(s, i) /\ IsToken(s, j) /\ i < j => s[i].n < s[j].n

CommentsEnd(c, s, k) ==
    \A i \in 1 .. k : IsToken(s, i) /\ c[s[i].n].t = "//" => i < Len(s) /\ s[i + 1] = Newline

WordsApart(c, s, k) ==
    \A i, j \in 1 .. k :
        IsToken(s, i) /\ IsToken(s, j) /\ i < j /\ (\A q \in 1 .. k : IsToken(s, q) => q <= i \/ q >= j)
        => Parted(c, s[i].n, s[j].n, j > i + 1)

\* The white space at the end was put there because of the last token.
GapIsOpen(c, s, k) == k > 0 /\ Len(s) > k => PutsBehind(c, s[k].n)

\* The last token in the output is the one read last.
LastIsRead(s, n, k) == n > 0 => k > 0 /\ s[k].n = n

PrintedSheet(c, s, n, k) ==
    /\ Ends(s, k, Bases(c, n))
    /\ InPlace(c, s, n, k)
    /\ CommentsEnd(c, s, k)
    /\ WordsApart(c, s, k)
    /\ GapIsOpen(c, s, k)
    /\ LastIsRead(s, n, k)

\* What there may be of indentations only grows.
LEMMA BasesGrow ==
    ASSUME NEW c, NEW n \in Nat, NEW m \in Nat, n <= m
    PROVE  Bases(c, n) \subseteq Bases(c, m)
  BY DEF Bases

\* A token is pushed behind the output with its white space set to v, and w is the output
\* with white space behind that token.
LEMMA PushStep ==
    ASSUME NEW c, NEW n \in Nat, NEW s, NEW k, PrintedSheet(c, s, n, k),
           NEW m \in Nat, m = n + 1,
           Bases(c, m) \in SUBSET Nat,
           NEW v, Ends(v, k, Bases(c, m)), Same(s, v, k),
           NEW w, Ends(w, Len(v) + 1, Bases(c, m)), Same(Append(v, Token(n + 1)), w, Len(v) + 1),
           Len(w) > Len(v) + 1 => PutsBehind(c, n + 1),
           c[n + 1].t = "//" => Len(w) > Len(v) + 1 /\ w[Len(v) + 2] = Newline,
           k > 0 => Parted(c, s[k].n, n + 1, Len(v) > k),
           k > 0 /\ c[s[k].n].t = "//" => Len(v) > k /\ v[k + 1] = Newline
    PROVE  PrintedSheet(c, w, m, Len(v) + 1)
<1> DEFINE j == Len(v) + 1
<1>1. /\ Len(s) \in Nat /\ Len(v) \in Nat /\ Len(w) \in Nat
      /\ k \in 0 .. Len(s) /\ k \in 0 .. Len(v) /\ j \in 1 .. Len(w)
      /\ j = Len(v) + 1
  BY DEF Ends, PrintedSheet
<1> HIDE DEF j
<1>a. Same(v, Append(v, Token(n + 1)), Len(v)) /\ Append(v, Token(n + 1))[Len(v) + 1] = Token(n + 1)
  <2>1. n + 1 \in Nat
    OBVIOUS
  <2> QED
    BY <2>1, TokenIs
<1>b. \A i \in 1 .. Len(v) + 1 : w[i] = Append(v, Token(n + 1))[i]
  BY DEF Same
<1>2. \A i \in 1 .. Len(v) : w[i] = v[i]
  BY <1>1, <1>a, <1>b, SMTT(30) DEF Same
<1>3. \A i \in 1 .. k : w[i] = s[i] /\ v[i] = s[i]
  BY <1>1, <1>2 DEF Same
<1>4. w[j] = Token(n + 1) /\ w[j].k = "token" /\ w[j].n = n + 1
  <2>1. w[j] = Token(n + 1)
    BY <1>1, <1>a, <1>b
  <2> QED
    BY <2>1 DEF Token
<1>5. \A i \in 1 .. j : i > k /\ i # j =>
          w[i] = v[i] /\ ~IsToken(w, i) /\ (w[i].k = "indent" => w[i].n \in Bases(c, m))
  <2>1. \A i \in k + 1 .. Len(v) : v[i] \in Gap(Bases(c, m))
    BY DEF Ends
  <2> SUFFICES ASSUME NEW i \in 1 .. j, i > k, i # j
               PROVE  w[i] = v[i] /\ ~IsToken(w, i) /\ (w[i].k = "indent" => w[i].n \in Bases(c, m))
    OBVIOUS
  <2>2. i \in 1 .. Len(v) /\ i \in k + 1 .. Len(v)
    BY <1>1
  <2>3. w[i] = v[i] /\ v[i] \in Gap(Bases(c, m))
    BY <1>2, <2>1, <2>2
  <2> QED
    BY <2>3, GapIs DEF IsToken
<1>6. \A i \in 1 .. j : IsToken(w, i) => i = j \/ i \in 1 .. k
  BY <1>1, <1>5
<1>7. InPlace(c, s, n, k) /\ CommentsEnd(c, s, k) /\ WordsApart(c, s, k)
      /\ LastIsRead(s, n, k) /\ Ends(s, k, Bases(c, n))
  BY DEF PrintedSheet
<1>8. n < m /\ n <= m /\ n + 1 <= m
  OBVIOUS
<1>9. \A i \in 1 .. k : IsToken(s, i) <=> IsToken(w, i)
  BY <1>3 DEF IsToken
<1>10. k > 0 => IsToken(s, k)
  BY <1>7 DEF Ends, IsToken
<1>11. InPlace(c, w, m, j)
  <2>1. \A i \in 1 .. j : w[i].k = "indent" => w[i].n \in Bases(c, m)
    <3>1. \A i \in 1 .. k : w[i].k = "indent" => w[i].n \in Bases(c, m)
      BY <1>3, <1>7, <1>8, BasesGrow DEF InPlace
    <3>2. \A i \in 1 .. j : i = j \/ i \in 1 .. k \/ (i > k /\ i # j)
      BY <1>1
    <3> QED
      BY <1>4, <1>5, <3>1, <3>2
  <2>2. \A i \in 1 .. k : IsToken(w, i) => w[i].n \in 1 .. n
    BY <1>3, <1>7, <1>9 DEF InPlace
  <2>3. \A i \in 1 .. j : IsToken(w, i) => w[i].n \in 1 .. m
    BY <1>4, <1>6, <1>8, <2>2
  <2>4. \A i, h \in 1 .. j : IsToken(w, i) /\ IsToken(w, h) /\ i < h => w[i].n < w[h].n
    <3> SUFFICES ASSUME NEW i \in 1 .. j, NEW h \in 1 .. j, IsToken(w, i), IsToken(w, h), i < h
                 PROVE  w[i].n < w[h].n
      OBVIOUS
    <3>1. i \in 1 .. k
      BY <1>1, <1>6
    <3>2. ASSUME h = j PROVE w[i].n < w[h].n
      BY <1>4, <2>2, <3>1, <3>2
    <3>3. ASSUME h \in 1 .. k PROVE w[i].n < w[h].n
      BY <1>3, <1>7, <1>9, <3>1, <3>3 DEF InPlace
    <3> QED
      BY <1>6, <3>2, <3>3
  <2>5. \A h \in 1 .. m : \E i \in 1 .. j : IsToken(w, i) /\ w[i].n = h
    <3> SUFFICES ASSUME NEW h \in 1 .. m PROVE \E i \in 1 .. j : IsToken(w, i) /\ w[i].n = h
      OBVIOUS
    <3>1. ASSUME h = n + 1 PROVE \E i \in 1 .. j : IsToken(w, i) /\ w[i].n = h
      <4>1. j \in 1 .. j /\ IsToken(w, j)
        BY <1>1, <1>4 DEF IsToken
      <4> QED
        BY <1>4, <3>1, <4>1
    <3>2. ASSUME h # n + 1 PROVE \E i \in 1 .. j : IsToken(w, i) /\ w[i].n = h
      <4>1. h \in 1 .. n
        BY <3>2
      <4>2. PICK i \in 1 .. k : IsToken(s, i) /\ s[i].n = h
        BY <1>7, <4>1 DEF InPlace
      <4>3. i \in 1 .. j
        BY <1>1
      <4> QED
        BY <1>3, <1>9, <4>2, <4>3
    <3> QED
      BY <3>1, <3>2
  <2> QED
    BY <2>1, <2>3, <2>4, <2>5 DEF InPlace
<1>12. CommentsEnd(c, w, j)
  <2> SUFFICES ASSUME NEW i \in 1 .. j, IsToken(w, i), c[w[i].n].t = "//"
               PROVE  i < Len(w) /\ w[i + 1] = Newline
    BY DEF CommentsEnd
  <2>1. ASSUME i = j PROVE i < Len(w) /\ w[i + 1] = Newline
    BY <1>1, <1>4, <2>1
  <2>2. ASSUME i \in 1 .. k, i = k PROVE i < Len(w) /\ w[i + 1] = Newline
    <3>1. c[s[k].n].t = "//" /\ k > 0
      BY <1>3, <2>2
    <3>2. Len(v) > k /\ v[k + 1] = Newline
      BY <3>1
    <3> QED
      BY <1>1, <1>2, <2>2, <3>2
  <2>3. ASSUME i \in 1 .. k, i # k PROVE i < Len(w) /\ w[i + 1] = Newline
    <3>1. s[i + 1] = Newline
      BY <1>3, <1>7, <1>9, <2>3 DEF CommentsEnd
    <3> QED
      BY <1>1, <1>3, <2>3, <3>1
  <2> QED
    BY <1>6, <2>1, <2>2, <2>3
<1>13. WordsApart(c, w, j)
  <2> SUFFICES ASSUME NEW i \in 1 .. j, NEW h \in 1 .. j, IsToken(w, i), IsToken(w, h), i < h,
                      \A q \in 1 .. j : IsToken(w, q) => q <= i \/ q >= h
               PROVE  Parted(c, w[i].n, w[h].n, h > i + 1)
    BY DEF WordsApart
  <2>1. i \in 1 .. k
    BY <1>1, <1>6
  <2>2. ASSUME h = j PROVE Parted(c, w[i].n, w[h].n, h > i + 1)
    <3>1. k > 0 /\ IsToken(w, k) /\ k \in 1 .. j
      BY <1>1, <1>9, <1>10, <2>1
    <3>2. k <= i \/ k >= h
      BY <3>1
    <3>3. i = k
      BY <1>1, <2>1, <2>2, <3>2
    <3>4. (h > i + 1) = (Len(v) > k)
      BY <1>1, <2>2, <3>3
    <3>5. w[i].n = s[k].n /\ w[h].n = n + 1
      BY <1>3, <1>4, <2>1, <2>2, <3>3
    <3> QED
      BY <3>1, <3>4, <3>5
  <2>3. ASSUME h \in 1 .. k PROVE Parted(c, w[i].n, w[h].n, h > i + 1)
    <3>1. \A q \in 1 .. k : q \in 1 .. j
      BY <1>1
    <3>2. \A q \in 1 .. k : IsToken(s, q) => q <= i \/ q >= h
      BY <1>9, <3>1
    <3>3. Parted(c, s[i].n, s[h].n, h > i + 1)
      BY <1>7, <1>9, <2>1, <2>3, <3>2 DEF WordsApart
    <3> QED
      BY <1>3, <2>1, <2>3, <3>3
  <2> QED
    BY <1>6, <2>2, <2>3
<1>14. GapIsOpen(c, w, j)
  BY <1>1, <1>4 DEF GapIsOpen
<1>15. LastIsRead(w, m, j)
  BY <1>1, <1>4 DEF LastIsRead
<1> QED
  BY <1>1, <1>11, <1>12, <1>13, <1>14, <1>15 DEF PrintedSheet

-----------------------------------------------------------------------------
(* What the branches of the loop do before they push the next token, and   *)
(* behind it.                                                              *)

AtFront(c, n, s, k, B, v) ==
    /\ Ends(v, k, B)
    /\ Same(s, v, k)
    /\ k > 0 => Parted(c, s[k].n, n + 1, Len(v) > k)
    /\ k > 0 /\ c[s[k].n].t = "//" => Len(v) > k /\ v[k + 1] = Newline

AtBack(c, n, B, v, w) ==
    /\ Ends(w, Len(v) + 1, B)
    /\ Same(Append(v, Token(n + 1)), w, Len(v) + 1)
    /\ Len(w) > Len(v) + 1 => PutsBehind(c, n + 1)
    /\ c[n + 1].t = "//" => Len(w) > Len(v) + 1 /\ w[Len(v) + 2] = Newline

\* White space in front of a token and the token itself keep what was printed.
LEMMA FrontAndBack ==
    ASSUME NEW c, NEW n \in Nat, NEW s, NEW k, PrintedSheet(c, s, n, k),
           NEW m \in Nat, m = n + 1,
           Bases(c, m) \in SUBSET Nat,
           NEW v, AtFront(c, n, s, k, Bases(c, m), v),
           NEW w, AtBack(c, n, Bases(c, m), v, w)
    PROVE  PrintedSheet(c, w, m, Len(v) + 1)
  BY PushStep DEF AtFront, AtBack

\* isAfterSpace and isAfterNewline at the token n + 1.
WhiteAt(c, n) ==
    IF n > 0 /\ c[n].t \in {"=", "url("} THEN "none"
    ELSE IF n > 0 /\ c[n].t \in {"(", ":", "comma"} /\ c[n + 1].white = "indented" THEN "blank"
    ELSE c[n + 1].white

\* What is pushed last is what was read last.
LEMMA LastRead ==
    ASSUME NEW c, NEW n \in Nat, NEW s, NEW k, PrintedSheet(c, s, n, k), k > 0
    PROVE  n > 0 /\ s[k].n = n
<1>1. k \in 1 .. k /\ IsToken(s, k)
  BY DEF PrintedSheet, Ends, IsToken
<1>2. s[k].n \in 1 .. n
  BY <1>1 DEF PrintedSheet, InPlace
<1>3. n > 0
  BY <1>2
<1> QED
  BY <1>3 DEF PrintedSheet, LastIsRead

\* What is behind the last token stays behind it while more is read.
LEMMA StillEnds ==
    ASSUME NEW c, NEW n \in Nat, NEW s, NEW k, PrintedSheet(c, s, n, k), NEW m \in Nat, n <= m
    PROVE  Ends(s, k, Bases(c, m))
<1>1. Ends(s, k, Bases(c, n))
  BY DEF PrintedSheet
<1>2. Gap(Bases(c, n)) \subseteq Gap(Bases(c, m))
  BY BasesGrow DEF Gap
<1> QED
  BY <1>1, <1>2 DEF Ends

\* A comment to the end of the line has its newline.
LEMMA LastComment ==
    ASSUME NEW c, NEW n \in Nat, NEW s, NEW k, PrintedSheet(c, s, n, k), k > 0, c[s[k].n].t = "//"
    PROVE  k < Len(s) /\ s[k + 1] = Newline
<1>1. k \in 1 .. k /\ IsToken(s, k)
  BY DEF PrintedSheet, Ends, IsToken
<1> QED
  BY <1>1 DEF PrintedSheet, CommentsEnd

\* Nothing is done, before what may drop white space, and in an empty block.
LEMMA FrontTight ==
    ASSUME NEW c, NEW n \in Nat, NEW s, NEW k, PrintedSheet(c, s, n, k), NEW m \in Nat, n <= m,
           \/ c[n + 1].t \in {":", "semicolon", "comma", ")", "]", "=", "/**/"}
           \/ c[n].t = "open" /\ c[n + 1].t = "close"
    PROVE  AtFront(c, n, s, k, Bases(c, m), s)
<1>1. Ends(s, k, Bases(c, m))
  BY StillEnds
<1>2. k > 0 /\ Len(s) > k => PutsBehind(c, s[k].n)
  BY DEF PrintedSheet, GapIsOpen
<1>3. k > 0 => Parted(c, s[k].n, n + 1, Len(s) > k)
  BY <1>2, LastRead DEF Parted
<1>4. k > 0 /\ c[s[k].n].t = "//" => Len(s) > k /\ s[k + 1] = Newline
  BY <1>1, LastComment DEF Ends
<1> QED
  BY <1>1, <1>3, <1>4 DEF AtFront, Same

\* A blank where there is white space.
LEMMA FrontPreserved ==
    ASSUME NEW c, NEW n \in Nat, NEW s, NEW k, PrintedSheet(c, s, n, k), NEW m \in Nat, n <= m,
           Bases(c, m) \in SUBSET Nat
    PROVE  AtFront(c, n, s, k, Bases(c, m), PreserveSingleSpace(s, WhiteAt(c, n)))
<1> DEFINE white == WhiteAt(c, n)
           v == PreserveSingleSpace(s, white)
<1>1. Ends(s, k, Bases(c, m))
  BY StillEnds
<1>2. /\ Ends(v, k, Bases(c, m))
      /\ Same(s, v, k)
      /\ white # "none" /\ k > 0 => Len(v) > k
      /\ white = "none" \/ Len(s) > k => v = s
  BY <1>1, PreserveIs
<1>3. white = "none" \/ c[n + 1].white # "none"
  BY DEF WhiteAt
<1>4. ASSUME c[n + 1].white # "none", white = "none", k > 0
      PROVE  c[s[k].n].t \in {"=", "url("}
  <2>1. n > 0 /\ c[n].t \in {"=", "url("}
    BY <1>4 DEF WhiteAt
  <2>2. s[k].n = n
    BY <1>4, LastRead
  <2> QED
    BY <2>1, <2>2
<1>5. k > 0 /\ Len(s) > k => PutsBehind(c, s[k].n)
  BY DEF PrintedSheet, GapIsOpen
<1> HIDE DEF white, v
<1>6. ASSUME k > 0 PROVE Parted(c, s[k].n, n + 1, Len(v) > k)
  <2>1. ASSUME c[n + 1].white # "none", ~(Len(v) > k)
        PROVE  c[s[k].n].t \in {"=", "url("}
    BY <1>2, <1>4, <1>6, <2>1
  <2>2. ASSUME c[n + 1].white = "none", Len(v) > k
        PROVE  PutsBehind(c, s[k].n)
    BY <1>2, <1>3, <1>5, <1>6, <2>2
  <2> QED
    BY <2>1, <2>2 DEF Parted
<1>7. k > 0 /\ c[s[k].n].t = "//" => Len(v) > k /\ v[k + 1] = Newline
  BY <1>1, <1>2, LastComment DEF Ends
<1>8. AtFront(c, n, s, k, Bases(c, m), v)
  BY <1>2, <1>6, <1>7 DEF AtFront
<1> QED
  BY <1>8 DEF v, white

\* A blank before a { or a comment to the end of the line.
LEMMA FrontSpaced ==
    ASSUME NEW c, NEW n \in Nat, NEW s, NEW k, PrintedSheet(c, s, n, k), NEW m \in Nat, n <= m,
           Bases(c, m) \in SUBSET Nat, c[n + 1].t \in {"open", "//"}
    PROVE  AtFront(c, n, s, k, Bases(c, m), SingleSpace(s))
<1> DEFINE v == SingleSpace(s)
<1>1. Ends(s, k, Bases(c, m))
  BY StillEnds
<1>2. /\ Ends(v, k, Bases(c, m))
      /\ Same(s, v, k)
      /\ k > 0 => Len(v) > k
      /\ Len(s) > k => v = s
  BY <1>1, SingleSpaceIs
<1> HIDE DEF v
<1>3. k > 0 => Parted(c, s[k].n, n + 1, Len(v) > k)
  BY <1>2 DEF Parted
<1>4. k > 0 /\ c[s[k].n].t = "//" => Len(v) > k /\ v[k + 1] = Newline
  BY <1>1, <1>2, LastComment DEF Ends
<1>5. AtFront(c, n, s, k, Bases(c, m), v)
  BY <1>2, <1>3, <1>4 DEF AtFront
<1> QED
  BY <1>5 DEF v

\* A newline before a } or a comment.
LEMMA FrontOnNewLine ==
    ASSUME NEW c, NEW n \in Nat, NEW s, NEW k, PrintedSheet(c, s, n, k), NEW m \in Nat, n <= m,
           Bases(c, m) \in SUBSET Nat, NEW b \in Bases(c, m), c[n + 1].t \in {"close", "/**/"}
    PROVE  AtFront(c, n, s, k, Bases(c, m), NewLine(s, b))
<1> DEFINE v == NewLine(s, b)
<1>1. Ends(s, k, Bases(c, m))
  BY StillEnds
<1>2. /\ Ends(v, k, Bases(c, m))
      /\ Same(s, v, k)
      /\ k > 0 => Len(v) > k
      /\ k > 0 /\ (Len(s) = k \/ s[k + 1] = Newline) => v[k + 1] = Newline
  BY <1>1, NewLineIs
<1> HIDE DEF v
<1>3. k > 0 => Parted(c, s[k].n, n + 1, Len(v) > k)
  BY <1>2 DEF Parted
<1>4. k > 0 /\ c[s[k].n].t = "//" => Len(v) > k /\ v[k + 1] = Newline
  BY <1>2, LastComment
<1>5. AtFront(c, n, s, k, Bases(c, m), v)
  BY <1>2, <1>3, <1>4 DEF AtFront
<1> QED
  BY <1>5 DEF v

\* What is behind the last token goes first, which is no comment to the end of the line.
LEMMA FrontTrimmed ==
    ASSUME NEW c, NEW n \in Nat, NEW s, NEW k, PrintedSheet(c, s, n, k), NEW m \in Nat, n <= m,
           Bases(c, m) \in SUBSET Nat, c[n + 1].t = "//", k > 0 => c[s[k].n].t # "//"
    PROVE  AtFront(c, n, s, k, Bases(c, m), SingleSpace(Trim(s)))
<1> DEFINE v == SingleSpace(Trim(s))
<1>1. Ends(Trim(s), k, Bases(c, m)) /\ Same(s, Trim(s), k)
  BY StillEnds, TrimIs
<1>2. /\ Ends(v, k, Bases(c, m))
      /\ Same(Trim(s), v, k)
      /\ k > 0 => Len(v) > k
  BY <1>1, SingleSpaceIs
<1> HIDE DEF v
<1>3. Same(s, v, k)
  BY <1>1, <1>2 DEF Same
<1>4. k > 0 => Parted(c, s[k].n, n + 1, Len(v) > k)
  BY <1>2 DEF Parted
<1>5. AtFront(c, n, s, k, Bases(c, m), v)
  BY <1>2, <1>3, <1>4 DEF AtFront
<1> QED
  BY <1>5 DEF v

\* Nothing behind the token.
LEMMA BackTight ==
    ASSUME NEW c, NEW n \in Nat, NEW B \in SUBSET Nat, NEW v, NEW k, Ends(v, k, B), c[n + 1].t # "//"
    PROVE  AtBack(c, n, B, v, Append(v, Token(n + 1)))
<1>1. /\ Ends(Append(v, Token(n + 1)), Len(v) + 1, B)
      /\ Len(Append(v, Token(n + 1))) = Len(v) + 1
  BY TokenIs
<1>2. Len(v) \in Nat
  BY DEF Ends
<1>3. ~(Len(Append(v, Token(n + 1))) > Len(v) + 1)
  BY <1>1, <1>2
<1> QED
  BY <1>1, <1>3 DEF AtBack, Same

\* A blank behind the token.
LEMMA BackSpaced ==
    ASSUME NEW c, NEW n \in Nat, NEW B \in SUBSET Nat, NEW v, NEW k, Ends(v, k, B),
           PutsBehind(c, n + 1), c[n + 1].t # "//"
    PROVE  AtBack(c, n, B, v, SingleSpace(Append(v, Token(n + 1))))
<1>1. Ends(Append(v, Token(n + 1)), Len(v) + 1, B)
  BY TokenIs
<1>2. /\ Ends(SingleSpace(Append(v, Token(n + 1))), Len(v) + 1, B)
      /\ Same(Append(v, Token(n + 1)), SingleSpace(Append(v, Token(n + 1))), Len(v) + 1)
  BY <1>1, SingleSpaceIs
<1> QED
  BY <1>2 DEF AtBack

\* A newline behind the token.
LEMMA BackOnNewLine ==
    ASSUME NEW c, NEW n \in Nat, NEW B \in SUBSET Nat, NEW v, NEW k, Ends(v, k, B),
           PutsBehind(c, n + 1), NEW b \in B
    PROVE  AtBack(c, n, B, v, NewLine(Append(v, Token(n + 1)), b))
<1> DEFINE u == Append(v, Token(n + 1))
           w == NewLine(u, b)
<1>1. Ends(u, Len(v) + 1, B) /\ Len(u) = Len(v) + 1
  BY TokenIs
<1>2. Len(v) \in Nat
  BY DEF Ends
<1>3. /\ Ends(w, Len(v) + 1, B)
      /\ Same(u, w, Len(v) + 1)
      /\ Len(v) + 1 > 0 => Len(w) > Len(v) + 1
      /\ Len(v) + 1 > 0 /\ (Len(u) = Len(v) + 1 \/ u[(Len(v) + 1) + 1] = Newline)
         => w[(Len(v) + 1) + 1] = Newline
  BY <1>1, NewLineIs
<1> HIDE DEF w
<1>4. Len(w) > Len(v) + 1 /\ w[Len(v) + 2] = Newline
  BY <1>1, <1>2, <1>3
<1>5. AtBack(c, n, B, v, w)
  BY <1>3, <1>4 DEF AtBack
<1> QED
  BY <1>5 DEF w

\* An empty line behind the token.
LEMMA BackOnEmptyLine ==
    ASSUME NEW c, NEW n \in Nat, NEW B \in SUBSET Nat, NEW v, NEW k, Ends(v, k, B),
           PutsBehind(c, n + 1), NEW b \in B
    PROVE  AtBack(c, n, B, v, NewLineKept(NewLine(Append(v, Token(n + 1)), b), b))
<1> DEFINE u == NewLine(Append(v, Token(n + 1)), b)
           w == NewLineKept(u, b)
<1>1. Ends(Append(v, Token(n + 1)), Len(v) + 1, B) /\ Len(Append(v, Token(n + 1))) = Len(v) + 1
  BY TokenIs
<1>2. Len(v) \in Nat
  BY DEF Ends
<1>3. /\ Ends(u, Len(v) + 1, B)
      /\ Same(Append(v, Token(n + 1)), u, Len(v) + 1)
      /\ Len(v) + 1 > 0 => Len(u) > Len(v) + 1
      /\ Len(v) + 1 > 0 /\ (Len(Append(v, Token(n + 1))) = Len(v) + 1
                            \/ Append(v, Token(n + 1))[(Len(v) + 1) + 1] = Newline)
         => u[(Len(v) + 1) + 1] = Newline
  BY <1>1, NewLineIs
<1> HIDE DEF u
<1>4. Len(u) > Len(v) + 1 /\ u[(Len(v) + 1) + 1] = Newline
  BY <1>1, <1>2, <1>3
<1>5. /\ Ends(w, Len(v) + 1, B)
      /\ Same(u, w, Len(v) + 1)
      /\ Len(u) > 0 => Len(w) > Len(u)
      /\ Len(u) > Len(v) + 1 => w[(Len(v) + 1) + 1] = u[(Len(v) + 1) + 1]
  <2>1. Ends(u, Len(v) + 1, B) /\ (b = 0 \/ b \in B)
    BY <1>3
  <2> HIDE <1>1, <1>2, <1>3, <1>4
  <2> QED
    BY <2>1, NewLineKeptIs
<1> HIDE DEF w
<1>6. Len(u) \in Nat /\ Len(w) \in Nat
  BY <1>3, <1>5 DEF Ends
<1>7. Len(w) > Len(v) + 1 /\ w[Len(v) + 2] = Newline
  BY <1>2, <1>4, <1>5, <1>6
<1>8. Same(Append(v, Token(n + 1)), w, Len(v) + 1)
  BY <1>3, <1>5 DEF Same
<1>9. AtBack(c, n, B, v, w)
  BY <1>5, <1>7, <1>8 DEF AtBack
<1> QED
  BY <1>9 DEF w, u

-----------------------------------------------------------------------------
(* The inductive invariant.                                                *)

CssTypes ==
    /\ css \in Seq(CssPiece) /\ IsSheet(css)
    /\ pos \in 0 .. Len(css)
    /\ indentLevel \in Int /\ parenLevel \in Int
    /\ base \in Nat /\ nestedLevel \in Nat
    /\ insideRule \in BOOLEAN /\ insidePropertyValue \in BOOLEAN
    /\ enteringConditionalGroup \in BOOLEAN /\ afterOpening \in BOOLEAN /\ finished \in BOOLEAN

\* What the formatter answers: what it has printed, without white space at the end.
Answered(c, s, n) ==
    /\ s \in Seq(SheetPiece)
    /\ InPlace(c, s, n, Len(s))
    /\ WordsApart(c, s, Len(s))
    /\ \A i \in 1 .. Len(s) : IsToken(s, i) /\ c[s[i].n].t = "//" => i = Len(s) \/ s[i + 1] = Newline

CssInv ==
    /\ CssTypes
    /\ Level(css, pos, indentLevel, base)
    /\ ~finished => \E k \in Nat : PrintedSheet(css, output, pos, k)
    /\ finished => pos = Len(css) /\ Answered(css, output, pos)

\* The start: nothing read, nothing printed.
LEMMA CssInvAtFirst == CssInit => CssInv
<1> SUFFICES ASSUME CssInit PROVE CssInv
  OBVIOUS
<1>1. css \in Seq(CssPiece) /\ IsSheet(css)
  BY CssAssumption DEF CssInit
<1>2. CssTypes
  <2>1. Len(css) \in Nat
    BY <1>1
  <2>2. 0 \in 0 .. Len(css)
    BY <2>1
  <2>3. pos = 0 /\ indentLevel = 0 /\ base = 0 /\ nestedLevel = 0 /\ parenLevel = 0
    BY DEF CssInit, CssBegin
  <2>4. pos \in 0 .. Len(css) /\ indentLevel \in Int /\ parenLevel \in Int
        /\ base \in Nat /\ nestedLevel \in Nat
    BY <2>2, <2>3
  <2>5. /\ insideRule \in BOOLEAN /\ insidePropertyValue \in BOOLEAN
        /\ enteringConditionalGroup \in BOOLEAN /\ afterOpening \in BOOLEAN /\ finished \in BOOLEAN
    BY Zenon DEF CssInit, CssBegin
  <2> QED
    BY <1>1, <2>4, <2>5 DEF CssTypes
<1>3. pos = 0 /\ indentLevel = 0 /\ base = 0 /\ output = <<>> /\ ~finished
  BY DEF CssInit, CssBegin
<1>4. Level(css, pos, indentLevel, base)
  BY <1>3, LevelAtFirst
<1>5. PrintedSheet(css, <<>>, 0, 0)
  <2>1. Ends(<<>>, 0, Bases(css, 0))
    BY DEF Ends
  <2>2. InPlace(css, <<>>, 0, 0) /\ CommentsEnd(css, <<>>, 0) /\ WordsApart(css, <<>>, 0)
    BY DEF InPlace, CommentsEnd, WordsApart
  <2> QED
    BY <2>1, <2>2 DEF PrintedSheet, GapIsOpen, LastIsRead
<1> QED
  BY <1>2, <1>3, <1>4, <1>5 DEF CssInv

\* What every branch finds.
LEMMA Ahead ==
    ASSUME CssInv, pos < Len(css)
    PROVE  /\ ~finished /\ CssTypes
           /\ pos \in Nat /\ Len(css) \in Nat /\ At1 = pos + 1 /\ At1 \in 1 .. Len(css)
           /\ Here = css[pos + 1] /\ WhiteHere = WhiteAt(css, pos)
           /\ Here \in CssPiece
           /\ Level(css, pos, indentLevel, base)
           /\ \E k \in Nat : PrintedSheet(css, output, pos, k)
<1>1. pos \in Nat /\ Len(css) \in Nat /\ css \in Seq(CssPiece)
  BY DEF CssInv, CssTypes
<1>2. ~finished
  BY <1>1 DEF CssInv
<1>3. WhiteHere = WhiteAt(css, pos)
  BY DEF WhiteHere, WhiteAt, Here
<1>4. At1 \in 1 .. Len(css) /\ css[pos + 1] \in CssPiece
  <2>1. pos + 1 \in 1 .. Len(css)
    BY <1>1
  <2>2. css[pos + 1] \in CssPiece
    BY <1>1, <2>1, ElementOfSeq
  <2> QED
    BY <2>1, <2>2 DEF At1
<1> QED
  BY <1>1, <1>2, <1>3, <1>4 DEF CssInv, At1, Here

\* One token that is no brace leaves the indentation.
LEMMA StaysLevel ==
    ASSUME CssInv, pos < Len(css), Read(1), Indentation, Here.t \notin {"open", "close"}
    PROVE  /\ pos' = pos + 1 /\ pos' \in Nat /\ base' = base /\ base \in Bases(css, pos')
           /\ Bases(css, pos') \in SUBSET Nat
           /\ Level(css, pos', indentLevel', base')
<1>1. pos' = pos + 1 /\ base' = base /\ indentLevel' = indentLevel
  BY DEF Read, Indentation
<1>2. Level(css, pos + 1, indentLevel, base)
  BY Ahead, LevelStep
<1>3. pos + 1 \in Nat /\ pos + 1 # 0
  BY Ahead
<1> QED
  BY <1>1, <1>2, <1>3 DEF Level

\* How a branch that pushes one token or two keeps the invariant.
LEMMA Writes ==
    ASSUME CssInv, pos < Len(css), NEW k, PrintedSheet(css, output, pos, k),
           pos' \in Nat, pos' = pos + 1,
           Bases(css, pos') \in SUBSET Nat,
           NEW v, AtFront(css, pos, output, k, Bases(css, pos'), v),
           AtBack(css, pos, Bases(css, pos'), v, output')
    PROVE  \E j \in Nat : PrintedSheet(css, output', pos', j)
<1>1. pos \in Nat
  BY Ahead
<1>2. PrintedSheet(css, output', pos', Len(v) + 1)
  BY <1>1, FrontAndBack
<1>3. Len(v) + 1 \in Nat
  BY DEF AtFront, Ends
<1> QED
  BY <1>2, <1>3

-----------------------------------------------------------------------------
(* The branches of the loop.                                               *)

\* ] and =.
LEMMA CssTightStep ==
    ASSUME CssInv, CssTight
    PROVE  /\ Level(css, pos', indentLevel', base')
           /\ \E j \in Nat : PrintedSheet(css, output', pos', j)
<1> DEFINE B == Bases(css, pos')
<1>1. pos < Len(css) /\ Here.t \in {"]", "="} /\ Read(1) /\ Indentation
  BY DEF CssTight, Reading, Paren
<1>2. Here.t \notin {"open", "close"}
  BY <1>1 DEF CssAtRule, CssWords
<1>3. /\ pos' = pos + 1 /\ pos' \in Nat /\ base' = base /\ base \in B
      /\ B \in SUBSET Nat
      /\ Level(css, pos', indentLevel', base')
  BY <1>1, <1>2, StaysLevel
<1>4. pos \in Nat /\ At1 = pos + 1 /\ Here = css[pos + 1] /\ WhiteHere = WhiteAt(css, pos)
  BY <1>1, Ahead
<1>5. pos <= pos'
  BY <1>3, <1>4
<1>6. PICK k \in Nat : PrintedSheet(css, output, pos, k)
  BY <1>1, Ahead
<1> HIDE DEF B
<1>7. output' = Append(output, Token(pos + 1))
  BY <1>3, <1>4 DEF CssTight
<1>8. AtFront(css, pos, output, k, B, output)
  BY <1>1, <1>3, <1>4, <1>5, <1>6, FrontTight DEF B
<1>9. AtBack(css, pos, B, output, output')
  <2>1. Ends(output, k, B)
    BY <1>8 DEF AtFront
  <2>2. css[pos + 1].t # "//"
    BY <1>1, <1>4 DEF PutsBehind, CssAtRule, CssWords
  <2> QED
    BY <1>3, <1>4, <1>7, <2>1, <2>2, BackTight
<1>10. \E j \in Nat : PrintedSheet(css, output', pos', j)
  BY <1>1, <1>3, <1>6, <1>8, <1>9, Writes DEF B
<1> QED
  BY <1>3, <1>10

\* ).
LEMMA CssCloseParenStep ==
    ASSUME CssInv, CssCloseParen
    PROVE  /\ Level(css, pos', indentLevel', base')
           /\ \E j \in Nat : PrintedSheet(css, output', pos', j)
<1> DEFINE B == Bases(css, pos')
<1>1. pos < Len(css) /\ Here.t = ")" /\ Read(1) /\ Indentation
  BY DEF CssCloseParen, Reading, Paren
<1>2. Here.t \notin {"open", "close"}
  BY <1>1 DEF CssAtRule, CssWords
<1>3. /\ pos' = pos + 1 /\ pos' \in Nat /\ base' = base /\ base \in B
      /\ B \in SUBSET Nat
      /\ Level(css, pos', indentLevel', base')
  BY <1>1, <1>2, StaysLevel
<1>4. pos \in Nat /\ At1 = pos + 1 /\ Here = css[pos + 1] /\ WhiteHere = WhiteAt(css, pos)
  BY <1>1, Ahead
<1>5. pos <= pos'
  BY <1>3, <1>4
<1>6. PICK k \in Nat : PrintedSheet(css, output, pos, k)
  BY <1>1, Ahead
<1> HIDE DEF B
<1>7. output' = Append(output, Token(pos + 1))
  BY <1>3, <1>4 DEF CssCloseParen
<1>8. AtFront(css, pos, output, k, B, output)
  BY <1>1, <1>3, <1>4, <1>5, <1>6, FrontTight DEF B
<1>9. AtBack(css, pos, B, output, output')
  <2>1. Ends(output, k, B)
    BY <1>8 DEF AtFront
  <2>2. css[pos + 1].t # "//"
    BY <1>1, <1>4 DEF PutsBehind, CssAtRule, CssWords
  <2> QED
    BY <1>3, <1>4, <1>7, <2>1, <2>2, BackTight
<1>10. \E j \in Nat : PrintedSheet(css, output', pos', j)
  BY <1>1, <1>3, <1>6, <1>8, <1>9, Writes DEF B
<1> QED
  BY <1>3, <1>10

\* (.
LEMMA CssOpenParenStep ==
    ASSUME CssInv, CssOpenParen
    PROVE  /\ Level(css, pos', indentLevel', base')
           /\ \E j \in Nat : PrintedSheet(css, output', pos', j)
<1> DEFINE B == Bases(css, pos')
<1>1. pos < Len(css) /\ Here.t = "(" /\ Read(1) /\ Indentation
  BY DEF CssOpenParen, Reading, Paren
<1>2. Here.t \notin {"open", "close"}
  BY <1>1 DEF CssAtRule, CssWords
<1>3. /\ pos' = pos + 1 /\ pos' \in Nat /\ base' = base /\ base \in B
      /\ B \in SUBSET Nat
      /\ Level(css, pos', indentLevel', base')
  BY <1>1, <1>2, StaysLevel
<1>4. pos \in Nat /\ At1 = pos + 1 /\ Here = css[pos + 1] /\ WhiteHere = WhiteAt(css, pos)
  BY <1>1, Ahead
<1>5. pos <= pos'
  BY <1>3, <1>4
<1>6. PICK k \in Nat : PrintedSheet(css, output, pos, k)
  BY <1>1, Ahead
<1> HIDE DEF B
<1>7. output' = Append(PreserveSingleSpace(output, WhiteAt(css, pos)), Token(pos + 1))
  BY <1>3, <1>4 DEF CssOpenParen
<1>8. AtFront(css, pos, output, k, B, PreserveSingleSpace(output, WhiteAt(css, pos)))
  BY <1>1, <1>3, <1>4, <1>5, <1>6, FrontPreserved DEF B
<1>9. AtBack(css, pos, B, PreserveSingleSpace(output, WhiteAt(css, pos)), output')
  <2>1. Ends(PreserveSingleSpace(output, WhiteAt(css, pos)), k, B)
    BY <1>8 DEF AtFront
  <2>2. css[pos + 1].t # "//"
    BY <1>1, <1>4 DEF PutsBehind, CssAtRule, CssWords
  <2> QED
    BY <1>3, <1>4, <1>7, <2>1, <2>2, BackTight
<1>10. \E j \in Nat : PrintedSheet(css, output', pos', j)
  BY <1>1, <1>3, <1>6, <1>8, <1>9, Writes DEF B
<1> QED
  BY <1>3, <1>10

\* url(.
LEMMA CssUrlStep ==
    ASSUME CssInv, CssUrl
    PROVE  /\ Level(css, pos', indentLevel', base')
           /\ \E j \in Nat : PrintedSheet(css, output', pos', j)
<1> DEFINE B == Bases(css, pos')
<1>1. pos < Len(css) /\ Here.t \in {"url()", "url("} /\ Read(1) /\ Indentation
  BY DEF CssUrl, Reading, Paren
<1>2. Here.t \notin {"open", "close"}
  BY <1>1 DEF CssAtRule, CssWords
<1>3. /\ pos' = pos + 1 /\ pos' \in Nat /\ base' = base /\ base \in B
      /\ B \in SUBSET Nat
      /\ Level(css, pos', indentLevel', base')
  BY <1>1, <1>2, StaysLevel
<1>4. pos \in Nat /\ At1 = pos + 1 /\ Here = css[pos + 1] /\ WhiteHere = WhiteAt(css, pos)
  BY <1>1, Ahead
<1>5. pos <= pos'
  BY <1>3, <1>4
<1>6. PICK k \in Nat : PrintedSheet(css, output, pos, k)
  BY <1>1, Ahead
<1> HIDE DEF B
<1>7. output' = Append(PreserveSingleSpace(output, WhiteAt(css, pos)), Token(pos + 1))
  BY <1>3, <1>4 DEF CssUrl
<1>8. AtFront(css, pos, output, k, B, PreserveSingleSpace(output, WhiteAt(css, pos)))
  BY <1>1, <1>3, <1>4, <1>5, <1>6, FrontPreserved DEF B
<1>9. AtBack(css, pos, B, PreserveSingleSpace(output, WhiteAt(css, pos)), output')
  <2>1. Ends(PreserveSingleSpace(output, WhiteAt(css, pos)), k, B)
    BY <1>8 DEF AtFront
  <2>2. css[pos + 1].t # "//"
    BY <1>1, <1>4 DEF PutsBehind, CssAtRule, CssWords
  <2> QED
    BY <1>3, <1>4, <1>7, <2>1, <2>2, BackTight
<1>10. \E j \in Nat : PrintedSheet(css, output', pos', j)
  BY <1>1, <1>3, <1>6, <1>8, <1>9, Writes DEF B
<1> QED
  BY <1>3, <1>10

\* Words and [.
LEMMA CssWordStep ==
    ASSUME CssInv, CssWord
    PROVE  /\ Level(css, pos', indentLevel', base')
           /\ \E j \in Nat : PrintedSheet(css, output', pos', j)
<1> DEFINE B == Bases(css, pos')
<1>1. pos < Len(css) /\ Here.t \in CssWords \cup {"["} /\ Read(1) /\ Indentation
  BY DEF CssWord, Reading, Paren
<1>2. Here.t \notin {"open", "close"}
  BY <1>1 DEF CssAtRule, CssWords
<1>3. /\ pos' = pos + 1 /\ pos' \in Nat /\ base' = base /\ base \in B
      /\ B \in SUBSET Nat
      /\ Level(css, pos', indentLevel', base')
  BY <1>1, <1>2, StaysLevel
<1>4. pos \in Nat /\ At1 = pos + 1 /\ Here = css[pos + 1] /\ WhiteHere = WhiteAt(css, pos)
  BY <1>1, Ahead
<1>5. pos <= pos'
  BY <1>3, <1>4
<1>6. PICK k \in Nat : PrintedSheet(css, output, pos, k)
  BY <1>1, Ahead
<1> HIDE DEF B
<1>7. output' = Append(PreserveSingleSpace(output, WhiteAt(css, pos)), Token(pos + 1))
  BY <1>3, <1>4 DEF CssWord
<1>8. AtFront(css, pos, output, k, B, PreserveSingleSpace(output, WhiteAt(css, pos)))
  BY <1>1, <1>3, <1>4, <1>5, <1>6, FrontPreserved DEF B
<1>9. AtBack(css, pos, B, PreserveSingleSpace(output, WhiteAt(css, pos)), output')
  <2>1. Ends(PreserveSingleSpace(output, WhiteAt(css, pos)), k, B)
    BY <1>8 DEF AtFront
  <2>2. css[pos + 1].t # "//"
    BY <1>1, <1>4 DEF PutsBehind, CssAtRule, CssWords
  <2> QED
    BY <1>3, <1>4, <1>7, <2>1, <2>2, BackTight
<1>10. \E j \in Nat : PrintedSheet(css, output', pos', j)
  BY <1>1, <1>3, <1>6, <1>8, <1>9, Writes DEF B
<1> QED
  BY <1>3, <1>10

\* ;.
LEMMA CssSemicolonStep ==
    ASSUME CssInv, CssSemicolon
    PROVE  /\ Level(css, pos', indentLevel', base')
           /\ \E j \in Nat : PrintedSheet(css, output', pos', j)
<1> DEFINE B == Bases(css, pos')
<1>1. pos < Len(css) /\ Here.t = "semicolon" /\ Read(1) /\ Indentation
  BY DEF CssSemicolon, Reading, Paren
<1>2. Here.t \notin {"open", "close"}
  BY <1>1 DEF CssAtRule, CssWords
<1>3. /\ pos' = pos + 1 /\ pos' \in Nat /\ base' = base /\ base \in B
      /\ B \in SUBSET Nat
      /\ Level(css, pos', indentLevel', base')
  BY <1>1, <1>2, StaysLevel
<1>4. pos \in Nat /\ At1 = pos + 1 /\ Here = css[pos + 1] /\ WhiteHere = WhiteAt(css, pos)
  BY <1>1, Ahead
<1>5. pos <= pos'
  BY <1>3, <1>4
<1>6. PICK k \in Nat : PrintedSheet(css, output, pos, k)
  BY <1>1, Ahead
<1> HIDE DEF B
<1>7. output' = NewLine(Append(output, Token(pos + 1)), base)
  BY <1>3, <1>4 DEF CssSemicolon
<1>8. AtFront(css, pos, output, k, B, output)
  BY <1>1, <1>3, <1>4, <1>5, <1>6, FrontTight DEF B
<1>9. AtBack(css, pos, B, output, output')
  <2>1. Ends(output, k, B)
    BY <1>8 DEF AtFront
  <2>2. PutsBehind(css, pos + 1)
    BY <1>1, <1>4 DEF PutsBehind, CssAtRule, CssWords
  <2> QED
    BY <1>3, <1>4, <1>7, <2>1, <2>2, BackOnNewLine
<1>10. \E j \in Nat : PrintedSheet(css, output', pos', j)
  BY <1>1, <1>3, <1>6, <1>8, <1>9, Writes DEF B
<1> QED
  BY <1>3, <1>10

\* What goes through the characters finds the { that follows by the tokens, unless a text
\* hides it: no other { comes later, what is counted of ( grows and of ) does not.
LEMMA SelectorFound ==
    ASSUME NEW c \in Seq(CssPiece), IsSheet(c), NEW n \in Nat,
           FollowsIn(c, TokensOf(c), n), ~FollowsIn(c, CharactersOf(c), n)
    PROVE  HiddenIn(c, n)
<1> DEFINE s == TokensOf(c)
           h == CharactersOf(c)
<1>1. Len(c) \in Nat /\ \A m \in 1 .. Len(c) : c[m] \in CssPiece
  BY SeqItems
<1>2. PICK e \in n + 1 .. Len(c) :
          /\ s[e] = "open"
          /\ \A m \in n + 1 .. e - 1 :
                 /\ s[m] \notin {"open", "semicolon", "close"}
                 /\ s[m] = ")" => Cardinality(Between(s, n, m, {")"}))
                                  <= Cardinality(Between(s, n, m, {"(", "url("}))
  BY DEF FollowsIn
<1>3. \A m \in n + 1 .. Len(c) : m \in 1 .. Len(c)
  BY <1>1
<1>4. \A m \in 1 .. Len(c) :
          /\ s[m] = c[m].t
          /\ h[m] = (IF c[m].t \in {"#var", "@var"} THEN "open"
                     ELSE IF c[m].holds # Plain THEN c[m].holds ELSE c[m].t)
          /\ c[m].holds # Plain => c[m].t \in Texts
          /\ c[m].holds \in Held
  BY <1>1 DEF TokensOf, CharactersOf, IsSheet, CssPiece
<1> HIDE DEF s, h
<1>5. h[e] = "open"
  BY <1>2, <1>3, <1>4 DEF Texts
<1> DEFINE U == {m \in n + 1 .. Len(c) : h[m] = "open"}
<1>6. U \subseteq Nat /\ e \in U
  BY <1>1, <1>5
<1>7. PICK f \in U : \A m \in U : f <= m
  BY <1>6, LeastNumber
<1>8. f \in n + 1 .. Len(c) /\ h[f] = "open" /\ f <= e
  BY <1>6, <1>7
<1>9. \A m \in n + 1 .. f - 1 : m \in n + 1 .. e - 1 /\ m \in 1 .. Len(c) /\ h[m] # "open"
  <2> SUFFICES ASSUME NEW m \in n + 1 .. f - 1
               PROVE  m \in n + 1 .. e - 1 /\ m \in 1 .. Len(c) /\ h[m] # "open"
    OBVIOUS
  <2>1. m \in n + 1 .. e - 1 /\ m \in n + 1 .. Len(c) /\ ~(f <= m)
    BY <1>1, <1>8
  <2>2. m \notin U
    BY <1>7, <2>1
  <2> QED
    BY <1>3, <2>1, <2>2
<1>10. SUFFICES ASSUME ~HiddenIn(c, n) PROVE FALSE
  OBVIOUS
<1>11. \A m \in n + 1 .. f - 1 : c[m].holds \notin {"semicolon", ")"}
  <2> SUFFICES ASSUME NEW m \in n + 1 .. f - 1, c[m].holds \in {"semicolon", ")"} PROVE FALSE
    OBVIOUS
  <2>1. m \in n + 1 .. Len(c)
    BY <1>1, <1>8
  <2>2. PICK g \in n + 1 .. m - 1 : c[g].t = "open"
    BY <1>10, <2>1 DEF HiddenIn
  <2>3. g \in n + 1 .. e - 1 /\ g \in 1 .. Len(c)
    BY <1>1, <1>8
  <2> QED
    BY <1>2, <1>4, <2>2, <2>3
<1>12. \A m \in n + 1 .. f - 1 :
           /\ h[m] \notin {"open", "semicolon", "close"}
           /\ h[m] = ")" => s[m] = ")"
           /\ s[m] \in {"(", "url("} => h[m] = s[m]
  <2> SUFFICES ASSUME NEW m \in n + 1 .. f - 1
               PROVE  /\ h[m] \notin {"open", "semicolon", "close"}
                      /\ h[m] = ")" => s[m] = ")"
                      /\ s[m] \in {"(", "url("} => h[m] = s[m]
    OBVIOUS
  <2>1. /\ s[m] \notin {"open", "semicolon", "close"}
        /\ h[m] # "open"
        /\ c[m].holds \notin {"semicolon", ")"}
    BY <1>2, <1>9, <1>11
  <2>2. /\ s[m] = c[m].t
        /\ h[m] = (IF c[m].t \in {"#var", "@var"} THEN "open"
                   ELSE IF c[m].holds # Plain THEN c[m].holds ELSE c[m].t)
        /\ c[m].holds # Plain => c[m].t \in Texts
        /\ c[m].holds \in Held
    BY <1>4, <1>9
  <2> QED
    BY <2>1, <2>2 DEF Texts, Held, Plain
<1>13. ASSUME NEW m \in n + 1 .. f - 1, h[m] = ")"
       PROVE  Cardinality(Between(h, n, m, {")"})) <= Cardinality(Between(h, n, m, {"(", "url("}))
  <2>1. \A k \in n + 1 .. m : k \in n + 1 .. f - 1
    OBVIOUS
  <2>2. \A t : IsFiniteSet(Between(s, n, m, t)) /\ IsFiniteSet(Between(h, n, m, t))
    <3>1. IsFiniteSet(n + 1 .. m)
      BY FS_Interval
    <3> QED
      BY <3>1, FS_Subset DEF Between
  <2>3. Between(h, n, m, {")"}) \subseteq Between(s, n, m, {")"})
    BY <1>12, <2>1 DEF Between
  <2>4. Between(s, n, m, {"(", "url("}) \subseteq Between(h, n, m, {"(", "url("})
    BY <1>12, <2>1 DEF Between
  <2>5. Cardinality(Between(s, n, m, {")"})) <= Cardinality(Between(s, n, m, {"(", "url("}))
    BY <1>2, <1>9, <1>12, <1>13
  <2>6. Cardinality(Between(h, n, m, {")"})) <= Cardinality(Between(s, n, m, {")"}))
    BY <2>2, <2>3, FS_Subset
  <2>7. Cardinality(Between(s, n, m, {"(", "url("})) <= Cardinality(Between(h, n, m, {"(", "url("}))
    BY <2>2, <2>4, FS_Subset
  <2>8. /\ Cardinality(Between(h, n, m, {")"})) \in Nat /\ Cardinality(Between(s, n, m, {")"})) \in Nat
        /\ Cardinality(Between(s, n, m, {"(", "url("})) \in Nat
        /\ Cardinality(Between(h, n, m, {"(", "url("})) \in Nat
    BY <2>2, FS_CardinalityType
  <2> QED
    BY <2>5, <2>6, <2>7, <2>8
<1>14. FollowsIn(c, h, n)
  BY <1>8, <1>12, <1>13 DEF FollowsIn
<1> QED
  BY <1>14 DEF h

\* What is said of the sheet c is what the formatter says of its own.
LEMMA CharactersAre ==
    \A n : /\ OfSelector(n) <=> FollowsIn(css, TokensOf(css), n)
           /\ BlockFollows(Characters, n) <=> FollowsIn(css, CharactersOf(css), n)
           /\ Hidden(n) <=> HiddenIn(css, n)
  BY DEF OfSelector, BlockFollows, FollowsIn, Between, Tokens, TokensOf, Characters, CharactersOf,
         Hidden, HiddenIn

\* : of a declaration.
LEMMA CssPropertyColonStep ==
    ASSUME CssInv, CssPropertyColon
    PROVE  /\ Level(css, pos', indentLevel', base')
           /\ \E j \in Nat : PrintedSheet(css, output', pos', j)
<1> DEFINE B == Bases(css, pos')
<1>1. pos < Len(css) /\ Here.t = ":" /\ Read(1) /\ Indentation
  BY DEF CssPropertyColon, Reading, Paren
<1>2. Here.t \notin {"open", "close"}
  BY <1>1 DEF CssAtRule, CssWords
<1>3. /\ pos' = pos + 1 /\ pos' \in Nat /\ base' = base /\ base \in B
      /\ B \in SUBSET Nat
      /\ Level(css, pos', indentLevel', base')
  BY <1>1, <1>2, StaysLevel
<1>4. pos \in Nat /\ At1 = pos + 1 /\ Here = css[pos + 1] /\ WhiteHere = WhiteAt(css, pos)
  BY <1>1, Ahead
<1>5. pos <= pos'
  BY <1>3, <1>4
<1>6. PICK k \in Nat : PrintedSheet(css, output, pos, k)
  BY <1>1, Ahead
<1> HIDE DEF B
<1>7. output' = SingleSpace(Append(output, Token(pos + 1)))
  BY <1>3, <1>4 DEF CssPropertyColon
<1>8. AtFront(css, pos, output, k, B, output)
  BY <1>1, <1>3, <1>4, <1>5, <1>6, FrontTight DEF B
<1>9. AtBack(css, pos, B, output, output')
  <2>1. Ends(output, k, B)
    BY <1>8 DEF AtFront
  <2>2. FollowsIn(css, TokensOf(css), pos + 1) => HiddenIn(css, pos + 1)
    <3>1. ~FollowsIn(css, CharactersOf(css), pos + 1)
      BY <1>4, CharactersAre DEF CssPropertyColon, DelimitsProperty, FoundNestedPseudoClass
    <3>2. css \in Seq(CssPiece) /\ IsSheet(css)
      BY DEF CssInv, CssTypes
    <3>3. pos + 1 \in Nat
      BY <1>4
    <3> QED
      BY <3>1, <3>2, <3>3, SelectorFound
  <2>3. PutsBehind(css, pos + 1) /\ css[pos + 1].t # "//"
    BY <1>1, <1>4, <2>2 DEF PutsBehind
  <2> QED
    BY <1>3, <1>4, <1>7, <2>1, <2>3, BackSpaced
<1>10. \E j \in Nat : PrintedSheet(css, output', pos', j)
  BY <1>1, <1>3, <1>6, <1>8, <1>9, Writes DEF B
<1> QED
  BY <1>3, <1>10

\* An at-rule.
LEMMA CssAtRuleReadStep ==
    ASSUME CssInv, CssAtRuleRead
    PROVE  /\ Level(css, pos', indentLevel', base')
           /\ \E j \in Nat : PrintedSheet(css, output', pos', j)
<1> DEFINE B == Bases(css, pos')
<1>1. pos < Len(css) /\ Here.t \in CssAtRule /\ Read(1) /\ Indentation
  BY DEF CssAtRuleRead, Reading, Paren
<1>2. Here.t \notin {"open", "close"}
  BY <1>1 DEF CssAtRule, CssWords
<1>3. /\ pos' = pos + 1 /\ pos' \in Nat /\ base' = base /\ base \in B
      /\ B \in SUBSET Nat
      /\ Level(css, pos', indentLevel', base')
  BY <1>1, <1>2, StaysLevel
<1>4. pos \in Nat /\ At1 = pos + 1 /\ Here = css[pos + 1] /\ WhiteHere = WhiteAt(css, pos)
  BY <1>1, Ahead
<1>5. pos <= pos'
  BY <1>3, <1>4
<1>6. PICK k \in Nat : PrintedSheet(css, output, pos, k)
  BY <1>1, Ahead
<1> HIDE DEF B
<1> DEFINE v == PreserveSingleSpace(output, WhiteAt(css, pos))
<1>7. AtFront(css, pos, output, k, B, v)
  BY <1>3, <1>4, <1>5, <1>6, FrontPreserved DEF B
<1>8. Ends(v, k, B)
  BY <1>7 DEF AtFront
<1>9. AtBack(css, pos, B, v, output')
  <2>1. ASSUME Here.t \in {"@plain_", "@plain:"}
        PROVE  AtBack(css, pos, B, v, output')
    <3>1. output' = SingleSpace(Append(v, Token(pos + 1)))
      BY <1>4, <2>1 DEF CssAtRuleRead
    <3>2. PutsBehind(css, pos + 1) /\ css[pos + 1].t # "//"
      BY <1>4, <2>1 DEF PutsBehind
    <3> QED
      BY <1>3, <1>4, <1>8, <3>1, <3>2, BackSpaced
  <2>2. ASSUME Here.t \notin {"@plain_", "@plain:"}
        PROVE  AtBack(css, pos, B, v, output')
    <3>1. output' = Append(v, Token(pos + 1))
      BY <1>4, <2>2 DEF CssAtRuleRead
    <3>2. css[pos + 1].t # "//"
      BY <1>1, <1>4 DEF CssAtRule
    <3> QED
      BY <1>3, <1>4, <1>8, <3>1, <3>2, BackTight
  <2> QED
    BY <2>1, <2>2
<1>10. \E j \in Nat : PrintedSheet(css, output', pos', j)
  BY <1>1, <1>3, <1>6, <1>7, <1>9, Writes DEF B
<1> QED
  BY <1>3, <1>10

\* A comma.
LEMMA CssCommaStep ==
    ASSUME CssInv, CssComma
    PROVE  /\ Level(css, pos', indentLevel', base')
           /\ \E j \in Nat : PrintedSheet(css, output', pos', j)
<1> DEFINE B == Bases(css, pos')
<1>1. pos < Len(css) /\ Here.t = "comma" /\ Read(1) /\ Indentation
  BY DEF CssComma, Reading, Paren
<1>2. Here.t \notin {"open", "close"}
  BY <1>1 DEF CssAtRule, CssWords
<1>3. /\ pos' = pos + 1 /\ pos' \in Nat /\ base' = base /\ base \in B
      /\ B \in SUBSET Nat
      /\ Level(css, pos', indentLevel', base')
  BY <1>1, <1>2, StaysLevel
<1>4. pos \in Nat /\ At1 = pos + 1 /\ Here = css[pos + 1] /\ WhiteHere = WhiteAt(css, pos)
  BY <1>1, Ahead
<1>5. pos <= pos'
  BY <1>3, <1>4
<1>6. PICK k \in Nat : PrintedSheet(css, output, pos, k)
  BY <1>1, Ahead
<1> HIDE DEF B
<1>7. AtFront(css, pos, output, k, B, output)
  BY <1>1, <1>3, <1>4, <1>5, <1>6, FrontTight DEF B
<1>8. Ends(output, k, B) /\ PutsBehind(css, pos + 1) /\ css[pos + 1].t # "//"
  BY <1>1, <1>4, <1>7 DEF AtFront, PutsBehind
<1>9. AtBack(css, pos, B, output, output')
  <2>1. \/ output' = NewLine(Append(output, Token(pos + 1)), base)
        \/ output' = SingleSpace(Append(output, Token(pos + 1)))
    BY <1>4 DEF CssComma
  <2>2. AtBack(css, pos, B, output, NewLine(Append(output, Token(pos + 1)), base))
    BY <1>3, <1>4, <1>8, BackOnNewLine
  <2>3. AtBack(css, pos, B, output, SingleSpace(Append(output, Token(pos + 1))))
    BY <1>3, <1>4, <1>8, BackSpaced
  <2> QED
    BY <2>1, <2>2, <2>3
<1>10. \E j \in Nat : PrintedSheet(css, output', pos', j)
  BY <1>1, <1>3, <1>6, <1>7, <1>9, Writes DEF B
<1> QED
  BY <1>3, <1>10

\* A comment.
LEMMA CssCommentStep ==
    ASSUME CssInv, CssComment
    PROVE  /\ Level(css, pos', indentLevel', base')
           /\ \E j \in Nat : PrintedSheet(css, output', pos', j)
<1> DEFINE B == Bases(css, pos')
<1>1. pos < Len(css) /\ Here.t = "/**/" /\ Read(1) /\ Indentation
  BY DEF CssComment, Reading, Paren
<1>2. Here.t \notin {"open", "close"}
  BY <1>1 DEF CssAtRule, CssWords
<1>3. /\ pos' = pos + 1 /\ pos' \in Nat /\ base' = base /\ base \in B
      /\ B \in SUBSET Nat
      /\ Level(css, pos', indentLevel', base')
  BY <1>1, <1>2, StaysLevel
<1>4. pos \in Nat /\ At1 = pos + 1 /\ Here = css[pos + 1] /\ WhiteHere = WhiteAt(css, pos)
  BY <1>1, Ahead
<1>5. pos <= pos'
  BY <1>3, <1>4
<1>6. PICK k \in Nat : PrintedSheet(css, output, pos, k)
  BY <1>1, Ahead
<1> HIDE DEF B
<1> DEFINE v == IF OnNewline \/ indentLevel = 0 THEN NewLine(output, base) ELSE output
           u == NewLine(Append(v, Token(pos + 1)), base)
<1>7. AtFront(css, pos, output, k, B, v)
  <2>1. css[pos + 1].t = "/**/"
    BY <1>1, <1>4
  <2>2. AtFront(css, pos, output, k, B, output)
    BY <1>3, <1>4, <1>5, <1>6, <2>1, FrontTight DEF B
  <2>3. AtFront(css, pos, output, k, B, NewLine(output, base))
    BY <1>3, <1>4, <1>5, <1>6, <2>1, FrontOnNewLine DEF B
  <2> QED
    BY <2>2, <2>3
<1>8. Ends(v, k, B) /\ PutsBehind(css, pos + 1)
  BY <1>1, <1>4, <1>7 DEF AtFront, PutsBehind
<1>9. AtBack(css, pos, B, v, output')
  <2>1. output' = u \/ output' = NewLineKept(u, base)
    BY <1>4 DEF CssComment
  <2> HIDE DEF v
  <2>2. AtBack(css, pos, B, v, u)
    BY <1>3, <1>4, <1>8, BackOnNewLine
  <2>3. AtBack(css, pos, B, v, NewLineKept(u, base))
    BY <1>3, <1>4, <1>8, BackOnEmptyLine
  <2> QED
    BY <2>1, <2>2, <2>3
<1> HIDE DEF v
<1>10. \E j \in Nat : PrintedSheet(css, output', pos', j)
  BY <1>1, <1>3, <1>6, <1>7, <1>9, Writes DEF B
<1> QED
  BY <1>3, <1>10

\* A comment to the end of the line, behind another one only on a new line.
LEMMA CssLineCommentStep ==
    ASSUME CssInv, CssLineComment
    PROVE  /\ Level(css, pos', indentLevel', base')
           /\ \E j \in Nat : PrintedSheet(css, output', pos', j)
<1> DEFINE B == Bases(css, pos')
<1>1. pos < Len(css) /\ Here.t = "//" /\ Read(1) /\ Indentation
  BY DEF CssLineComment, Reading, Paren
<1>2. Here.t \notin {"open", "close"}
  BY <1>1 DEF CssAtRule, CssWords
<1>3. /\ pos' = pos + 1 /\ pos' \in Nat /\ base' = base /\ base \in B
      /\ B \in SUBSET Nat
      /\ Level(css, pos', indentLevel', base')
  BY <1>1, <1>2, StaysLevel
<1>4. pos \in Nat /\ At1 = pos + 1 /\ Here = css[pos + 1] /\ WhiteHere = WhiteAt(css, pos)
  BY <1>1, Ahead
<1>5. pos <= pos'
  BY <1>3, <1>4
<1>6. PICK k \in Nat : PrintedSheet(css, output, pos, k)
  BY <1>1, Ahead
<1> HIDE DEF B
<1> DEFINE v == SingleSpace(IF ~OnNewline /\ ~afterOpening THEN Trim(output) ELSE output)
<1>7. AtFront(css, pos, output, k, B, v)
  <2>1. css[pos + 1].t = "//"
    BY <1>1, <1>4
  <2>2. AtFront(css, pos, output, k, B, SingleSpace(output))
    BY <1>3, <1>4, <1>5, <1>6, <2>1, FrontSpaced DEF B
  <2>3. ASSUME ~OnNewline, k > 0 PROVE css[output[k].n].t # "//"
    <3>1. SUFFICES ASSUME css[output[k].n].t = "//" PROVE FALSE
      OBVIOUS
    <3>2. pos > 0 /\ output[k].n = pos
      BY <1>4, <1>6, <2>3, LastRead
    <3>3. Len(css) \in Nat /\ IsSheet(css) /\ pos \in 1 .. Len(css) /\ pos < Len(css)
      BY <1>1, <1>4, <3>2, Ahead DEF CssTypes
    <3>4. css[pos + 1].white \in Newlines
      BY <3>1, <3>2, <3>3 DEF IsSheet
    <3>5. WhiteHere = css[pos + 1].white
      BY <1>4, <3>1, <3>2 DEF WhiteAt
    <3> QED
      BY <2>3, <3>4, <3>5 DEF OnNewline
  <2>4. ASSUME ~OnNewline
        PROVE  AtFront(css, pos, output, k, B, SingleSpace(Trim(output)))
    BY <1>3, <1>4, <1>5, <1>6, <2>1, <2>3, <2>4, FrontTrimmed DEF B
  <2> QED
    BY <2>2, <2>4
<1>8. Ends(v, k, B) /\ PutsBehind(css, pos + 1)
  BY <1>1, <1>4, <1>7 DEF AtFront, PutsBehind
<1>9. AtBack(css, pos, B, v, output')
  <2>1. output' = NewLine(Append(v, Token(pos + 1)), base)
    BY <1>4 DEF CssLineComment
  <2> HIDE DEF v
  <2> QED
    BY <1>3, <1>4, <1>8, <2>1, BackOnNewLine
<1> HIDE DEF v
<1>10. \E j \in Nat : PrintedSheet(css, output', pos', j)
  BY <1>1, <1>3, <1>6, <1>7, <1>9, Writes DEF B
<1> QED
  BY <1>3, <1>10

\* What is behind the next token, if it is there.
LEMMA TwoAhead ==
    ASSUME CssInv, pos < Len(css), TokenAt(pos + 2) \in {"close", ":"}
    PROVE  pos + 2 \in 1 .. Len(css) /\ css[pos + 2].t = TokenAt(pos + 2)
<1>1. pos \in Nat /\ Len(css) \in Nat
  BY Ahead
<1>2. pos + 2 <= Len(css)
  BY DEF TokenAt
<1> QED
  BY <1>1, <1>2 DEF TokenAt

\* Two tokens pushed at once are pushed one after the other.
LEMMA TwoPushed ==
    ASSUME NEW v \in Seq(SheetPiece), NEW n \in Nat
    PROVE  v \o <<Token(n + 1), Token(n + 2)>> = Append(Append(v, Token(n + 1)), Token((n + 1) + 1))
<1>1. Token(n + 1) \in SheetPiece /\ Token(n + 2) \in SheetPiece /\ (n + 1) + 1 = n + 2
  BY DEF Token, SheetPiece
<1> QED
  BY <1>1

\* The first of the two.
LEMMA WritesOne ==
    ASSUME CssInv, pos < Len(css), NEW k, PrintedSheet(css, output, pos, k),
           Bases(css, pos + 1) \in SUBSET Nat, css[pos + 1].t # "//",
           NEW v, AtFront(css, pos, output, k, Bases(css, pos + 1), v)
    PROVE  /\ v \in Seq(SheetPiece)
           /\ PrintedSheet(css, Append(v, Token(pos + 1)), pos + 1, Len(v) + 1)
<1>1. pos \in Nat /\ pos + 1 \in Nat
  BY Ahead
<1>2. Ends(v, k, Bases(css, pos + 1))
  BY DEF AtFront
<1>3. AtBack(css, pos, Bases(css, pos + 1), v, Append(v, Token(pos + 1)))
  BY <1>1, <1>2, BackTight
<1>4. PrintedSheet(css, Append(v, Token(pos + 1)), pos + 1, Len(v) + 1)
  BY <1>1, <1>3, FrontAndBack
<1> QED
  BY <1>2, <1>4 DEF Ends

\* { right before }.
LEMMA CssEmptyBlockStep ==
    ASSUME CssInv, CssEmptyBlock
    PROVE  /\ Level(css, pos', indentLevel', base')
           /\ \E j \in Nat : PrintedSheet(css, output', pos', j)
<1> DEFINE B == Bases(css, pos')
           v == SingleSpace(output)
           w == Append(v, Token(pos + 1))
           u == NewLine(Append(w, Token((pos + 1) + 1)), base)
<1>1. pos < Len(css) /\ Here.t = "open" /\ TokenAt(pos + 2) = "close"
      /\ pos' = pos + 2 /\ base' = base /\ indentLevel' = indentLevel
  BY DEF CssEmptyBlock, Reading, Read, Indentation
<1>2. pos \in Nat /\ At1 = pos + 1 /\ Here = css[pos + 1] /\ At1 + 1 = pos + 2
      /\ pos + 1 \in Nat /\ (pos + 1) + 1 = pos + 2
  BY <1>1, Ahead
<1>3. css[pos + 1].t = "open" /\ css[(pos + 1) + 1].t = "close"
  BY <1>1, <1>2, TwoAhead
<1>4. /\ Level(css, pos + 1, indentLevel + 1, base + 1)
      /\ Level(css, pos', indentLevel', base')
  <2>1. Level(css, pos + 1, indentLevel + 1, base + 1)
    BY <1>1, <1>2, <1>3, Ahead, LevelStep
  <2>2. Level(css, (pos + 1) + 1, (indentLevel + 1) - 1, IF base + 1 = 0 THEN 0 ELSE (base + 1) - 1)
    BY <1>2, <1>3, <2>1, LevelStep
  <2>3. base \in Nat /\ indentLevel \in Int
    BY DEF CssInv, CssTypes
  <2>4. (indentLevel + 1) - 1 = indentLevel /\ (IF base + 1 = 0 THEN 0 ELSE (base + 1) - 1) = base
    BY <2>3
  <2>5. Level(css, pos + 2, indentLevel, base)
    BY <1>2, <2>2, <2>4
  <2> QED
    BY <1>1, <2>1, <2>5
<1>5. /\ pos' \in Nat /\ pos + 1 <= pos' /\ pos' = (pos + 1) + 1
      /\ base \in B /\ B \in SUBSET Nat /\ Bases(css, pos + 1) \in SUBSET Nat
  <2>1. pos + 2 # 0 /\ pos + 2 \in Nat /\ pos + 1 <= pos + 2
    BY <1>2
  <2> QED
    BY <1>1, <1>2, <1>4, <2>1 DEF Level
<1>6. PICK k \in Nat : PrintedSheet(css, output, pos, k)
  BY <1>1, Ahead
<1> HIDE DEF B, v, w, u
<1>7. AtFront(css, pos, output, k, Bases(css, pos + 1), v)
  <2>1. pos <= pos + 1
    BY <1>2
  <2> QED
    BY <1>2, <1>3, <1>5, <1>6, <2>1, FrontSpaced DEF v
<1>8. v \in Seq(SheetPiece) /\ PrintedSheet(css, w, pos + 1, Len(v) + 1)
  BY <1>1, <1>3, <1>5, <1>6, <1>7, WritesOne DEF w
<1>9. AtFront(css, pos + 1, w, Len(v) + 1, B, w)
  BY <1>2, <1>3, <1>5, <1>8, FrontTight DEF B
<1>10. Ends(w, Len(v) + 1, B) /\ PutsBehind(css, (pos + 1) + 1)
  BY <1>3, <1>9 DEF AtFront, PutsBehind
<1>11. AtBack(css, pos + 1, B, w, output')
  <2>1. v \o <<Token(At1), Token(At1 + 1)>> = Append(w, Token((pos + 1) + 1))
    BY <1>2, <1>8, TwoPushed DEF w
  <2>2. output' = u \/ output' = NewLineKept(u, base)
    BY <2>1 DEF CssEmptyBlock, v, u
  <2>3. AtBack(css, pos + 1, B, w, u)
    BY <1>2, <1>5, <1>10, BackOnNewLine DEF u
  <2>4. AtBack(css, pos + 1, B, w, NewLineKept(u, base))
    BY <1>2, <1>5, <1>10, BackOnEmptyLine DEF u
  <2> QED
    BY <2>2, <2>3, <2>4
<1>12. PrintedSheet(css, output', pos', Len(w) + 1)
  BY <1>2, <1>5, <1>8, <1>9, <1>11, FrontAndBack DEF B
<1>13. Len(w) + 1 \in Nat
  BY <1>10 DEF Ends
<1> QED
  BY <1>4, <1>12, <1>13

\* {: what it opens stands one indentation further to the right.
LEMMA CssOpenStep ==
    ASSUME CssInv, CssOpen
    PROVE  /\ Level(css, pos', indentLevel', base')
           /\ \E j \in Nat : PrintedSheet(css, output', pos', j)
<1> DEFINE B == Bases(css, pos')
           v == SingleSpace(output)
<1>1. pos < Len(css) /\ Here.t = "open"
      /\ pos' = pos + 1 /\ base' = base + 1 /\ indentLevel' = indentLevel + 1
  BY DEF CssOpen, Reading, Read
<1>2. pos \in Nat /\ At1 = pos + 1 /\ Here = css[pos + 1]
  BY <1>1, Ahead
<1>3. css[pos + 1].t = "open"
  BY <1>1, <1>2
<1>4. Level(css, pos', indentLevel', base')
  BY <1>1, <1>2, <1>3, Ahead, LevelStep
<1>5. pos' \in Nat /\ pos <= pos' /\ base' \in B /\ B \in SUBSET Nat
  <2>1. pos + 1 # 0 /\ pos + 1 \in Nat /\ pos <= pos + 1
    BY <1>2
  <2> QED
    BY <1>1, <1>4, <2>1 DEF Level
<1>6. PICK k \in Nat : PrintedSheet(css, output, pos, k)
  BY <1>1, Ahead
<1> HIDE DEF B, v
<1>7. AtFront(css, pos, output, k, B, v)
  BY <1>2, <1>3, <1>5, <1>6, FrontSpaced DEF B, v
<1>8. Ends(v, k, B) /\ PutsBehind(css, pos + 1)
  BY <1>3, <1>7 DEF AtFront, PutsBehind
<1>9. AtBack(css, pos, B, v, output')
  <2>1. output' = NewLine(Append(v, Token(pos + 1)), base')
    BY <1>2 DEF CssOpen, v
  <2> QED
    BY <1>2, <1>5, <1>8, <2>1, BackOnNewLine
<1>10. \E j \in Nat : PrintedSheet(css, output', pos', j)
  BY <1>1, <1>5, <1>6, <1>7, <1>9, Writes DEF B
<1> QED
  BY <1>4, <1>10

\* }: one indentation back, if there is one.
LEMMA CssCloseStep ==
    ASSUME CssInv, CssClose
    PROVE  /\ Level(css, pos', indentLevel', base')
           /\ \E j \in Nat : PrintedSheet(css, output', pos', j)
<1> DEFINE B == Bases(css, pos')
           v == NewLine(output, base')
           u == NewLine(Append(v, Token(pos + 1)), base')
<1>1. pos < Len(css) /\ Here.t = "close" /\ pos' = pos + 1
      /\ indentLevel' = indentLevel - 1 /\ base' = (IF base = 0 THEN 0 ELSE base - 1)
  BY DEF CssClose, Reading, Read, Outdent
<1>2. pos \in Nat /\ At1 = pos + 1 /\ Here = css[pos + 1]
  BY <1>1, Ahead
<1>3. css[pos + 1].t = "close"
  BY <1>1, <1>2
<1>4. Level(css, pos', indentLevel', base')
  <2>1. Level(css, pos + 1, indentLevel - 1, IF base = 0 THEN 0 ELSE base - 1)
    BY <1>1, <1>2, <1>3, Ahead, LevelStep
  <2> QED
    BY <1>1, <2>1
<1>5. pos' \in Nat /\ pos <= pos' /\ base' \in B /\ B \in SUBSET Nat
  <2>1. pos + 1 # 0 /\ pos + 1 \in Nat /\ pos <= pos + 1
    BY <1>2
  <2> QED
    BY <1>1, <1>4, <2>1 DEF Level
<1>6. PICK k \in Nat : PrintedSheet(css, output, pos, k)
  BY <1>1, Ahead
<1> HIDE DEF B, v
<1>7. AtFront(css, pos, output, k, B, v)
  BY <1>2, <1>3, <1>5, <1>6, FrontOnNewLine DEF B, v
<1>8. Ends(v, k, B) /\ PutsBehind(css, pos + 1)
  BY <1>3, <1>7 DEF AtFront, PutsBehind
<1>9. AtBack(css, pos, B, v, output')
  <2>1. output' = u \/ output' = NewLineKept(u, base')
    BY <1>2 DEF CssClose, v
  <2>2. AtBack(css, pos, B, v, u)
    BY <1>2, <1>5, <1>8, BackOnNewLine
  <2>3. AtBack(css, pos, B, v, NewLineKept(u, base'))
    BY <1>2, <1>5, <1>8, BackOnEmptyLine
  <2> QED
    BY <2>1, <2>2, <2>3
<1>10. \E j \in Nat : PrintedSheet(css, output', pos', j)
  BY <1>1, <1>5, <1>6, <1>7, <1>9, Writes DEF B
<1> QED
  BY <1>4, <1>10

\* : and :: of a selector.
LEMMA CssPseudoColonStep ==
    ASSUME CssInv, CssPseudoColon
    PROVE  /\ Level(css, pos', indentLevel', base')
           /\ \E j \in Nat : PrintedSheet(css, output', pos', j)
<1> DEFINE w == Append(output, Token(pos + 1))
<1>1. pos < Len(css) /\ Here.t = ":" /\ base' = base /\ indentLevel' = indentLevel
      /\ pos' = pos + (IF TokenAt(pos + 2) = ":" THEN 2 ELSE 1)
      /\ output' = output \o (IF TokenAt(pos + 2) = ":" THEN <<Token(At1), Token(At1 + 1)>>
                              ELSE <<Token(At1)>>)
  BY DEF CssPseudoColon, Reading, Read, Indentation
<1>2. pos \in Nat /\ At1 = pos + 1 /\ Here = css[pos + 1] /\ At1 + 1 = pos + 2
      /\ pos + 1 \in Nat /\ (pos + 1) + 1 = pos + 2
  BY <1>1, Ahead
<1>3. css[pos + 1].t = ":"
  BY <1>1, <1>2
<1>4. Level(css, pos + 1, indentLevel, base)
  BY <1>1, <1>2, <1>3, Ahead, LevelStep
<1>5. Bases(css, pos + 1) \in SUBSET Nat /\ pos <= pos + 1
  BY <1>2, <1>4 DEF Level
<1>6. PICK k \in Nat : PrintedSheet(css, output, pos, k)
  BY <1>1, Ahead
<1>7. AtFront(css, pos, output, k, Bases(css, pos + 1), output)
  BY <1>2, <1>3, <1>5, <1>6, FrontTight
<1>8. output \in Seq(SheetPiece) /\ PrintedSheet(css, w, pos + 1, Len(output) + 1)
  BY <1>1, <1>3, <1>5, <1>6, <1>7, WritesOne
<1>9. Len(output) + 1 \in Nat /\ Len(w) = Len(output) + 1
  <2>1. Token(pos + 1) \in SheetPiece
    BY <1>2 DEF Token, SheetPiece
  <2> QED
    BY <1>8, <2>1
<1>10. ASSUME TokenAt(pos + 2) # ":"
       PROVE  Level(css, pos', indentLevel', base') /\ PrintedSheet(css, output', pos', Len(output) + 1)
  <2>1. output' = output \o <<Token(pos + 1)>> /\ pos' = pos + 1
    BY <1>1, <1>2, <1>10
  <2>2. output' = w
    <3>1. Token(pos + 1) \in SheetPiece
      BY <1>2 DEF Token, SheetPiece
    <3> QED
      BY <1>8, <2>1, <3>1
  <2> QED
    BY <1>1, <1>4, <1>8, <2>1, <2>2
<1>11. ASSUME TokenAt(pos + 2) = ":"
       PROVE  Level(css, pos', indentLevel', base') /\ PrintedSheet(css, output', pos', Len(w) + 1)
  <2> DEFINE B == Bases(css, pos')
  <2>1. css[(pos + 1) + 1].t = ":" /\ pos' = (pos + 1) + 1 /\ pos' \in Nat /\ pos + 1 <= pos'
    BY <1>1, <1>2, <1>11, TwoAhead
  <2>2. Level(css, pos', indentLevel', base')
    BY <1>1, <1>2, <1>4, <2>1, LevelStep
  <2>3. B \in SUBSET Nat
    BY <2>2 DEF Level
  <2>4. output' = Append(w, Token((pos + 1) + 1))
    BY <1>1, <1>2, <1>8, <1>11, TwoPushed
  <2> HIDE DEF B, w
  <2>5. AtFront(css, pos + 1, w, Len(output) + 1, B, w)
    BY <1>2, <1>8, <2>1, FrontTight DEF B
  <2>6. Ends(w, Len(output) + 1, B)
    BY <2>5 DEF AtFront
  <2>7. AtBack(css, pos + 1, B, w, output')
    BY <1>2, <2>1, <2>3, <2>4, <2>6, BackTight
  <2>8. PrintedSheet(css, output', pos', Len(w) + 1)
    BY <1>2, <1>8, <2>1, <2>3, <2>5, <2>7, FrontAndBack DEF B
  <2> QED
    BY <2>2, <2>8
<1> QED
  BY <1>9, <1>10, <1>11

\* What is answered: the output up to its last token, behind d indentations.
LEMMA AnswerIs ==
    ASSUME NEW c, NEW n \in Nat, NEW s, NEW k \in Nat, PrintedSheet(c, s, n, k),
           NEW d \in {0, 1}, NEW o \in Seq(SheetPiece), Len(o) = k + d,
           \A i \in 1 .. k : o[i + d] = s[i],
           d = 1 => o[1].k = "indent" /\ o[1].n \in Bases(c, n)
    PROVE  Answered(c, o, n)
<1>1. InPlace(c, s, n, k) /\ CommentsEnd(c, s, k) /\ WordsApart(c, s, k)
  BY DEF PrintedSheet
<1>2. \A i \in 1 .. Len(o) : (i - d \in 1 .. k /\ o[i] = s[i - d]) \/ (d = 1 /\ i = 1)
  <2> SUFFICES ASSUME NEW i \in 1 .. Len(o), ~(d = 1 /\ i = 1)
               PROVE  i - d \in 1 .. k /\ o[i] = s[i - d]
    OBVIOUS
  <2>1. d = 0 \/ i # 1
    OBVIOUS
  <2>2. i - d \in 1 .. k
    BY <2>1
  <2>3. (i - d) + d = i
    OBVIOUS
  <2>4. o[(i - d) + d] = s[i - d]
    BY <2>2
  <2> QED
    BY <2>2, <2>3, <2>4
<1>3. \A i \in 1 .. Len(o) : IsToken(o, i) =>
          i - d \in 1 .. k /\ IsToken(s, i - d) /\ o[i] = s[i - d]
  BY <1>2 DEF IsToken
<1>4. \A i \in 1 .. k : i + d \in 1 .. Len(o) /\ o[i + d] = s[i]
  <2>1. \A i \in 1 .. k : i + d \in 1 .. k + d
    OBVIOUS
  <2> QED
    BY <2>1
<1>5. InPlace(c, o, n, Len(o))
  <2>1. \A i \in 1 .. Len(o) : o[i].k = "indent" => o[i].n \in Bases(c, n)
    BY <1>1, <1>2 DEF InPlace
  <2>2. \A i \in 1 .. Len(o) : IsToken(o, i) => o[i].n \in 1 .. n
    BY <1>1, <1>3 DEF InPlace
  <2>3. \A i, j \in 1 .. Len(o) : IsToken(o, i) /\ IsToken(o, j) /\ i < j => o[i].n < o[j].n
    <3> SUFFICES ASSUME NEW i \in 1 .. Len(o), NEW j \in 1 .. Len(o), IsToken(o, i), IsToken(o, j), i < j
                 PROVE  o[i].n < o[j].n
      OBVIOUS
    <3>1. /\ i - d \in 1 .. k /\ IsToken(s, i - d) /\ o[i] = s[i - d]
          /\ j - d \in 1 .. k /\ IsToken(s, j - d) /\ o[j] = s[j - d]
      BY <1>3
    <3>2. i - d < j - d
      OBVIOUS
    <3>3. s[i - d].n < s[j - d].n
      BY <1>1, <3>1, <3>2 DEF InPlace
    <3> QED
      BY <3>1, <3>3
  <2>4. \A m \in 1 .. n : \E i \in 1 .. Len(o) : IsToken(o, i) /\ o[i].n = m
    <3> SUFFICES ASSUME NEW m \in 1 .. n PROVE \E i \in 1 .. Len(o) : IsToken(o, i) /\ o[i].n = m
      OBVIOUS
    <3>1. PICK i \in 1 .. k : IsToken(s, i) /\ s[i].n = m
      BY <1>1 DEF InPlace
    <3>2. i + d \in 1 .. Len(o) /\ IsToken(o, i + d) /\ o[i + d].n = m
      BY <1>4, <3>1 DEF IsToken
    <3> QED
      BY <3>2
  <2> QED
    BY <2>1, <2>2, <2>3, <2>4 DEF InPlace
<1>6. WordsApart(c, o, Len(o))
  <2> SUFFICES ASSUME NEW i \in 1 .. Len(o), NEW j \in 1 .. Len(o), IsToken(o, i), IsToken(o, j), i < j,
                      \A q \in 1 .. Len(o) : IsToken(o, q) => q <= i \/ q >= j
               PROVE  Parted(c, o[i].n, o[j].n, j > i + 1)
    BY DEF WordsApart
  <2>1. /\ i - d \in 1 .. k /\ IsToken(s, i - d) /\ o[i] = s[i - d]
        /\ j - d \in 1 .. k /\ IsToken(s, j - d) /\ o[j] = s[j - d]
    BY <1>3
  <2>2. \A q \in 1 .. k : IsToken(s, q) => q <= i - d \/ q >= j - d
    <3> SUFFICES ASSUME NEW q \in 1 .. k, IsToken(s, q) PROVE q <= i - d \/ q >= j - d
      OBVIOUS
    <3>1. q + d \in 1 .. Len(o) /\ IsToken(o, q + d)
      BY <1>4 DEF IsToken
    <3>2. q + d <= i \/ q + d >= j
      BY <3>1
    <3> QED
      BY <3>2
  <2>3. i - d < j - d
    OBVIOUS
  <2>4. Parted(c, s[i - d].n, s[j - d].n, j - d > (i - d) + 1)
    BY <1>1, <2>1, <2>2, <2>3 DEF WordsApart
  <2>5. (j - d > (i - d) + 1) = (j > i + 1)
    BY <1>1, <2>3, SMTT(60)
  <2> QED
    BY <2>1, <2>4, <2>5
<1>7. \A i \in 1 .. Len(o) : IsToken(o, i) /\ c[o[i].n].t = "//" => i = Len(o) \/ o[i + 1] = Newline
  <2> SUFFICES ASSUME NEW i \in 1 .. Len(o), IsToken(o, i), c[o[i].n].t = "//", i # Len(o)
               PROVE  o[i + 1] = Newline
    OBVIOUS
  <2>1. i - d \in 1 .. k /\ IsToken(s, i - d) /\ o[i] = s[i - d]
    BY <1>3
  <2>2. s[(i - d) + 1] = Newline
    BY <1>1, <2>1 DEF CommentsEnd
  <2>3. (i - d) + 1 \in 1 .. k /\ ((i - d) + 1) + d = i + 1
    BY <2>1
  <2>4. o[((i - d) + 1) + d] = s[(i - d) + 1]
    BY <1>4, <2>3
  <2> QED
    BY <2>2, <2>3, <2>4
<1> QED
  BY <1>5, <1>6, <1>7 DEF Answered

\* The end of the sheet.
LEMMA CssEndStep ==
    ASSUME CssInv, CssEnd
    PROVE  Answered(css, output', pos)
<1>1. PICK k \in Nat : PrintedSheet(css, output, pos, k)
  BY DEF CssInv, CssEnd
<1>2. /\ pos \in Nat
      /\ Bases(css, pos) \in SUBSET Nat
      /\ base # 0 => base \in Bases(css, pos)
  <2>1. Len(css) \in Nat /\ pos \in 0 .. Len(css) /\ Level(css, pos, indentLevel, base)
    BY DEF CssInv, CssTypes
  <2> QED
    BY <2>1 DEF Level
<1> DEFINE t == Trim(output)
<1>3. t \in Seq(SheetPiece) /\ Len(t) = k /\ \A i \in 1 .. k : t[i] = output[i]
  <2>1. Ends(output, k, Bases(css, pos))
    BY <1>1 DEF PrintedSheet
  <2>2. Ends(t, k, Bases(css, pos)) /\ Len(t) = k /\ Same(output, t, k)
    BY <1>2, <2>1, TrimIs
  <2> QED
    BY <2>2 DEF Ends, Same
<1>4. output' = (IF base = 0 THEN <<>> ELSE <<Indented(base)>>) \o t
  BY DEF CssEnd
<1> HIDE DEF t
<1>5. ASSUME base = 0 PROVE Answered(css, output', pos)
  <2>1. output' = t
    BY <1>3, <1>4, <1>5
  <2>2. Len(t) = k + 0 /\ \A i \in 1 .. k : t[i + 0] = output[i]
    BY <1>3
  <2>3. Answered(css, t, pos)
    BY <1>1, <1>2, <1>3, <2>2, AnswerIs
  <2> QED
    BY <2>1, <2>3
<1>6. ASSUME base # 0 PROVE Answered(css, output', pos)
  <2> DEFINE x == Indented(base)
             o == <<x>> \o t
  <2>1. output' = o
    BY <1>4, <1>6
  <2>2. x \in SheetPiece /\ x.k = "indent" /\ x.n = base
    BY <1>2, <1>6 DEF Indented, SheetPiece
  <2> HIDE DEF x
  <2>3. o \in Seq(SheetPiece) /\ Len(o) = k + 1 /\ o[1] = x /\ \A i \in 1 .. k : o[i + 1] = output[i]
    BY <1>3, <2>2
  <2> HIDE DEF o
  <2>4. o[1].k = "indent" /\ o[1].n \in Bases(css, pos)
    BY <1>2, <1>6, <2>2, <2>3
  <2>5. Answered(css, o, pos)
    BY <1>1, <1>2, <2>3, <2>4, AnswerIs
  <2> QED
    BY <2>1, <2>5
<1> QED
  BY <1>5, <1>6

-----------------------------------------------------------------------------
(* The theorems.                                                           *)

\* How far is read.
LEMMA PosStep ==
    ASSUME CssInv, CssNext
    PROVE  css' = css /\ pos' \in 0 .. Len(css)
<1>1. Len(css) \in Nat /\ pos \in 0 .. Len(css)
  BY DEF CssInv, CssTypes
<1>2. ASSUME pos < Len(css), Read(1) PROVE css' = css /\ pos' \in 0 .. Len(css)
  BY <1>1, <1>2 DEF Read
<1>3. ASSUME CssEmptyBlock PROVE css' = css /\ pos' \in 0 .. Len(css)
  <2>1. pos + 2 \in 1 .. Len(css)
    BY <1>3, TwoAhead DEF CssEmptyBlock, Reading
  <2> QED
    BY <1>1, <1>3, <2>1 DEF CssEmptyBlock, Read
<1>4. ASSUME CssPseudoColon PROVE css' = css /\ pos' \in 0 .. Len(css)
  <2>1. TokenAt(pos + 2) = ":" => pos + 2 \in 1 .. Len(css)
    BY <1>4, TwoAhead DEF CssPseudoColon, Reading
  <2>2. pos < Len(css) /\ css' = css /\ pos' = pos + (IF TokenAt(pos + 2) = ":" THEN 2 ELSE 1)
    BY <1>4 DEF CssPseudoColon, Read, Reading
  <2> QED
    BY <1>1, <2>1, <2>2
<1>5. ASSUME CssEnd PROVE css' = css /\ pos' \in 0 .. Len(css)
  BY <1>1, <1>5 DEF CssEnd
<1>6. CssNext => CssEmptyBlock \/ CssPseudoColon \/ CssEnd \/ (pos < Len(css) /\ Read(1))
  BY DEF CssNext, CssComment, CssLineComment, CssAtRuleRead, CssOpen, CssClose, CssPropertyColon,
         CssSemicolon, CssUrl, CssOpenParen, CssCloseParen, CssComma, CssTight, CssWord, Reading, Paren
<1> QED
  BY <1>2, <1>3, <1>4, <1>5, <1>6

\* What the modes are.
LEMMA ModesStep ==
    ASSUME CssInv, CssNext
    PROVE  /\ parenLevel' \in Int /\ nestedLevel' \in Nat
           /\ insideRule' \in BOOLEAN /\ insidePropertyValue' \in BOOLEAN
           /\ enteringConditionalGroup' \in BOOLEAN
           /\ afterOpening' \in BOOLEAN /\ finished' \in BOOLEAN
<1> DEFINE Modes == /\ parenLevel \in Int /\ nestedLevel \in Nat
                    /\ insideRule \in BOOLEAN /\ insidePropertyValue \in BOOLEAN
                    /\ enteringConditionalGroup \in BOOLEAN
           Read1 == afterOpening' \in BOOLEAN /\ finished' \in BOOLEAN
<1>1. Modes /\ afterOpening \in BOOLEAN /\ finished \in BOOLEAN
      /\ parenLevel + 1 \in Int /\ parenLevel - 1 \in Int
      /\ nestedLevel + 1 \in Nat /\ (nestedLevel # 0 => nestedLevel - 1 \in Nat)
  BY DEF CssInv, CssTypes
<1>2. \A n : Read(n) => Read1
  <2>1. (Here.t = "open") \in BOOLEAN
    OBVIOUS
  <2> QED
    BY <1>1, <2>1, Zenon DEF Read
<1>3. ASSUME UNCHANGED cssModes PROVE Modes'
  BY <1>1, <1>3 DEF cssModes
<1>4. ASSUME CssAtRuleRead PROVE Modes' /\ Read1
  <2>1. nestedLevel' = nestedLevel \/ nestedLevel' = nestedLevel + 1
    BY <1>4 DEF CssAtRuleRead
  <2>2. (enteringConditionalGroup \/ Here.t = "@media") \in BOOLEAN
    OBVIOUS
  <2> QED
    BY <1>1, <1>2, <1>4, <2>1, <2>2, Zenon DEF CssAtRuleRead
<1>5. ASSUME CssOpen PROVE Modes' /\ Read1
  <2>1. (indentLevel' > nestedLevel) \in BOOLEAN /\ (indentLevel' >= nestedLevel) \in BOOLEAN
    OBVIOUS
  <2>2. insideRule' = (indentLevel' > nestedLevel) \/ insideRule' = (indentLevel' >= nestedLevel)
    BY <1>5, Zenon DEF CssOpen
  <2> QED
    BY <1>1, <1>2, <1>5, <2>1, <2>2, Zenon DEF CssOpen
<1>6. ASSUME CssClose PROVE Modes' /\ Read1
  <2>1. nestedLevel' = 0 \/ (nestedLevel # 0 /\ nestedLevel' = nestedLevel - 1)
    BY <1>6 DEF CssClose
  <2>2. nestedLevel' \in Nat
    BY <1>1, <2>1
  <2> QED
    BY <1>1, <1>2, <1>6, <2>2, Zenon DEF CssClose
<1>7. ASSUME CssPropertyColon PROVE Modes' /\ Read1
  BY <1>1, <1>2, <1>7, Zenon DEF CssPropertyColon
<1>8. ASSUME CssSemicolon PROVE Modes' /\ Read1
  BY <1>1, <1>2, <1>8, Zenon DEF CssSemicolon
<1>9. ASSUME CssOpenParen PROVE Modes' /\ Read1
  BY <1>1, <1>2, <1>9, Zenon DEF CssOpenParen, Paren
<1>10. ASSUME CssCloseParen PROVE Modes' /\ Read1
  BY <1>1, <1>2, <1>10, Zenon DEF CssCloseParen, Paren
<1>11. ASSUME CssEnd PROVE UNCHANGED cssModes /\ Read1
  BY <1>1, <1>11 DEF CssEnd, cssModes
<1>12. ASSUME CssComment \/ CssLineComment \/ CssEmptyBlock \/ CssPseudoColon \/ CssUrl
              \/ CssComma \/ CssTight \/ CssWord
       PROVE  UNCHANGED cssModes /\ \E n : Read(n)
  BY <1>12 DEF CssComment, CssLineComment, CssEmptyBlock, CssPseudoColon, CssUrl, CssComma, CssTight, CssWord
<1> HIDE DEF Read1
<1>13. Modes' /\ Read1
  BY <1>2, <1>3, <1>4, <1>5, <1>6, <1>7, <1>8, <1>9, <1>10, <1>11, <1>12 DEF CssNext
<1> QED
  BY <1>13 DEF Read1

\* Every branch keeps the invariant.
LEMMA CssInvStep == CssInv /\ [CssNext]_cssVars => CssInv'
<1> SUFFICES ASSUME CssInv, [CssNext]_cssVars PROVE CssInv'
  OBVIOUS
<1>1. ASSUME UNCHANGED cssVars PROVE CssInv'
  BY <1>1 DEF cssVars, cssModes, CssInv, CssTypes
<1>2. ASSUME CssNext PROVE CssTypes' /\ css' = css
  <2>1. indentLevel' \in Int /\ base' \in Nat
    <3>1. base \in Nat /\ indentLevel \in Int
      BY DEF CssInv, CssTypes
    <3>2. ASSUME Indentation PROVE indentLevel' \in Int /\ base' \in Nat
      BY <3>1, <3>2 DEF Indentation
    <3>3. ASSUME CssOpen PROVE indentLevel' \in Int /\ base' \in Nat
      BY <3>1, <3>3 DEF CssOpen
    <3>4. ASSUME CssClose PROVE indentLevel' \in Int /\ base' \in Nat
      BY <3>1, <3>4 DEF CssClose, Outdent
    <3>5. ASSUME CssEnd PROVE indentLevel' \in Int /\ base' \in Nat
      BY <3>1, <3>5 DEF CssEnd
    <3>6. CssNext => Indentation \/ CssOpen \/ CssClose \/ CssEnd
      BY DEF CssNext, CssComment, CssLineComment, CssAtRuleRead, CssEmptyBlock, CssPropertyColon,
             CssPseudoColon, CssSemicolon, CssUrl, CssOpenParen, CssCloseParen, CssComma, CssTight,
             CssWord, Paren
    <3> QED
      BY <1>2, <3>2, <3>3, <3>4, <3>5, <3>6
  <2>2. css' = css /\ pos' \in 0 .. Len(css)
    BY <1>2, PosStep
  <2>3. css' \in Seq(CssPiece) /\ IsSheet(css') /\ pos' \in 0 .. Len(css')
    BY <2>2 DEF CssInv, CssTypes
  <2> QED
    BY <1>2, <2>1, <2>2, <2>3, ModesStep DEF CssTypes
<1>3. ASSUME CssEnd PROVE CssInv'
  <2>1. CssNext
    BY <1>3 DEF CssNext
  <2>2. CssTypes'
    BY <1>2, <2>1
  <2>3. /\ css' = css /\ pos' = pos /\ indentLevel' = indentLevel /\ base' = base
        /\ finished' /\ pos = Len(css)
    BY <1>3 DEF CssEnd
  <2>4. Answered(css, output', pos)
    BY <1>3, CssEndStep
  <2> QED
    BY <2>2, <2>3, <2>4 DEF CssInv
<1>4. ASSUME CssNext, ~CssEnd
      PROVE  /\ Level(css, pos', indentLevel', base')
             /\ \E j \in Nat : PrintedSheet(css, output', pos', j)
  BY <1>4, CssCommentStep, CssLineCommentStep, CssAtRuleReadStep, CssEmptyBlockStep, CssOpenStep,
     CssCloseStep, CssPropertyColonStep, CssPseudoColonStep, CssSemicolonStep, CssUrlStep,
     CssOpenParenStep, CssCloseParenStep, CssCommaStep, CssTightStep, CssWordStep DEF CssNext
<1>5. ASSUME CssNext, ~CssEnd PROVE CssInv'
  <2>1. pos < Len(css) /\ finished' = finished
    BY <1>5 DEF CssNext, CssComment, CssLineComment, CssAtRuleRead, CssEmptyBlock, CssOpen, CssClose,
       CssPropertyColon, CssPseudoColon, CssSemicolon, CssUrl, CssOpenParen, CssCloseParen, CssComma,
       CssTight, CssWord, Paren, Reading, Read
  <2>2. ~finished
    BY <2>1, Ahead
  <2> QED
    BY <1>2, <1>4, <1>5, <2>1, <2>2 DEF CssInv
<1> QED
  BY <1>1, <1>3, <1>5

\* The invariant holds of every sheet.
LEMMA CssInvHolds == CssSpec => []CssInv
  BY CssInvAtFirst, CssInvStep, PTL DEF CssSpec

\* What the invariant says of the pieces, while they are printed and of what is answered.
LEMMA PiecesAre ==
    ASSUME CssInv
    PROVE  /\ output \in Seq(SheetPiece)
           /\ \A o \in 1 .. Len(output) : output[o].k = "indent" => output[o].n \in Bases(css, pos)
           /\ \A o \in Pushed : output[o].n \in 1 .. pos
           /\ \A n \in 1 .. pos : \E o \in Pushed : output[o].n = n
           /\ \A o, p \in Pushed : o < p => output[o].n < output[p].n
<1>1. ASSUME finished
      PROVE  output \in Seq(SheetPiece) /\ InPlace(css, output, pos, Len(output))
  BY <1>1 DEF CssInv, Answered
<1>2. ASSUME ~finished
      PROVE  /\ output \in Seq(SheetPiece)
             /\ \A o \in 1 .. Len(output) : output[o].k = "indent" => output[o].n \in Bases(css, pos)
             /\ \A o \in Pushed : output[o].n \in 1 .. pos
             /\ \A n \in 1 .. pos : \E o \in Pushed : output[o].n = n
             /\ \A o, p \in Pushed : o < p => output[o].n < output[p].n
  <2>1. PICK k \in Nat : PrintedSheet(css, output, pos, k)
    BY <1>2 DEF CssInv
  <2>2. Ends(output, k, Bases(css, pos)) /\ InPlace(css, output, pos, k)
    BY <2>1 DEF PrintedSheet
  <2>3. Bases(css, pos) \in SUBSET Nat
    BY DEF CssInv, Level
  <2>4. output \in Seq(SheetPiece) /\ Len(output) \in Nat /\ k \in 0 .. Len(output)
    BY <2>2 DEF Ends
  <2>5. \A o \in 1 .. Len(output) : o \in 1 .. k \/ o \in k + 1 .. Len(output)
    BY <2>4
  <2>6. \A o \in k + 1 .. Len(output) :
            output[o].k # "token" /\ (output[o].k = "indent" => output[o].n \in Bases(css, pos))
    BY <2>2, <2>3, GapIs DEF Ends
  <2>7. \A o \in 1 .. Len(output) : output[o].k = "indent" => output[o].n \in Bases(css, pos)
    BY <2>2, <2>5, <2>6 DEF InPlace
  <2>8. \A o \in Pushed : o \in 1 .. k /\ IsToken(output, o)
    BY <2>5, <2>6 DEF Pushed, IsToken
  <2>9. \A o \in 1 .. k : IsToken(output, o) => o \in Pushed
    BY <2>4 DEF Pushed, IsToken
  <2>10. \A n \in 1 .. pos : \E o \in Pushed : output[o].n = n
    BY <2>2, <2>9 DEF InPlace
  <2> QED
    BY <2>2, <2>4, <2>7, <2>8, <2>10 DEF InPlace
<1>3. ASSUME finished
      PROVE  /\ \A o \in 1 .. Len(output) : output[o].k = "indent" => output[o].n \in Bases(css, pos)
             /\ \A o \in Pushed : output[o].n \in 1 .. pos
             /\ \A n \in 1 .. pos : \E o \in Pushed : output[o].n = n
             /\ \A o, p \in Pushed : o < p => output[o].n < output[p].n
  <2>1. InPlace(css, output, pos, Len(output))
    BY <1>1, <1>3
  <2>2. \A n \in 1 .. pos : \E o \in Pushed : output[o].n = n
    BY <2>1 DEF InPlace, Pushed, IsToken
  <2> QED
    BY <2>1, <2>2 DEF InPlace, Pushed, IsToken
<1> QED
  BY <1>1, <1>2, <1>3

\* The invariant has the types in it, and what is pushed of the sheet.
LEMMA CssInvTypes == ASSUME CssInv PROVE CssTypeOK /\ CssPrinted
<1>1. \A o \in 1 .. Len(output) : output[o].k \in {"token", "blank", "newline", "indent"}
  <2>1. output \in Seq(SheetPiece)
    BY PiecesAre
  <2>2. \A o \in 1 .. Len(output) : output[o] \in SheetPiece
    BY <2>1, ElementOfSeq
  <2> QED
    BY <2>2 DEF SheetPiece
<1>2. CssTypes
  BY DEF CssInv
<1>3. {insideRule, insidePropertyValue, enteringConditionalGroup, afterOpening, finished} \subseteq BOOLEAN
  BY <1>2, Zenon DEF CssTypes
<1>4. \A o \in 1 .. Len(output) : output[o].k = "token" => output[o].n \in 1 .. Len(css)
  <2>1. Len(css) \in Nat /\ pos \in 0 .. Len(css)
    BY <1>2 DEF CssTypes
  <2>2. \A n \in 1 .. pos : n \in 1 .. Len(css)
    BY <2>1
  <2>3. \A o \in 1 .. Len(output) : output[o].k = "token" => o \in Pushed
    BY DEF Pushed
  <2> QED
    BY <2>2, <2>3, PiecesAre
<1>5. CssTypeOK
  BY <1>1, <1>2, <1>3, <1>4 DEF CssTypeOK, CssTypes
<1>6. {output[o].n : o \in Pushed} = 1 .. pos
  <2>1. \A o \in Pushed : output[o].n \in 1 .. pos
    BY PiecesAre
  <2>2. \A n \in 1 .. pos : \E o \in Pushed : output[o].n = n
    BY PiecesAre
  <2> QED
    BY <2>1, <2>2
<1>7. \A o, p \in Pushed : o < p => output[o].n < output[p].n
  BY PiecesAre
<1> QED
  BY <1>5, <1>6, <1>7 DEF CssPrinted

\* Whatever is taken back of white space, a sheet is printed as far as it is read: every
\* token once and in its order (beautify-css.js 63-465, trim at 257-261).
THEOREM CssPrintedOnce == CssSpec => [](CssTypeOK /\ CssPrinted)
<1>1. CssInv => CssTypeOK /\ CssPrinted
  BY CssInvTypes
<1> QED
  BY <1>1, CssInvHolds, PTL

\* The indentation of every line follows the braces, however deep the sheet and however
\* its braces match, but for what has been closed too often (beautify-css.js 208-216).
THEOREM IndentAlwaysMatches == CssSpec => []IndentMatchesBraces
<1>1. CssInv => IndentMatchesBraces
  <2> SUFFICES ASSUME CssInv PROVE IndentMatchesBraces
    OBVIOUS
  <2>1. \A n : Depth(n) = DepthOf(css, n) /\ Excess(n) = ExcessOf(css, n)
    BY DEF Depth, DepthOf, Braces, Excess, ExcessOf, Behind
  <2>2. pos \in Nat /\ base \in Nat
    <3>1. css \in Seq(CssPiece) /\ pos \in 0 .. Len(css) /\ base \in Nat
      BY DEF CssInv, CssTypes
    <3>2. Len(css) \in Nat
      BY <3>1
    <3> QED
      BY <3>1, <3>2
  <2>3. indentLevel = DepthOf(css, pos) /\ IsExcess(css, pos, base - indentLevel)
    BY DEF CssInv, Level
  <2>4. DepthOf(css, pos) \in Int
    BY <2>2, DepthStep
  <2>5. ExcessOf(css, pos) = base - indentLevel
    BY <2>2, <2>3, <2>4, ExcessIs
  <2>6. base = DepthOf(css, pos) + ExcessOf(css, pos)
    BY <2>2, <2>3, <2>4, <2>5
  <2>7. \A o \in 1 .. Len(output) : output[o].k = "indent" =>
            \E n \in 1 .. pos : output[o].n = DepthOf(css, n) + ExcessOf(css, n)
    BY PiecesAre DEF Bases
  <2> QED
    BY <2>1, <2>3, <2>6, <2>7 DEF IndentMatchesBraces
<1> QED
  BY <1>1, CssInvHolds, PTL

\* In every sheet comments to the end of the line end there, and white space is dropped and
\* put in only at the places named: behind the colon of a selector none is, unless a text
\* with a ; or a ) in it hides the block that follows (beautify-css.js 181-199, 219-444).
THEOREM WhiteSpaceOfEverySheet == CssSpec => []WhiteSpaceOfSheets
<1>1. CssInv => WhiteSpaceOfSheets
  <2> SUFFICES ASSUME CssInv PROVE WhiteSpaceOfSheets
    OBVIOUS
  <2>1. output \in Seq(SheetPiece) /\ Len(output) \in Nat
    BY PiecesAre
  <2>2. \E k \in 0 .. Len(output) :
            /\ \A o \in Pushed : o \in 1 .. k /\ IsToken(output, o)
            /\ WordsApart(css, output, k)
            /\ \A o \in 1 .. k : IsToken(output, o) /\ css[output[o].n].t = "//" =>
                   IF o < Len(output) THEN output[o + 1] = Newline ELSE finished
    <3>1. ASSUME finished
          PROVE  /\ \A o \in Pushed : o \in 1 .. Len(output) /\ IsToken(output, o)
                 /\ WordsApart(css, output, Len(output))
                 /\ \A o \in 1 .. Len(output) : IsToken(output, o) /\ css[output[o].n].t = "//" =>
                        IF o < Len(output) THEN output[o + 1] = Newline ELSE finished
      <4>1. Answered(css, output, pos)
        BY <3>1 DEF CssInv
      <4> QED
        BY <3>1, <4>1, <2>1 DEF Answered, Pushed, IsToken
    <3>2. ASSUME ~finished
          PROVE  \E k \in 0 .. Len(output) :
                     /\ \A o \in Pushed : o \in 1 .. k /\ IsToken(output, o)
                     /\ WordsApart(css, output, k)
                     /\ CommentsEnd(css, output, k)
      <4>1. PICK k \in Nat : PrintedSheet(css, output, pos, k)
        BY <3>2 DEF CssInv
      <4>2. Ends(output, k, Bases(css, pos)) /\ Bases(css, pos) \in SUBSET Nat
        BY <4>1 DEF PrintedSheet, CssInv, Level
      <4>3. k \in 0 .. Len(output)
        BY <4>2 DEF Ends
      <4>4. \A o \in 1 .. Len(output) : o \in 1 .. k \/ o \in k + 1 .. Len(output)
        BY <2>1, <4>3
      <4>5. \A o \in k + 1 .. Len(output) : output[o].k # "token"
        BY <4>2, GapIs DEF Ends
      <4>6. \A o \in Pushed : o \in 1 .. k /\ IsToken(output, o)
        BY <4>4, <4>5 DEF Pushed, IsToken
      <4> QED
        BY <4>1, <4>3, <4>6 DEF PrintedSheet
    <3>3. Len(output) \in 0 .. Len(output)
      BY <2>1
    <3> QED
      BY <3>1, <3>2, <3>3 DEF CommentsEnd
  <2>3. PICK k \in 0 .. Len(output) :
            /\ \A o \in Pushed : o \in 1 .. k /\ IsToken(output, o)
            /\ WordsApart(css, output, k)
            /\ \A o \in 1 .. k : IsToken(output, o) /\ css[output[o].n].t = "//" =>
                   IF o < Len(output) THEN output[o + 1] = Newline ELSE finished
    BY <2>2
  <2>4. \A q \in 1 .. k : IsToken(output, q) => q \in Pushed
    BY <2>1 DEF Pushed, IsToken
  <2>5. ASSUME NEW o \in Pushed, NEW p \in Pushed, Neighbours(o, p)
        PROVE  Parted(css, output[o].n, output[p].n, p > o + 1)
    <3>1. o < p /\ \A q \in 1 .. k : IsToken(output, q) => q <= o \/ q >= p
      BY <2>4, <2>5 DEF Neighbours
    <3> QED
      BY <2>3, <3>1 DEF WordsApart
  <2>6. ASSUME NEW o \in Pushed, NEW p \in Pushed, Neighbours(o, p), p = o + 1
        PROVE  ~(p > o + 1)
    <3>1. o \in Nat
      BY <2>1 DEF Pushed
    <3> QED
      BY <2>6, <3>1
  <2>7. ASSUME NEW o \in Pushed, NEW p \in Pushed, Neighbours(o, p)
        PROVE  /\ PartedInSource(p) /\ p = o + 1 => DroppedBetween(o, p)
               /\ ~PartedInSource(p) /\ p > o + 1 => PutBetween(o, p)
    <3>1. Parted(css, output[o].n, output[p].n, p > o + 1)
      BY <2>5, <2>7
    <3>2. PartedInSource(p) /\ p = o + 1 => DroppedBetween(o, p)
      BY <2>6, <2>7, <3>1 DEF Parted, PartedInSource, DroppedBetween, Type
    <3>3. PutsBehind(css, output[o].n) => PutBetween(o, p)
      BY CharactersAre DEF PutsBehind, PutBetween, Type
    <3>4. ~PartedInSource(p) /\ p > o + 1 => PutBetween(o, p)
      BY <3>1, <3>3 DEF Parted, PartedInSource, PutBetween, Type
    <3> QED
      BY <3>2, <3>4
  <2>8. \A o \in Pushed : Type(o) = "//" =>
            IF o < Len(output) THEN output[o + 1] = Newline ELSE finished
    BY <2>3 DEF Type
  <2> QED
    BY <2>7, <2>8 DEF WhiteSpaceOfSheets
<1> QED
  BY <1>1, CssInvHolds, PTL

-----------------------------------------------------------------------------
(* Recursive functions.                                                    *)

OpenIs(f, m) == f = [n \in 0 .. m |-> IF n = 0 THEN <<>> ELSE OpenAfter(f[n - 1], n)]

\* OpenBehind's recursion defines it.
LEMMA OpenBehindIs ==
    ASSUME Len(html) \in Nat
    PROVE  /\ OpenBehind[0] = <<>>
           /\ \A n \in 1 .. Len(html) : OpenBehind[n] = OpenAfter(OpenBehind[n - 1], n)
<1> DEFINE Bad == {k \in Nat : ~\E f : OpenIs(f, k)}
<1>1. Bad = {}
  <2> SUFFICES ASSUME Bad # {} PROVE FALSE
    OBVIOUS
  <2>1. PICK k \in Bad : \A j \in Bad : k <= j
    BY LeastNumber, Bad \subseteq Nat
  <2>2. k # 0
    <3> DEFINE g == [n \in 0 .. 0 |-> <<>>]
    <3>1. OpenIs(g, 0)
      BY DEF OpenIs
    <3> QED
      BY <3>1, <2>1
  <2>3. k - 1 \in Nat /\ k - 1 \notin Bad
    BY <2>1, <2>2
  <2>4. PICK f : OpenIs(f, k - 1)
    BY <2>3
  <2> DEFINE g == [n \in 0 .. k |-> IF n = k THEN OpenAfter(f[k - 1], k) ELSE f[n]]
  <2>5. OpenIs(g, k)
    BY <2>1, <2>2, <2>3, <2>4 DEF OpenIs
  <2> QED
    BY <2>5, <2>1
<1>2. OpenIs(OpenBehind, Len(html))
  BY <1>1 DEF OpenBehind, OpenIs
<1> QED
  BY <1>2 DEF OpenIs

TextStep(t, n) == t \o (IF WhiteBefore(n) = NoWhite THEN <<>> ELSE <<HtmlBlank>>)
                    \o (IF html[n].t = "text" THEN <<PieceAt(n)>> ELSE <<>>)
TextIs(f, m) == f = [n \in read .. m |-> IF n = read THEN <<>> ELSE TextStep(f[n - 1], n)]

\* ContentTo's recursion defines it.
LEMMA ContentToIs ==
    ASSUME Len(html) \in Nat, read \in 0 .. Len(html)
    PROVE  /\ ContentTo[read] = <<>>
           /\ \A n \in read + 1 .. Len(html) : ContentTo[n] = TextStep(ContentTo[n - 1], n)
<1> DEFINE Bad == {k \in Nat : k >= read /\ ~\E f : TextIs(f, k)}
<1>1. Bad = {}
  <2> SUFFICES ASSUME Bad # {} PROVE FALSE
    OBVIOUS
  <2>1. PICK k \in Bad : \A j \in Bad : k <= j
    BY LeastNumber, Bad \subseteq Nat
  <2>2. k # read
    <3> DEFINE g == [n \in read .. read |-> <<>>]
    <3>1. TextIs(g, read)
      BY DEF TextIs
    <3> QED
      BY <3>1, <2>1
  <2>3. k - 1 \in Nat /\ k - 1 >= read /\ k - 1 \notin Bad
    BY <2>1, <2>2
  <2>4. PICK f : TextIs(f, k - 1)
    BY <2>3
  <2> DEFINE g == [n \in read .. k |-> IF n = k THEN TextStep(f[k - 1], k) ELSE f[n]]
  <2>5. TextIs(g, k)
    <3>1. read \in Nat /\ k \in Nat /\ read < k
      BY <2>1, <2>2
    <3>2. /\ f[read] = <<>>
          /\ \A n \in read + 1 .. k - 1 : f[n] = TextStep(f[n - 1], n)
      BY <2>4, <3>1 DEF TextIs
    <3>3. \A n \in read .. k : g[n] = IF n = read THEN <<>> ELSE TextStep(g[n - 1], n)
      <4>1. \A n \in read .. k - 1 : g[n] = f[n]
        BY <3>1
      <4>2. g[k] = TextStep(f[k - 1], k)
        BY <3>1
      <4> HIDE DEF g
      <4> TAKE n \in read .. k
      <4>3. CASE n = k
        BY <3>1, <4>1, <4>2, <4>3
      <4>4. CASE n # k
        BY <3>1, <3>2, <4>1, <4>4
      <4> QED
        BY <4>3, <4>4
    <3> HIDE DEF g
    <3>4. g = [n \in read .. k |-> g[n]]
      BY DEF g
    <3> QED
      BY <3>3, <3>4 DEF TextIs
  <2> QED
    BY <2>5, <2>1
<1>2. TextIs(ContentTo, Len(html))
  <2>1. \E f : TextIs(f, Len(html))
    BY <1>1
  <2> QED
    BY <2>1 DEF ContentTo, TextIs, TextStep
<1> QED
  BY <1>2 DEF TextIs
-----------------------------------------------------------------------------
(* The outputs of HtmlBeautify.                                            *)

HtmlKinds == {"piece", "blank", "newline", "indent"}
HtmlOut   == Seq([k : HtmlKinds, n : Int])
HtmlWhite == Seq([k : {"blank", "newline", "indent"}, n : Int])

\* Piece r is the last that is printed, and nothing is behind it.
LastPiece(o, r) == \E i \in DOMAIN o : /\ o[i].k = "piece" /\ o[i].n = r
                                       /\ \A m \in i + 1 .. Len(o) : o[m].k # "piece"
Tight(o) == EndsIn(o, "piece")

\* What IndentShowsNesting says of an output.
LinesIndented(o) ==
    \A i \in DOMAIN o :
        o[i].k = "piece" /\ html[o[i].n].t # "code" /\ i > 1 /\ o[i - 1].k \in {"newline", "indent"} =>
            Nesting(o[i].n) = IF o[i - 1].k = "indent" THEN o[i - 1].n ELSE 0

\* What LinesMeanTheSame says of piece b behind piece a, white space parting them or not.
MayPart(a, b) == \/ a = 1 /\ html[1].white > 0
                 \/ /\ html[a].t = "text" /\ html[b].t = "inline"
                    /\ \E m \in 1 .. a : /\ html[m].white > 0
                                         /\ \A k \in m .. a : html[k].t = "text"
PiecesParted(a, b, white) ==
    html[a].t \in {"text", "inline"} /\ html[b].t \in {"text", "inline"} =>
        IF html[b].white # NoWhite THEN white ELSE white => MayPart(a, b)
LinesKept(o) ==
    \A i, j \in DOMAIN o :
        /\ o[i].k = "piece" /\ o[j].k = "piece"
        /\ i < j /\ \A m \in i + 1 .. j - 1 : o[m].k # "piece"
        => PiecesParted(o[i].n, o[j].n, j > i + 1)

\* The pieces from a to b are printed, each once and one behind the other.
InTurn(o, a, b) ==
    /\ \A i \in DOMAIN o : o[i].k = "piece" => o[i].n \in a .. b
    /\ \A n \in a .. b : \E i \in DOMAIN o : o[i].k = "piece" /\ o[i].n = n
    /\ \A i, j \in DOMAIN o : o[i].k = "piece" /\ o[j].k = "piece" /\ i < j => o[i].n < o[j].n

\* What printing white space keeps of an output.
OutKept(o, q) ==
    /\ q \in HtmlOut
    /\ LinesIndented(o) => LinesIndented(q)
    /\ LinesKept(o) => LinesKept(q)
    /\ \A a, b \in Nat : InTurn(o, a, b) => InTurn(q, a, b)
    /\ \A r \in Nat : LastPiece(o, r) => LastPiece(q, r)
    /\ q = <<>> <=> o = <<>>

\* The items are outputs.
LEMMA ItemsAreOut ==
    /\ <<>> \in HtmlOut /\ <<HtmlBlank>> \in HtmlWhite /\ <<HtmlNewline>> \in HtmlWhite
    /\ \A m \in Nat : <<PieceAt(m)>> \in HtmlOut
    /\ \A l \in Nat : HtmlIndent(l) \in HtmlWhite
    /\ \A w \in HtmlWhite : w \in HtmlOut
<1>1. <<>> \in HtmlOut /\ <<>> \in HtmlWhite
  BY DEF HtmlOut, HtmlWhite
<1>2. <<HtmlBlank>> \in HtmlWhite /\ <<HtmlNewline>> \in HtmlWhite
  <2>1. /\ HtmlBlank \in [k : {"blank", "newline", "indent"}, n : Int]
        /\ HtmlNewline \in [k : {"blank", "newline", "indent"}, n : Int]
    BY DEF HtmlBlank, HtmlNewline
  <2> QED
    BY <2>1 DEF HtmlWhite
<1>3. ASSUME NEW m \in Nat PROVE <<PieceAt(m)>> \in HtmlOut
  <2>1. PieceAt(m) \in [k : HtmlKinds, n : Int]
    BY DEF PieceAt, HtmlKinds
  <2> QED
    BY <2>1 DEF HtmlOut
<1>4. ASSUME NEW l \in Nat PROVE HtmlIndent(l) \in HtmlWhite
  <2>1. [k |-> "indent", n |-> l] \in [k : {"blank", "newline", "indent"}, n : Int]
    OBVIOUS
  <2>2. <<[k |-> "indent", n |-> l]>> \in HtmlWhite
    BY <2>1, OneItem DEF HtmlWhite
  <2> QED
    BY <1>1, <2>2 DEF HtmlIndent, Levels
<1>5. ASSUME NEW w \in HtmlWhite PROVE w \in HtmlOut
  <2> DEFINE W == [k : {"blank", "newline", "indent"}, n : Int]
             O == [k : HtmlKinds, n : Int]
  <2>1. \A e \in W : e \in O
    BY DEF HtmlKinds
  <2>2. w \in Seq(W) => w \in Seq(O)
    <3> HIDE DEF W, O
    <3> QED
      BY <2>1
  <2> QED
    BY <2>2 DEF HtmlOut, HtmlWhite
<1> QED
  BY <1>1, <1>2, <1>3, <1>4, <1>5

\* An output one item shorter.
LEMMA FrontOfOut ==
    ASSUME NEW o \in HtmlOut, o # <<>>
    PROVE  /\ Front(o) \in HtmlOut /\ Len(Front(o)) = Len(o) - 1
           /\ \A i \in 1 .. Len(o) - 1 : Front(o)[i] = o[i]
<1> DEFINE O == [k : HtmlKinds, n : Int]
<1>1. o \in Seq(O)
  BY DEF HtmlOut
<1> HIDE DEF O
<1>2. Len(o) \in Nat /\ Len(o) > 0 /\ \A i \in 1 .. Len(o) : o[i] \in O
  BY <1>1
<1> DEFINE m == Len(o) - 1
           q == SubSeq(o, 1, m)
<1>3. /\ q \in Seq(O) /\ Len(q) = IF 1 <= m THEN m - 1 + 1 ELSE 0
      /\ \A i \in 1 .. m - 1 + 1 : q[i] = o[1 + i - 1]
  <2>1. 1 \in Int /\ m \in Int /\ \A i \in 1 .. m : o[i] \in O
    BY <1>2
  <2> HIDE DEF m
  <2> QED
    BY <2>1, SubSeqProperties
<1>4. q \in Seq(O) /\ Len(q) = m /\ \A i \in 1 .. m : q[i] = o[i]
  <2>1. m \in Nat
    BY <1>2
  <2> HIDE DEF m, q
  <2> QED
    BY <1>3, <2>1
<1> QED
  BY <1>4 DEF HtmlOut, Front, O

\* One output behind another.
LEMMA ConcatOut ==
    ASSUME NEW o \in HtmlOut, NEW q \in HtmlOut
    PROVE  /\ o \o q \in HtmlOut /\ Len(o \o q) = Len(o) + Len(q)
           /\ \A i \in 1 .. Len(o) : (o \o q)[i] = o[i]
           /\ \A i \in Len(o) + 1 .. Len(o) + Len(q) : (o \o q)[i] = q[i - Len(o)]
           /\ \A i \in 1 .. Len(q) : (o \o q)[Len(o) + i] = q[i]
           /\ o \o q = <<>> <=> o = <<>> /\ q = <<>>
<1>1. o \in Seq([k : HtmlKinds, n : Int]) /\ q \in Seq([k : HtmlKinds, n : Int])
  BY DEF HtmlOut
<1> QED
  BY <1>1 DEF HtmlOut

\* Items of an output, by their kind and number.
LEMMA OutItem ==
    ASSUME NEW o \in HtmlOut, NEW i \in 1 .. Len(o)
    PROVE  /\ o[i] \in [k : HtmlKinds, n : Int] /\ Len(o) \in Nat /\ DOMAIN o = 1 .. Len(o)
           /\ o[i].k \in HtmlKinds /\ o[i].n \in Int
<1>1. o[i] \in [k : HtmlKinds, n : Int] /\ Len(o) \in Nat /\ DOMAIN o = 1 .. Len(o)
  BY SeqItems DEF HtmlOut
<1> QED
  BY <1>1

\* White space behind an output keeps it.
LEMMA WhiteKeeps ==
    ASSUME NEW o \in HtmlOut, o # <<>>, NEW w \in HtmlWhite
    PROVE  OutKept(o, o \o w)
<1> DEFINE q == o \o w
<1>1. /\ q \in HtmlOut /\ Len(q) = Len(o) + Len(w) /\ DOMAIN q = 1 .. Len(q) /\ DOMAIN o = 1 .. Len(o)
      /\ Len(o) \in Nat /\ Len(w) \in Nat /\ q # <<>>
      /\ \A i \in 1 .. Len(o) : q[i] = o[i]
      /\ \A i \in Len(o) + 1 .. Len(q) : q[i] = w[i - Len(o)]
  <2>1. w \in HtmlOut
    BY ItemsAreOut
  <2>2. Len(o) \in Nat /\ Len(w) \in Nat /\ DOMAIN o = 1 .. Len(o)
    BY <2>1 DEF HtmlOut
  <2>3. q \in HtmlOut => DOMAIN q = 1 .. Len(q)
    BY DEF HtmlOut
  <2> QED
    BY <2>1, <2>2, <2>3, ConcatOut
<1>2. \A i \in Len(o) + 1 .. Len(q) : q[i].k # "piece"
  <2>1. \A i \in 1 .. Len(w) : w[i].k # "piece"
    <3>1. \A i \in 1 .. Len(w) : w[i] \in [k : {"blank", "newline", "indent"}, n : Int]
      BY SeqItems DEF HtmlWhite
    <3> QED
      BY <3>1
  <2> QED
    BY <1>1, <2>1
<1> HIDE DEF q
<1>3. LinesIndented(o) => LinesIndented(q)
  BY <1>1, <1>2 DEF LinesIndented
<1>4. LinesKept(o) => LinesKept(q)
  <2> SUFFICES ASSUME LinesKept(o), NEW i \in DOMAIN q, NEW j \in DOMAIN q,
                      q[i].k = "piece", q[j].k = "piece", i < j,
                      \A m \in i + 1 .. j - 1 : q[m].k # "piece"
               PROVE  PiecesParted(q[i].n, q[j].n, j > i + 1)
    BY DEF LinesKept
  <2>1. i \in DOMAIN o /\ j \in DOMAIN o /\ q[i] = o[i] /\ q[j] = o[j]
    BY <1>1, <1>2
  <2>2. \A m \in i + 1 .. j - 1 : o[m].k # "piece"
    BY <1>1, <2>1
  <2> QED
    BY <2>1, <2>2 DEF LinesKept
<1>5. \A r \in Nat : LastPiece(o, r) => LastPiece(q, r)
  <2> SUFFICES ASSUME NEW r \in Nat, LastPiece(o, r) PROVE LastPiece(q, r)
    OBVIOUS
  <2>1. PICK i \in DOMAIN o : /\ o[i].k = "piece" /\ o[i].n = r
                              /\ \A m \in i + 1 .. Len(o) : o[m].k # "piece"
    BY DEF LastPiece
  <2>2. \A m \in i + 1 .. Len(q) : q[m].k # "piece"
    BY <1>1, <1>2, <2>1
  <2> QED
    BY <1>1, <2>1, <2>2 DEF LastPiece
<1>6. \A a, b \in Nat : InTurn(o, a, b) => InTurn(q, a, b)
  <2> SUFFICES ASSUME NEW a \in Nat, NEW b \in Nat, InTurn(o, a, b) PROVE InTurn(q, a, b)
    OBVIOUS
  <2>1. \A i \in DOMAIN q : q[i].k = "piece" => i \in DOMAIN o /\ q[i] = o[i]
    BY <1>1, <1>2
  <2>2. \A i \in DOMAIN o : i \in DOMAIN q /\ q[i] = o[i]
    BY <1>1
  <2> QED
    BY <2>1, <2>2 DEF InTurn
<1> QED
  BY <1>1, <1>3, <1>4, <1>5, <1>6 DEF OutKept, q

\* rtrim takes the blank at the end, or empties a level of the indentation there.
LEMMA RTrimIs ==
    ASSUME NEW o \in HtmlOut, EndsIn(o, "blank") \/ EndsIn(o, "indent")
    PROVE  /\ o # <<>> /\ o[Len(o)].k # "piece" /\ Len(o) \in Nat /\ Len(o) > 0 /\ DOMAIN o = 1 .. Len(o)
           /\ RTrim(o) \in HtmlOut /\ DOMAIN RTrim(o) = 1 .. Len(RTrim(o)) /\ Len(RTrim(o)) \in Nat
           /\ Len(o) - 1 <= Len(RTrim(o)) /\ \A i \in 1 .. Len(o) - 1 : RTrim(o)[i] = o[i]
           /\ \A i \in 1 .. Len(RTrim(o)) : RTrim(o)[i].k = "piece" => i <= Len(o) - 1
<1>1. o # <<>> /\ o[Len(o)].k # "piece"
  BY DEF EndsIn
<1>2. Len(o) \in Nat /\ Len(o) > 0 /\ DOMAIN o = 1 .. Len(o)
  BY <1>1, SeqItems DEF HtmlOut
<1> DEFINE f == Front(o)
<1>3. f \in HtmlOut /\ Len(f) = Len(o) - 1 /\ \A i \in 1 .. Len(o) - 1 : f[i] = o[i]
  BY <1>1, FrontOfOut
<1> HIDE DEF f
<1>4. f \in Seq([k : HtmlKinds, n : Int]) /\ DOMAIN f = 1 .. Len(f) /\ Len(f) \in Nat
  BY <1>3, SeqItems DEF HtmlOut
<1>5. CASE EndsIn(o, "blank")
  <2>1. RTrim(o) = f
    BY <1>5 DEF RTrim, f
  <2>2. Len(o) - 1 <= Len(f) /\ \A i \in 1 .. Len(f) : i <= Len(o) - 1
    BY <1>2, <1>3
  <2> QED
    BY <1>1, <1>2, <1>3, <1>4, <2>1, <2>2
<1>6. CASE ~EndsIn(o, "blank")
  <2> DEFINE e == Levels(Last(o).n - 1)
             q == Append(f, e)
  <2>1. RTrim(o) = q
    BY <1>6 DEF RTrim, f
  <2>2. e \in [k : HtmlKinds, n : Int] /\ e.k # "piece"
    <3>1. Last(o).n \in Int
      BY <1>2, OutItem DEF Last
    <3> QED
      BY <3>1 DEF Levels, HtmlKinds
  <2> HIDE DEF e
  <2>3. /\ q \in HtmlOut /\ Len(q) = Len(f) + 1 /\ q[Len(f) + 1] = e
        /\ \A i \in 1 .. Len(f) : q[i] = f[i]
    BY <1>4, <2>2, AppendProperties DEF HtmlOut
  <2> HIDE DEF q
  <2>4. DOMAIN q = 1 .. Len(q)
    BY <2>3, SeqItems DEF HtmlOut
  <2> QED
    BY <1>1, <1>2, <1>3, <1>4, <2>1, <2>2, <2>3, <2>4
<1> QED
  BY <1>5, <1>6

\* A trimmed output is kept too, but for one of white space only.
LEMMA RTrimKeeps ==
    ASSUME NEW o \in HtmlOut, NEW r \in Nat, LastPiece(o, r)
    PROVE  /\ OutKept(o, RTrim(o)) /\ RTrim(o) # <<>>
<1>1. CASE EndsIn(o, "blank") \/ EndsIn(o, "indent")
  <2> DEFINE q == RTrim(o)
  <2>1. /\ o # <<>> /\ o[Len(o)].k # "piece" /\ Len(o) \in Nat /\ Len(o) > 0 /\ DOMAIN o = 1 .. Len(o)
        /\ q \in HtmlOut /\ DOMAIN q = 1 .. Len(q) /\ Len(q) \in Nat
        /\ Len(o) - 1 <= Len(q) /\ \A i \in 1 .. Len(o) - 1 : q[i] = o[i]
        /\ \A i \in 1 .. Len(q) : q[i].k = "piece" => i <= Len(o) - 1
    BY <1>1, RTrimIs
  <2>2. /\ \A i \in DOMAIN q : q[i].k = "piece" => i \in DOMAIN o /\ o[i] = q[i]
        /\ \A i \in DOMAIN o : o[i].k = "piece" => i \in DOMAIN q /\ q[i] = o[i]
        /\ \A i \in DOMAIN o : i < Len(o) => i \in DOMAIN q /\ q[i] = o[i]
    BY <2>1
  <2> HIDE DEF q
  <2>3. LinesIndented(o) => LinesIndented(q)
    <3> SUFFICES ASSUME LinesIndented(o), NEW i \in DOMAIN q, q[i].k = "piece", html[q[i].n].t # "code",
                        i > 1, q[i - 1].k \in {"newline", "indent"}
                 PROVE  Nesting(q[i].n) = IF q[i - 1].k = "indent" THEN q[i - 1].n ELSE 0
      BY DEF LinesIndented
    <3>1. i \in DOMAIN o /\ o[i] = q[i] /\ o[i - 1] = q[i - 1]
      BY <2>1, <2>2
    <3> QED
      BY <3>1 DEF LinesIndented
  <2>4. LinesKept(o) => LinesKept(q)
    <3> SUFFICES ASSUME LinesKept(o), NEW i \in DOMAIN q, NEW j \in DOMAIN q,
                        q[i].k = "piece", q[j].k = "piece", i < j,
                        \A m \in i + 1 .. j - 1 : q[m].k # "piece"
                 PROVE  PiecesParted(q[i].n, q[j].n, j > i + 1)
      BY DEF LinesKept
    <3>1. i \in DOMAIN o /\ j \in DOMAIN o /\ q[i] = o[i] /\ q[j] = o[j]
      BY <2>2
    <3>2. \A m \in i + 1 .. j - 1 : o[m].k # "piece"
      BY <2>1, <2>2, <3>1
    <3> QED
      BY <3>1, <3>2 DEF LinesKept
  <2>5. \A x \in Nat : LastPiece(o, x) => LastPiece(q, x)
    <3> SUFFICES ASSUME NEW x \in Nat, LastPiece(o, x) PROVE LastPiece(q, x)
      OBVIOUS
    <3>1. PICK i \in DOMAIN o : /\ o[i].k = "piece" /\ o[i].n = x
                                /\ \A m \in i + 1 .. Len(o) : o[m].k # "piece"
      BY DEF LastPiece
    <3>2. \A m \in i + 1 .. Len(q) : q[m].k # "piece"
      BY <2>1, <2>2, <3>1
    <3> QED
      BY <2>2, <3>1, <3>2 DEF LastPiece
  <2>6. q # <<>> /\ o # <<>>
    <3>1. \E i \in DOMAIN q : TRUE
      BY <2>5 DEF LastPiece
    <3> QED
      BY <2>1, <3>1
  <2>7. \A a, b \in Nat : InTurn(o, a, b) => InTurn(q, a, b)
    BY <2>2 DEF InTurn
  <2> QED
    BY <2>1, <2>3, <2>4, <2>5, <2>6, <2>7 DEF OutKept, q
<1>2. CASE ~(EndsIn(o, "blank") \/ EndsIn(o, "indent"))
  BY <1>2 DEF RTrim, OutKept, LastPiece
<1> QED
  BY <1>1, <1>2

\* What is kept twice is kept.
LEMMA KeptTwice ==
    ASSUME NEW o, NEW q, NEW s, OutKept(o, q), OutKept(q, s)
    PROVE  OutKept(o, s)
  BY DEF OutKept
\* An output keeps itself.
LEMMA KeptAsIs ==
    ASSUME NEW o \in HtmlOut
    PROVE  OutKept(o, o)
  BY DEF OutKept

\* An output that is empty or has a piece in it.
Begun(o) == o = <<>> \/ \E r \in Nat : LastPiece(o, r)

\* One or more newlines behind an output.
LEMMA NewlineBehind ==
    ASSUME NEW o \in HtmlOut, o # <<>>
    PROVE  /\ OutKept(o, Append(o, HtmlNewline)) /\ EndsIn(Append(o, HtmlNewline), "newline")
<1>1. Append(o, HtmlNewline) = o \o <<HtmlNewline>>
  BY AppendIsConcat, HtmlNewline \in [k : HtmlKinds, n : Int] DEF HtmlOut, HtmlNewline, HtmlKinds
<1>2. OutKept(o, Append(o, HtmlNewline))
  BY <1>1, WhiteKeeps, ItemsAreOut
<1>3. EndsIn(Append(o, HtmlNewline), "newline")
  <2>1. HtmlNewline \in [k : HtmlKinds, n : Int] /\ HtmlNewline.k = "newline"
    BY DEF HtmlNewline, HtmlKinds
  <2> HIDE DEF HtmlNewline
  <2>2. /\ Append(o, HtmlNewline) # <<>> /\ Len(Append(o, HtmlNewline)) = Len(o) + 1
        /\ Append(o, HtmlNewline)[Len(o) + 1] = HtmlNewline
    BY <2>1, AppendProperties DEF HtmlOut
  <2> QED
    BY <2>1, <2>2 DEF EndsIn
<1> QED
  BY <1>2, <1>3
\* print_newline puts a newline behind the output, or leaves it (beautify-html.js 761-779).
LEMMA PrintNewlineIs ==
    ASSUME NEW o \in HtmlOut, Begun(o), NEW force \in BOOLEAN
    PROVE  /\ OutKept(o, PrintNewline(o, force)) /\ Begun(PrintNewline(o, force))
           /\ o # <<>> => EndsIn(PrintNewline(o, force), "newline")
<1>1. CASE o = <<>> \/ (~force /\ EndsIn(o, "newline"))
  BY <1>1, KeptAsIs DEF PrintNewline
<1>2. CASE o # <<>> /\ ~(~force /\ EndsIn(o, "newline"))
  <2>1. PICK r \in Nat : LastPiece(o, r)
    BY <1>2 DEF Begun
  <2> DEFINE x == IF EndsIn(o, "newline") THEN o ELSE RTrim(o)
  <2>2. OutKept(o, x) /\ x # <<>>
    BY <1>2, <2>1, RTrimKeeps, KeptAsIs
  <2>3. PrintNewline(o, force) = Append(x, HtmlNewline)
    BY <1>2 DEF PrintNewline
  <2> HIDE DEF x
  <2>4. OutKept(x, Append(x, HtmlNewline)) /\ EndsIn(Append(x, HtmlNewline), "newline")
    BY <2>2, NewlineBehind DEF OutKept
  <2>5. OutKept(o, Append(x, HtmlNewline))
    BY <2>2, <2>4, KeptTwice
  <2>6. LastPiece(Append(x, HtmlNewline), r)
    BY <2>1, <2>5 DEF OutKept
  <2> QED
    BY <2>3, <2>4, <2>5, <2>6 DEF Begun
<1> QED
  BY <1>1, <1>2
\* The empty line kept in front of a tag or a text.
LEMMA ExtraLineIs ==
    ASSUME NEW o \in HtmlOut, Begun(o), NEW liner \in BOOLEAN
    PROVE  /\ OutKept(o, ExtraLine(o, liner)) /\ Begun(ExtraLine(o, liner))
           /\ ExtraLine(o, liner) = o \/ EndsIn(ExtraLine(o, liner), "newline")
<1>1. CASE ~liner
  BY <1>1, KeptAsIs DEF ExtraLine
<1>2. CASE liner /\ o = <<>>
  <2>1. PrintNewline(o, FALSE) = o /\ PrintNewline(o, TRUE) = o
    BY <1>2 DEF PrintNewline
  <2>2. ExtraLine(o, liner) = o
    BY <1>2, <2>1 DEF ExtraLine
  <2> QED
    BY <2>2, KeptAsIs
<1>3. CASE liner /\ o # <<>>
  <2> DEFINE p == PrintNewline(o, FALSE)
             q == PrintNewline(p, TRUE)
  <2>1. OutKept(o, p) /\ Begun(p) /\ EndsIn(p, "newline") /\ p \in HtmlOut /\ p # <<>>
    BY <1>3, PrintNewlineIs DEF OutKept
  <2>2. OutKept(p, q) /\ Begun(q) /\ EndsIn(q, "newline")
    BY <2>1, PrintNewlineIs
  <2>3. ExtraLine(o, liner) = p \/ ExtraLine(o, liner) = q
    BY <1>3 DEF ExtraLine
  <2> HIDE DEF p, q
  <2>4. OutKept(o, q)
    BY <2>1, <2>2, KeptTwice
  <2> QED
    BY <2>1, <2>2, <2>3, <2>4
<1> QED
  BY <1>1, <1>2, <1>3
\* n newlines, one print_newline each.
LEMMA PrintNewlinesIs ==
    ASSUME NEW o \in HtmlOut, Begun(o), NEW n \in Nat
    PROVE  /\ OutKept(o, PrintNewlines(o, n)) /\ Begun(PrintNewlines(o, n))
           /\ n = 0 => PrintNewlines(o, n) = o
           /\ n > 0 /\ o # <<>> => EndsIn(PrintNewlines(o, n), "newline")
<1>1. CASE n = 0 \/ o = <<>>
  <2>1. PrintNewlines(o, n) = o
    BY <1>1, Zenon DEF PrintNewlines
  <2>2. ~(n > 0 /\ o # <<>>)
    BY <1>1
  <2> QED
    BY <2>1, <2>2, KeptAsIs
<1>2. CASE n > 0 /\ o # <<>>
  <2> DEFINE p == PrintNewline(o, FALSE)
             w == [m \in 1 .. n - 1 |-> HtmlNewline]
  <2>1. OutKept(o, p) /\ Begun(p) /\ EndsIn(p, "newline") /\ p \in HtmlOut /\ p # <<>>
    BY <1>2, PrintNewlineIs DEF OutKept
  <2>2. w \in HtmlWhite /\ Len(w) = n - 1 /\ \A m \in 1 .. n - 1 : w[m].k = "newline"
    <3>1. HtmlNewline \in [k : {"blank", "newline", "indent"}, n : Int] /\ HtmlNewline.k = "newline"
      BY DEF HtmlNewline
    <3> HIDE DEF HtmlNewline
    <3>2. n - 1 \in Nat
      BY <1>2
    <3>3. w \in Seq([k : {"blank", "newline", "indent"}, n : Int]) /\ Len(w) = n - 1
      BY <3>1, <3>2
    <3> QED
      BY <3>1, <3>3 DEF HtmlWhite
  <2>3. PrintNewlines(o, n) = p \o w
    <3>1. ~(n = 0 \/ o = <<>>)
      BY <1>2
    <3> QED
      BY <3>1, Zenon DEF PrintNewlines
  <2> HIDE DEF p, w
  <2>4. OutKept(p, p \o w)
    BY <2>1, <2>2, WhiteKeeps
  <2>5. OutKept(o, p \o w)
    BY <2>1, <2>4, KeptTwice
  <2>6. EndsIn(p \o w, "newline")
    <3>1. w \in HtmlOut /\ Len(p) \in Nat
      BY <2>1, <2>2, ItemsAreOut, SeqItems DEF HtmlOut
    <3>2. /\ p \o w # <<>> /\ Len(p \o w) = Len(p) + Len(w)
          /\ \A i \in 1 .. Len(p) : (p \o w)[i] = p[i]
          /\ \A i \in Len(p) + 1 .. Len(p) + Len(w) : (p \o w)[i] = w[i - Len(p)]
      BY <2>1, <3>1, ConcatOut
    <3>3. Len(p) >= 1
      BY <2>1 DEF HtmlOut
    <3>4. CASE n = 1
      BY <2>1, <2>2, <3>1, <3>2, <3>3, <3>4 DEF EndsIn
    <3>5. CASE n > 1
      <4>1. n - 1 \in 1 .. n - 1 /\ Len(p) + Len(w) \in Len(p) + 1 .. Len(p) + Len(w)
        BY <2>2, <3>1, <3>5
      <4>2. (p \o w)[Len(p) + Len(w)] = w[n - 1]
        BY <2>2, <3>1, <3>2, <4>1
      <4> QED
        BY <2>2, <3>2, <4>1, <4>2 DEF EndsIn
    <3> QED
      BY <1>2, <3>4, <3>5
  <2>7. Begun(p \o w)
    BY <2>1, <2>4 DEF Begun, OutKept
  <2> QED
    BY <1>2, <2>3, <2>5, <2>6, <2>7
<1> QED
  BY <1>1, <1>2

\* The text of a token: words or a tag, from piece a to piece b, with blanks.
Words(text, a, b) ==
    /\ text \in HtmlOut /\ \A i \in DOMAIN text : text[i].k \in {"piece", "blank"}
    /\ \/ text # <<>> /\ text[1].k = "piece" /\ text[1].n = a
       \/ Len(text) > 1 /\ text[1].k = "blank" /\ text[2].k = "piece" /\ text[2].n = a
    /\ LastPiece(text, b) /\ LinesKept(text) /\ InTurn(text, a, b)

\* What a text is put behind: nothing, or piece r; and where that is the beginning of a line.
EndsAt(o, r) == o \in HtmlOut /\ (o = <<>> \/ LastPiece(o, r))
Fits(o, text, a) ==
    text[1].k = "piece" /\ o # <<>> /\ o[Len(o)].k \in {"newline", "indent"} =>
        \/ html[a].t = "code"
        \/ Nesting(a) = IF o[Len(o)].k = "indent" THEN o[Len(o)].n ELSE 0
Parts(o, r, text, a) == o # <<>> => PiecesParted(r, a, ~Tight(o) \/ text[1].k = "blank")

\* A text behind an output.
LEMMA ConcatWords ==
    ASSUME NEW o, NEW r \in Nat, EndsAt(o, r), NEW text, NEW a \in Nat, NEW b \in Nat, Words(text, a, b)
    PROVE  /\ o \o text \in HtmlOut /\ LastPiece(o \o text, b)
           /\ LinesIndented(o) /\ Fits(o, text, a) => LinesIndented(o \o text)
           /\ LinesKept(o) /\ Parts(o, r, text, a) => LinesKept(o \o text)
           /\ \A c \in Nat : InTurn(o, c, r) /\ c <= a /\ a = r + 1 => InTurn(o \o text, c, b)
           /\ (o \o text)[Len(o \o text)] = text[Len(text)] /\ text # <<>> /\ o \o text # <<>>
<1> DEFINE q == o \o text
           L == Len(o)
           M == Len(text)
<1>1. /\ o \in HtmlOut /\ text \in HtmlOut /\ L \in Nat /\ M \in Nat /\ M >= 1
      /\ DOMAIN o = 1 .. L /\ DOMAIN text = 1 .. M /\ Len(o) = L /\ Len(text) = M
  <2>1. o \in HtmlOut /\ text \in HtmlOut
    BY DEF EndsAt, Words
  <2>2. Len(o) \in Nat /\ Len(text) \in Nat /\ DOMAIN o = 1 .. Len(o) /\ DOMAIN text = 1 .. Len(text)
    BY <2>1, SeqItems DEF HtmlOut
  <2>3. \E i \in DOMAIN text : TRUE
    BY DEF Words, LastPiece
  <2> QED
    BY <2>1, <2>2, <2>3
<1>2. /\ q \in HtmlOut /\ Len(q) = L + M /\ DOMAIN q = 1 .. L + M /\ q # <<>> /\ text # <<>>
      /\ \A i \in 1 .. L : q[i] = o[i]
      /\ \A i \in L + 1 .. L + M : q[i] = text[i - L]
      /\ \A i \in 1 .. M : q[L + i] = text[i]
  <2>1. q \in HtmlOut => DOMAIN q = 1 .. Len(q)
    BY SeqItems DEF HtmlOut
  <2>2. text # <<>>
    BY <1>1
  <2> QED
    BY <1>1, <2>1, <2>2, ConcatOut
<1> HIDE DEF q, L, M
<1>3. LastPiece(q, b)
  <2>1. PICK i \in DOMAIN text : /\ text[i].k = "piece" /\ text[i].n = b
                                 /\ \A m \in i + 1 .. M : text[m].k # "piece"
    BY <1>1 DEF Words, LastPiece
  <2>2. i \in 1 .. M
    BY <1>1
  <2>3. L + i \in DOMAIN q /\ q[L + i] = text[i]
    BY <1>1, <1>2, <2>2
  <2>4. ASSUME NEW m \in L + i + 1 .. Len(q) PROVE q[m].k # "piece"
    <3>1. m \in L + 1 .. L + M /\ m - L \in i + 1 .. M
      BY <1>1, <1>2, <2>2
    <3>2. q[m] = text[m - L] /\ text[m - L].k # "piece"
      BY <1>2, <2>1, <3>1
    <3> QED
      BY <3>2
  <2> QED
    BY <2>1, <2>3, <2>4 DEF LastPiece
<1>4. ASSUME LinesIndented(o), Fits(o, text, a) PROVE LinesIndented(q)
  <2> SUFFICES ASSUME NEW i \in DOMAIN q, q[i].k = "piece", html[q[i].n].t # "code", i > 1,
                      q[i - 1].k \in {"newline", "indent"}
               PROVE  Nesting(q[i].n) = IF q[i - 1].k = "indent" THEN q[i - 1].n ELSE 0
    BY DEF LinesIndented
  <2>1. CASE i <= L
    <3>1. i \in DOMAIN o /\ q[i] = o[i] /\ q[i - 1] = o[i - 1]
      BY <1>1, <1>2, <2>1
    <3> QED
      BY <1>4, <3>1 DEF LinesIndented
  <2>2. CASE i = L + 1
    <3>1. q[i] = text[1] /\ q[i - 1] = o[L] /\ o # <<>>
      BY <1>1, <1>2, <2>2
    <3>2. text[1].n = a
      BY <3>1 DEF Words
    <3>3. o[Len(o)] = o[L] /\ q[i].n = a /\ text[1].k = "piece"
      BY <1>1, <3>1, <3>2
    <3>4. html[a].t # "code" /\ o[Len(o)].k \in {"newline", "indent"} /\ q[i - 1] = o[Len(o)]
      BY <3>1, <3>3
    <3>5. Nesting(a) = IF o[Len(o)].k = "indent" THEN o[Len(o)].n ELSE 0
      BY <1>4, <3>1, <3>3, <3>4 DEF Fits
    <3>6. q[i].n = a /\ q[i - 1] = o[Len(o)]
      BY <3>3, <3>4
    <3> QED
      BY <3>5, <3>6, Zenon
  <2>3. CASE i > L + 1
    <3>1. i - 1 - L \in DOMAIN text /\ q[i - 1] = text[i - 1 - L]
      <4>1. i - 1 \in L + 1 .. L + M /\ i - 1 - L \in 1 .. M
        BY <1>1, <1>2, <2>3
      <4> QED
        BY <1>1, <1>2, <4>1
    <3>2. q[i - 1].k \in {"piece", "blank"}
      BY <3>1 DEF Words
    <3> QED
      BY <3>2
  <2>4. i \in Int /\ L \in Int
    BY <1>1, <1>2
  <2> QED
    BY <2>1, <2>2, <2>3, <2>4
<1>5. ASSUME LinesKept(o), Parts(o, r, text, a) PROVE LinesKept(q)
  <2> SUFFICES ASSUME NEW i \in DOMAIN q, NEW j \in DOMAIN q,
                      q[i].k = "piece", q[j].k = "piece", i < j,
                      \A m \in i + 1 .. j - 1 : q[m].k # "piece"
               PROVE  PiecesParted(q[i].n, q[j].n, j > i + 1)
    BY DEF LinesKept
  <2>1. CASE j <= L
    <3>1. i \in DOMAIN o /\ j \in DOMAIN o /\ q[i] = o[i] /\ q[j] = o[j]
      BY <1>1, <1>2, <2>1
    <3>2. \A m \in i + 1 .. j - 1 : o[m].k # "piece"
      BY <1>1, <1>2, <2>1
    <3> QED
      BY <1>5, <3>1, <3>2 DEF LinesKept
  <2>2. CASE i > L
    <3> DEFINE x == i - L
               y == j - L
    <3>0. i \in L + 1 .. L + M /\ j \in L + 1 .. L + M
      BY <1>1, <1>2, <2>2
    <3>1. /\ x \in DOMAIN text /\ y \in DOMAIN text /\ x < y
          /\ q[i] = text[x] /\ q[j] = text[y]
      BY <1>1, <1>2, <3>0
    <3>2. \A m \in x + 1 .. y - 1 : text[m].k # "piece"
      <4> TAKE m \in x + 1 .. y - 1
      <4>1. m + L \in i + 1 .. j - 1 /\ q[m + L] = text[m]
        BY <1>1, <1>2, <2>2
      <4> QED
        BY <4>1
    <3>3. j > i + 1 <=> y > x + 1
      BY <1>1, <1>2
    <3> HIDE DEF x, y
    <3>4. PiecesParted(text[x].n, text[y].n, y > x + 1)
      BY <3>1, <3>2 DEF LinesKept, Words
    <3> QED
      BY <3>1, <3>3, <3>4
  <2>3. CASE i <= L /\ j > L
    <3>1. i \in DOMAIN o /\ q[i] = o[i] /\ o # <<>>
      BY <1>1, <1>2, <2>3
    <3>2. \A m \in i + 1 .. L : o[m].k # "piece"
      BY <1>1, <1>2, <2>3
    <3>3. PICK x \in DOMAIN o : /\ o[x].k = "piece" /\ o[x].n = r
                                /\ \A m \in x + 1 .. L : o[m].k # "piece"
      BY <1>1, <3>1 DEF EndsAt, LastPiece
    <3>4. i = x
      BY <1>1, <3>1, <3>2, <3>3
    <3>5. Tight(o) <=> i = L
      BY <1>1, <3>1, <3>2 DEF Tight, EndsIn
    <3>6. PiecesParted(r, a, ~Tight(o) \/ text[1].k = "blank")
      BY <1>5, <3>1 DEF Parts
    <3>7. CASE text[1].k = "piece"
      <4>1. q[L + 1] = text[1] /\ text[1].n = a
        BY <1>1, <1>2, <3>7 DEF Words
      <4>2. j = L + 1
        <5>1. L + 1 > i /\ j >= L + 1 /\ L + 1 \in Int /\ j \in Int /\ i \in Int
          BY <1>1, <1>2, <2>3
        <5> QED
          BY <3>7, <4>1, <5>1
      <4>3. j > i + 1 <=> (~Tight(o) \/ text[1].k = "blank")
        <5>1. i \in 1 .. L
          BY <1>1, <3>1
        <5> QED
          BY <1>1, <3>5, <3>7, <4>2, <5>1
      <4> QED
        BY <3>1, <3>3, <3>4, <3>6, <4>1, <4>2, <4>3 DEF PiecesParted
    <3>8. CASE text[1].k # "piece"
      <4>1. M > 1 /\ text[1].k = "blank" /\ text[2].k = "piece" /\ text[2].n = a
        BY <1>1, <3>8 DEF Words
      <4>2. q[L + 1] = text[1] /\ q[L + 2] = text[2]
        BY <1>1, <1>2, <4>1
      <4>3. j = L + 2
        <5>1. L + 2 > i /\ j >= L + 1 /\ L + 1 \in Int /\ j \in Int /\ i \in Int
          BY <1>1, <1>2, <2>3
        <5>2. j # L + 1
          BY <4>1, <4>2
        <5>3. q[L + 2].k = "piece"
          BY <4>1, <4>2
        <5>4. L + 2 \notin i + 1 .. j - 1
          BY <5>3
        <5> QED
          BY <1>1, <5>1, <5>2, <5>4
      <4>4. j > i + 1
        BY <1>1, <1>2, <2>3, <4>3
      <4> QED
        BY <3>1, <3>3, <3>4, <3>6, <4>1, <4>2, <4>3, <4>4 DEF PiecesParted
    <3> QED
      BY <3>7, <3>8
  <2>4. i \in Int /\ j \in Int /\ L \in Int
    BY <1>1, <1>2
  <2> QED
    BY <2>1, <2>2, <2>3, <2>4
<1>6. q[Len(q)] = text[M]
  BY <1>1, <1>2
<1>7. ASSUME NEW c \in Nat, InTurn(o, c, r), c <= a, a = r + 1 PROVE InTurn(q, c, b)
  <2>1. InTurn(text, a, b) /\ a <= b
    <3>1. InTurn(text, a, b) /\ \E i \in DOMAIN text : text[i].k = "piece" /\ text[i].n = b
      BY DEF Words, LastPiece
    <3> QED
      BY <3>1 DEF InTurn
  <2>2. ASSUME NEW i \in DOMAIN q, q[i].k = "piece"
        PROVE  \/ i <= L /\ i \in DOMAIN o /\ q[i] = o[i] /\ q[i].n \in c .. r
               \/ i > L /\ i - L \in DOMAIN text /\ q[i] = text[i - L] /\ q[i].n \in a .. b
    <3>1. i <= L => i \in DOMAIN o /\ q[i] = o[i]
      BY <1>1, <1>2
    <3>2. i > L => i - L \in DOMAIN text /\ q[i] = text[i - L]
      BY <1>1, <1>2
    <3>3. i \in Int
      BY <1>2
    <3> QED
      BY <1>1, <1>7, <2>1, <2>2, <3>1, <3>2, <3>3 DEF InTurn
  <2>3. ASSUME NEW n \in c .. b PROVE \E i \in DOMAIN q : q[i].k = "piece" /\ q[i].n = n
    <3>1. CASE n <= r
      <4>1. PICK i \in DOMAIN o : o[i].k = "piece" /\ o[i].n = n
        BY <1>7, <3>1 DEF InTurn
      <4>2. i \in DOMAIN q /\ q[i] = o[i]
        BY <1>1, <1>2
      <4> QED
        BY <4>1, <4>2
    <3>2. CASE n > r
      <4>1. PICK i \in DOMAIN text : text[i].k = "piece" /\ text[i].n = n
        BY <1>7, <2>1, <3>2 DEF InTurn
      <4>2. L + i \in DOMAIN q /\ q[L + i] = text[i]
        BY <1>1, <1>2
      <4> QED
        BY <4>1, <4>2
    <3> QED
      BY <3>1, <3>2
  <2>4. ASSUME NEW i \in DOMAIN q, NEW j \in DOMAIN q, q[i].k = "piece", q[j].k = "piece", i < j
        PROVE  q[i].n < q[j].n
    <3>1. i \in Int /\ j \in Int
      BY <1>2
    <3>2. CASE j <= L
      <4>1. i \in DOMAIN o /\ q[i] = o[i] /\ j \in DOMAIN o /\ q[j] = o[j]
        BY <1>1, <2>2, <2>4, <3>1, <3>2
      <4> QED
        BY <1>7, <2>4, <4>1 DEF InTurn
    <3>3. CASE i <= L /\ j > L
      <4>1. q[i].n \in c .. r /\ q[j].n \in a .. b
        BY <1>1, <2>2, <2>4, <3>1, <3>3
      <4> QED
        BY <1>7, <4>1
    <3>4. CASE i > L
      <4>1. /\ i - L \in DOMAIN text /\ q[i] = text[i - L] /\ j - L \in DOMAIN text /\ q[j] = text[j - L]
            /\ i - L < j - L
        BY <1>1, <2>2, <2>4, <3>1, <3>4
      <4> QED
        BY <2>1, <2>4, <4>1 DEF InTurn
    <3> QED
      BY <1>1, <3>1, <3>2, <3>3, <3>4
  <2>5. \A i \in DOMAIN q : q[i].k = "piece" => q[i].n \in c .. b
    BY <1>7, <2>1, <2>2
  <2> QED
    BY <2>3, <2>4, <2>5 DEF InTurn
<1> QED
  BY <1>2, <1>3, <1>4, <1>5, <1>6, <1>7 DEF q, M

\* The trimmed text of a token is still one of its pieces.
LEMMA TrimmedWords ==
    ASSUME NEW text, NEW a \in Nat, NEW b \in Nat, Words(text, a, b)
    PROVE  /\ Words(RTrim(text), a, b) /\ RTrim(text)[1] = text[1]
           /\ Words(LTrim(text), a, b) /\ LTrim(text)[1].k = "piece"
           /\ Tight(LTrim(text)) <=> Tight(text)
           /\ ~\A i \in DOMAIN text : text[i].k = "blank"
<1>1. /\ text \in HtmlOut /\ Len(text) \in Nat /\ DOMAIN text = 1 .. Len(text) /\ text # <<>>
      /\ \E i \in DOMAIN text : text[i].k = "piece"
  <2>1. text \in HtmlOut /\ \E i \in DOMAIN text : text[i].k = "piece"
    BY DEF Words, LastPiece
  <2>2. Len(text) \in Nat /\ DOMAIN text = 1 .. Len(text)
    BY <2>1, SeqItems DEF HtmlOut
  <2> QED
    BY <2>1, <2>2
<1>2. Words(RTrim(text), a, b) /\ RTrim(text)[1] = text[1]
  <2>1. OutKept(text, RTrim(text)) /\ RTrim(text) # <<>>
    BY <1>1, RTrimKeeps DEF Words
  <2>2. CASE RTrim(text) = text
    BY <2>2
  <2>3. CASE RTrim(text) # text
    <3> DEFINE q == RTrim(text)
    <3>1. q = Front(text) /\ text[Len(text)].k # "piece"
      <4>1. Len(text) \in DOMAIN text
        BY <1>1 DEF HtmlOut
      <4>2. text[Len(text)].k \in {"piece", "blank"}
        BY <4>1 DEF Words
      <4> QED
        BY <2>3, <4>2 DEF RTrim, EndsIn
    <3>2. q \in HtmlOut /\ Len(q) = Len(text) - 1 /\ \A i \in 1 .. Len(q) : q[i] = text[i]
      <4> HIDE DEF q
      <4> QED
        BY <1>1, <3>1, FrontOfOut
    <3>3. Len(q) >= 1 /\ DOMAIN q = 1 .. Len(q)
      BY <2>1, <3>2, SeqItems DEF HtmlOut
    <3> HIDE DEF q
    <3>4. \A i \in DOMAIN q : q[i].k \in {"piece", "blank"}
      BY <1>1, <3>2, <3>3 DEF Words
    <3>5. q[1] = text[1] /\ (Len(q) > 1 => q[2] = text[2])
      BY <3>2, <3>3
    <3>6. LastPiece(q, b) /\ LinesKept(q) /\ InTurn(q, a, b) /\ q # <<>>
      BY <2>1 DEF Words, OutKept, q
    <3>7. \/ q[1].k = "piece" /\ q[1].n = a
          \/ Len(q) > 1 /\ q[1].k = "blank" /\ q[2].k = "piece" /\ q[2].n = a
      <4>1. CASE text[1].k = "piece" /\ text[1].n = a
        BY <3>5, <4>1
      <4>2. CASE Len(text) > 1 /\ text[1].k = "blank" /\ text[2].k = "piece" /\ text[2].n = a
        <5>1. Len(text) # 2
          BY <3>1, <4>2
        <5> QED
          BY <1>1, <3>2, <3>5, <4>2, <5>1
      <4> QED
        BY <4>1, <4>2 DEF Words
    <3>8. Words(q, a, b)
      BY <3>2, <3>4, <3>6, <3>7 DEF Words
    <3> QED
      BY <3>5, <3>8 DEF q
  <2> QED
    BY <2>2, <2>3
<1>3. /\ Words(LTrim(text), a, b) /\ LTrim(text)[1].k = "piece"
      /\ Tight(LTrim(text)) <=> Tight(text)
  <2>1. CASE text[1].k = "piece"
    <3>1. Head(text) = text[1]
      BY <1>1 DEF HtmlOut
    <3> QED
      BY <1>1, <2>1, <3>1 DEF LTrim
  <2>2. CASE text[1].k # "piece"
    <3> DEFINE q == LTrim(text)
    <3>1. Len(text) > 1 /\ text[1].k = "blank" /\ text[2].k = "piece" /\ text[2].n = a
      BY <2>2 DEF Words
    <3>2. q = Tail(text)
      <4>1. Head(text) = text[1]
        BY <1>1 DEF HtmlOut
      <4> QED
        BY <1>1, <3>1, <4>1 DEF LTrim
    <3>3. q \in HtmlOut /\ Len(q) = Len(text) - 1 /\ \A i \in 1 .. Len(q) : q[i] = text[i + 1]
      BY <1>1, <3>2, HeadTailProperties DEF HtmlOut
    <3> HIDE DEF q
    <3>4. DOMAIN q = 1 .. Len(q) /\ q # <<>>
      <4>1. Len(q) >= 1
        BY <1>1, <3>1, <3>3
      <4>2. DOMAIN q = 1 .. Len(q)
        BY <3>3, SeqItems DEF HtmlOut
      <4>3. q # <<>>
        <5>1. 1 \in 1 .. Len(q)
          BY <1>1, <3>3, <4>1
        <5> QED
          BY <4>2, <5>1
      <4> QED
        BY <4>2, <4>3
    <3>5. \A i \in DOMAIN q : q[i].k \in {"piece", "blank"}
      <4> TAKE i \in DOMAIN q
      <4>1. i \in 1 .. Len(q) /\ i + 1 \in 1 .. Len(text)
        BY <1>1, <3>3, <3>4
      <4>2. q[i] = text[i + 1] /\ text[i + 1].k \in {"piece", "blank"}
        BY <1>1, <3>3, <4>1 DEF Words
      <4> QED
        BY <4>2
    <3>6. q[1].k = "piece" /\ q[1].n = a /\ q[Len(q)] = text[Len(text)]
      BY <1>1, <3>1, <3>3
    <3>7. LastPiece(q, b)
      <4>1. PICK i \in DOMAIN text : /\ text[i].k = "piece" /\ text[i].n = b
                                     /\ \A m \in i + 1 .. Len(text) : text[m].k # "piece"
        BY DEF Words, LastPiece
      <4>2. i - 1 \in 1 .. Len(q) /\ i \in Int
        BY <1>1, <3>1, <3>3, <4>1
      <4>3. q[i - 1] = text[i]
        BY <3>3, <4>2
      <4>4. ASSUME NEW m \in i .. Len(q) PROVE q[m].k # "piece"
        <5>1. m \in 1 .. Len(q) /\ m + 1 \in i + 1 .. Len(text)
          BY <1>1, <3>3, <4>2
        <5> QED
          BY <3>3, <4>1, <5>1
      <4> QED
        BY <3>4, <4>1, <4>2, <4>3, <4>4 DEF LastPiece
    <3>8. LinesKept(q)
      <4> SUFFICES ASSUME NEW i \in DOMAIN q, NEW j \in DOMAIN q,
                          q[i].k = "piece", q[j].k = "piece", i < j,
                          \A m \in i + 1 .. j - 1 : q[m].k # "piece"
                   PROVE  PiecesParted(q[i].n, q[j].n, j > i + 1)
        BY DEF LinesKept
      <4>1. /\ i \in 1 .. Len(q) /\ j \in 1 .. Len(q) /\ i + 1 \in DOMAIN text /\ j + 1 \in DOMAIN text
            /\ q[i] = text[i + 1] /\ q[j] = text[j + 1]
        BY <1>1, <3>3, <3>4
      <4>2. ASSUME NEW m \in i + 1 + 1 .. j + 1 - 1 PROVE text[m].k # "piece"
        <5>1. m - 1 \in i + 1 .. j - 1 /\ m - 1 \in 1 .. Len(q)
          BY <1>1, <3>3, <4>1
        <5>2. q[m - 1] = text[(m - 1) + 1] /\ (m - 1) + 1 = m
          BY <3>3, <5>1
        <5>3. q[m - 1].k # "piece"
          BY <5>1
        <5> QED
          BY <5>2, <5>3
      <4>3. (j > i + 1) = (j + 1 > i + 1 + 1)
        BY <4>1
      <4>4. PiecesParted(text[i + 1].n, text[j + 1].n, j + 1 > i + 1 + 1)
        <5>1. /\ i + 1 < j + 1 /\ text[i + 1].k = "piece" /\ text[j + 1].k = "piece"
          BY <4>1
        <5>2. LinesKept(text)
          BY DEF Words
        <5> QED
          BY <4>1, <4>2, <5>1, <5>2 DEF LinesKept
      <4> QED
        BY <4>1, <4>3, <4>4
    <3>10. InTurn(q, a, b)
      <4>1. /\ \A i \in DOMAIN q : i + 1 \in DOMAIN text /\ q[i] = text[i + 1]
            /\ \A i \in DOMAIN text : text[i].k = "piece" => i - 1 \in DOMAIN q /\ q[i - 1] = text[i]
        <5>1. \A i \in DOMAIN text : text[i].k = "piece" => i # 1
          BY <3>1
        <5>2. ASSUME NEW i \in DOMAIN text, text[i].k = "piece" PROVE i - 1 \in DOMAIN q /\ q[i - 1] = text[i]
          <6>1. i - 1 \in 1 .. Len(q) /\ (i - 1) + 1 = i
            <7>1. i \in 1 .. Len(text) /\ i # 1
              BY <1>1, <5>1, <5>2
            <7> QED
              BY <1>1, <3>3, <7>1
          <6> QED
            BY <3>3, <3>4, <6>1
        <5> QED
          BY <1>1, <3>3, <3>4, <5>2
      <4>2. InTurn(text, a, b) /\ \A i \in DOMAIN q : i \in Int
        BY <3>4 DEF Words
      <4>3. \A i \in DOMAIN q : q[i].k = "piece" => q[i].n \in a .. b
        BY <4>1, <4>2 DEF InTurn
      <4>4. \A n \in a .. b : \E i \in DOMAIN q : q[i].k = "piece" /\ q[i].n = n
        BY <4>1, <4>2 DEF InTurn
      <4>5. ASSUME NEW i \in DOMAIN q, NEW j \in DOMAIN q, q[i].k = "piece", q[j].k = "piece", i < j
            PROVE  q[i].n < q[j].n
        <5>1. i + 1 < j + 1
          BY <4>2, <4>5
        <5> QED
          BY <4>1, <4>2, <4>5, <5>1 DEF InTurn
      <4> QED
        BY <4>3, <4>4, <4>5 DEF InTurn
    <3>9. Words(q, a, b)
      BY <3>3, <3>4, <3>5, <3>6, <3>7, <3>8, <3>10 DEF Words
    <3> QED
      BY <1>1, <3>4, <3>6, <3>9 DEF q, Tight, EndsIn
  <2> QED
    BY <2>1, <2>2
<1> QED
  BY <1>1, <1>2, <1>3

\* print_token_raw: a text and n newlines behind it (beautify-html.js 795-816).
LEMMA PrintRawIs ==
    ASSUME NEW o, NEW r \in Nat, EndsAt(o, r), NEW text, NEW a \in Nat, NEW b \in Nat, Words(text, a, b),
           NEW n \in Nat
    PROVE  /\ PrintRaw(o, text, n) \in HtmlOut /\ LastPiece(PrintRaw(o, text, n), b)
           /\ LinesIndented(o) /\ Fits(o, text, a) => LinesIndented(PrintRaw(o, text, n))
           /\ LinesKept(o) /\ Parts(o, r, text, a) => LinesKept(PrintRaw(o, text, n))
           /\ InTurn(o, 1, r) /\ a = r + 1 => InTurn(PrintRaw(o, text, n), 1, b)
           /\ Tight(PrintRaw(o, text, n)) <=> n = 0 /\ Tight(text)
           /\ EndsIn(PrintRaw(o, text, n), "newline") => n > 0
           /\ ~EndsIn(PrintRaw(o, text, n), "indent")
<1> DEFINE t == IF n > 0 THEN RTrim(text) ELSE text
           x == o \o t
           q == PrintNewlines(x, n)
<1>1. Words(t, a, b) /\ t[1] = text[1]
  BY TrimmedWords
<1>2. Fits(o, text, a) = Fits(o, t, a) /\ Parts(o, r, text, a) = Parts(o, r, t, a)
  BY <1>1 DEF Fits, Parts
<1> HIDE DEF t
<1>3. /\ x \in HtmlOut /\ LastPiece(x, b) /\ x # <<>> /\ t # <<>>
      /\ LinesIndented(o) /\ Fits(o, t, a) => LinesIndented(x)
      /\ LinesKept(o) /\ Parts(o, r, t, a) => LinesKept(x)
      /\ InTurn(o, 1, r) /\ a = r + 1 => InTurn(x, 1, b)
      /\ x[Len(x)] = t[Len(t)]
  <2>1. /\ o \o t \in HtmlOut /\ LastPiece(o \o t, b) /\ o \o t # <<>> /\ t # <<>>
        /\ LinesIndented(o) /\ Fits(o, t, a) => LinesIndented(o \o t)
        /\ LinesKept(o) /\ Parts(o, r, t, a) => LinesKept(o \o t)
        /\ \A c \in Nat : InTurn(o, c, r) /\ c <= a /\ a = r + 1 => InTurn(o \o t, c, b)
        /\ (o \o t)[Len(o \o t)] = t[Len(t)]
    BY <1>1, ConcatWords
  <2>2. a = r + 1 => 1 \in Nat /\ 1 <= a
    OBVIOUS
  <2> QED
    BY <2>1, <2>2
<1> HIDE DEF x
<1>4. /\ OutKept(x, q) /\ Begun(q)
      /\ n = 0 => q = x
      /\ n > 0 => EndsIn(q, "newline")
  BY <1>3, PrintNewlinesIs DEF Begun
<1> HIDE DEF q
<1>5. /\ q \in HtmlOut /\ LastPiece(q, b)
      /\ LinesIndented(o) /\ Fits(o, text, a) => LinesIndented(q)
      /\ LinesKept(o) /\ Parts(o, r, text, a) => LinesKept(q)
      /\ InTurn(o, 1, r) /\ a = r + 1 => InTurn(q, 1, b)
  BY <1>2, <1>3, <1>4 DEF OutKept
<1>6. CASE n = 0
  <2>1. t = text /\ q = x
    BY <1>4, <1>6 DEF t
  <2>2. text[Len(text)].k \in {"piece", "blank"}
    <3>1. Len(text) \in DOMAIN text
      <4>1. text \in HtmlOut /\ text # <<>>
        BY <1>3, <2>1 DEF Words
      <4> QED
        BY <4>1 DEF HtmlOut
    <3> QED
      BY <3>1 DEF Words
  <2>3. (Tight(q) <=> Tight(text)) /\ ~EndsIn(q, "newline") /\ ~EndsIn(q, "indent")
    BY <1>3, <2>1, <2>2 DEF Tight, EndsIn
  <2> QED
    BY <1>5, <1>6, <2>3 DEF PrintRaw, q, x, t
<1>7. CASE n > 0
  <2>1. EndsIn(q, "newline") /\ ~Tight(q) /\ ~EndsIn(q, "indent")
    BY <1>4, <1>7 DEF Tight, EndsIn
  <2> QED
    BY <1>5, <1>7, <2>1 DEF PrintRaw, q, x, t
<1> QED
  BY <1>6, <1>7

\* A text that has a piece, printed with the indentation if a line begins.
LEMMA PrintWords ==
    ASSUME NEW o, NEW r \in Nat, EndsAt(o, r), NEW text, NEW a \in Nat, NEW b \in Nat, Words(text, a, b),
           NEW n \in Nat, NEW level \in Nat, ~EndsIn(o, "indent")
    PROVE  /\ PrintToken(o, text, n, level) \in HtmlOut /\ LastPiece(PrintToken(o, text, n, level), b)
           /\ LinesIndented(o) /\ (EndsIn(o, "newline") => html[a].t = "code" \/ Nesting(a) = level)
                  => LinesIndented(PrintToken(o, text, n, level))
           /\ LinesKept(o) /\ Parts(o, r, text, a) => LinesKept(PrintToken(o, text, n, level))
           /\ InTurn(o, 1, r) /\ a = r + 1 => InTurn(PrintToken(o, text, n, level), 1, b)
           /\ Tight(PrintToken(o, text, n, level)) <=> n = 0 /\ Tight(text)
           /\ EndsIn(PrintToken(o, text, n, level), "newline") => n > 0
           /\ ~EndsIn(PrintToken(o, text, n, level), "indent")
<1>1. ~Skipped(o, text) /\ text # <<>> /\ o \in HtmlOut
  <2>1. ~\A i \in DOMAIN text : text[i].k = "blank"
    BY TrimmedWords
  <2> QED
    BY <2>1 DEF Skipped, EndsAt, Words, LastPiece
<1>2. CASE EndsIn(o, "newline")
  <2> DEFINE x == o \o HtmlIndent(level)
             t == LTrim(text)
  <2>1. PrintToken(o, text, n, level) = PrintRaw(x, t, n)
    BY <1>1, <1>2 DEF PrintToken
  <2>3. Words(t, a, b) /\ t[1].k = "piece" /\ (Tight(t) <=> Tight(text))
    BY TrimmedWords
  <2> HIDE DEF t
  <2>4. o # <<>> /\ LastPiece(o, r) /\ o[Len(o)].k = "newline"
    BY <1>2 DEF EndsIn, EndsAt
  <2>5. OutKept(o, x)
    BY <1>1, <2>4, WhiteKeeps, ItemsAreOut
  <2>6. /\ x[Len(x)].k \in {"newline", "indent"}
        /\ (IF x[Len(x)].k = "indent" THEN x[Len(x)].n ELSE 0) = level
    <3>1. CASE level = 0
      <4>1. x = o
        BY <1>1, <3>1, ConcatEmptySeq DEF HtmlIndent, HtmlOut
      <4> QED
        BY <2>4, <3>1, <4>1
    <3>2. CASE level # 0
      <4> DEFINE w == [k |-> "indent", n |-> level]
      <4>1. HtmlIndent(level) = <<w>> /\ w \in [k : HtmlKinds, n : Int] /\ w.k = "indent" /\ w.n = level
        BY <3>2 DEF HtmlIndent, Levels, HtmlKinds
      <4> HIDE DEF w
      <4>2. <<w>> \in HtmlOut /\ Len(<<w>>) = 1 /\ <<w>>[1] = w
        BY <4>1, OneItem DEF HtmlOut
      <4>3. Len(o) \in Nat
        BY <1>1 DEF HtmlOut
      <4>4. Len(x) = Len(o) + 1 /\ x[Len(o) + 1] = w
        BY <1>1, <4>1, <4>2, <4>3, ConcatOut
      <4> QED
        BY <4>1, <4>4
    <3> QED
      BY <3>1, <3>2
  <2> HIDE DEF x
  <2>7. EndsAt(x, r) /\ x # <<>> /\ ~Tight(x) /\ ~Tight(o)
    BY <2>4, <2>5, <2>6 DEF EndsAt, OutKept, Tight, EndsIn
  <2>8. html[a].t = "code" \/ Nesting(a) = level => Fits(x, t, a)
    BY <2>6 DEF Fits
  <2>9. Parts(o, r, text, a) => Parts(x, r, t, a)
    BY <2>4, <2>7 DEF Parts, PiecesParted
  <2>10. /\ PrintRaw(x, t, n) \in HtmlOut /\ LastPiece(PrintRaw(x, t, n), b)
         /\ LinesIndented(x) /\ Fits(x, t, a) => LinesIndented(PrintRaw(x, t, n))
         /\ LinesKept(x) /\ Parts(x, r, t, a) => LinesKept(PrintRaw(x, t, n))
         /\ InTurn(x, 1, r) /\ a = r + 1 => InTurn(PrintRaw(x, t, n), 1, b)
         /\ Tight(PrintRaw(x, t, n)) <=> n = 0 /\ Tight(t)
         /\ EndsIn(PrintRaw(x, t, n), "newline") => n > 0
         /\ ~EndsIn(PrintRaw(x, t, n), "indent")
    BY <2>3, <2>7, PrintRawIs
  <2> QED
    BY <1>2, <2>1, <2>3, <2>5, <2>8, <2>9, <2>10 DEF OutKept
<1>3. CASE ~EndsIn(o, "newline")
  <2>1. PrintToken(o, text, n, level) = PrintRaw(o, text, n)
    BY <1>1, <1>3 DEF PrintToken
  <2>2. Fits(o, text, a)
    BY <1>3 DEF Fits, EndsIn
  <2> QED
    BY <2>1, <2>2, PrintRawIs
<1> QED
  BY <1>2, <1>3

\* White space only.
LEMMA PrintBlank ==
    ASSUME NEW o, NEW r \in Nat, o \in HtmlOut, LastPiece(o, r), ~EndsIn(o, "indent"),
           NEW text, text = <<>> \/ text = <<HtmlBlank>>, NEW n \in Nat, NEW level \in Nat,
           text = <<>> => n = 0, EndsIn(o, "newline") /\ text # <<>> => level = 0
    PROVE  /\ OutKept(o, PrintToken(o, text, n, level)) /\ ~EndsIn(PrintToken(o, text, n, level), "indent")
           /\ Tight(PrintToken(o, text, n, level)) <=> Tight(o) /\ text = <<>>
<1>1. o # <<>> /\ o \o <<>> = o /\ ~Skipped(o, text)
  BY ConcatEmptySeq DEF LastPiece, HtmlOut, Skipped
<1>2. CASE text = <<>>
  <2>1. PrintToken(o, text, n, level) = PrintRaw(o, <<>>, 0)
    BY <1>1, <1>2 DEF PrintToken
  <2>2. PrintRaw(o, <<>>, 0) = o
    BY <1>1 DEF PrintRaw, PrintNewlines
  <2> QED
    BY <1>2, <2>1, <2>2, KeptAsIs
<1>3. CASE text = <<HtmlBlank>>
  <2> DEFINE x == IF n = 0 /\ ~EndsIn(o, "newline") THEN o \o <<HtmlBlank>> ELSE o
  <2>1. /\ text # <<>> /\ LTrim(text) = <<>> /\ RTrim(text) = <<>> /\ RTrim(<<>>) = <<>>
    <3>1. EndsIn(text, "blank") /\ Head(text).k = "blank" /\ Tail(text) = <<>> /\ Front(text) = <<>>
      BY <1>3 DEF EndsIn, HtmlBlank, Front
    <3> QED
      BY <3>1 DEF LTrim, RTrim, EndsIn
  <2>2. PrintToken(o, text, n, level) = PrintNewlines(x, n)
    <3>1. CASE EndsIn(o, "newline")
      <4>1. level = 0 /\ HtmlIndent(level) = <<>>
        BY <2>1, <3>1 DEF HtmlIndent
      <4>2. PrintToken(o, text, n, level) = PrintRaw(o, <<>>, n)
        BY <1>1, <2>1, <3>1, <4>1 DEF PrintToken
      <4>3. PrintRaw(o, <<>>, n) = PrintNewlines(o, n)
        BY <1>1, <2>1 DEF PrintRaw
      <4> QED
        BY <3>1, <4>2, <4>3
    <3>2. CASE ~EndsIn(o, "newline")
      <4>1. PrintToken(o, text, n, level) = PrintRaw(o, text, n)
        BY <1>1, <3>2 DEF PrintToken
      <4>2. (IF n > 0 THEN RTrim(text) ELSE text) = IF n = 0 THEN <<HtmlBlank>> ELSE <<>>
        BY <1>3, <2>1
      <4> QED
        BY <1>1, <3>2, <4>1, <4>2 DEF PrintRaw
    <3> QED
      BY <3>1, <3>2
  <2>3. OutKept(o, x) /\ Begun(x) /\ x \in HtmlOut /\ x # <<>> /\ ~EndsIn(x, "indent")
        /\ (n = 0 => ~Tight(x))
    <3>1. CASE n = 0 /\ ~EndsIn(o, "newline")
      <4>1. OutKept(o, o \o <<HtmlBlank>>)
        BY <1>1, WhiteKeeps, ItemsAreOut
      <4>2. HtmlBlank \in [k : HtmlKinds, n : Int] /\ HtmlBlank.k = "blank"
        BY DEF HtmlBlank, HtmlKinds
      <4> DEFINE y == o \o <<HtmlBlank>>
      <4>3. <<HtmlBlank>> \in HtmlOut /\ Len(<<HtmlBlank>>) = 1 /\ <<HtmlBlank>>[1] = HtmlBlank
        BY <4>2, OneItem DEF HtmlOut
      <4>4. Len(y) = Len(o) + 1 /\ y[Len(o) + 1] = HtmlBlank
        <5>1. Len(o) \in Nat
          BY DEF HtmlOut
        <5> QED
          BY <4>3, <5>1, ConcatOut
      <4> HIDE DEF y, HtmlBlank
      <4>5. ~Tight(y) /\ ~EndsIn(y, "indent")
        BY <4>2, <4>4 DEF Tight, EndsIn
      <4>6. x = y
        BY <3>1 DEF y
      <4> QED
        BY <1>1, <4>1, <4>5, <4>6 DEF OutKept, Begun, y
    <3>2. CASE ~(n = 0 /\ ~EndsIn(o, "newline"))
      <4>1. x = o /\ (n = 0 => ~Tight(o))
        BY <3>2 DEF Tight, EndsIn
      <4> QED
        BY <1>1, <4>1, KeptAsIs DEF Begun
    <3> QED
      BY <3>1, <3>2
  <2> HIDE DEF x
  <2>4. /\ OutKept(x, PrintNewlines(x, n)) /\ (n = 0 => PrintNewlines(x, n) = x)
        /\ n > 0 => EndsIn(PrintNewlines(x, n), "newline")
    BY <2>3, PrintNewlinesIs
  <2>5. OutKept(o, PrintNewlines(x, n))
    BY <2>3, <2>4, KeptTwice
  <2>6. ~Tight(PrintNewlines(x, n)) /\ ~EndsIn(PrintNewlines(x, n), "indent")
    <3>1. CASE n = 0
      BY <2>3, <2>4, <3>1
    <3>2. CASE n > 0
      BY <2>4, <3>2 DEF Tight, EndsIn
    <3> QED
      BY <3>1, <3>2
  <2> QED
    BY <1>3, <2>1, <2>2, <2>5, <2>6
<1> QED
  BY <1>2, <1>3

-----------------------------------------------------------------------------
(* The page.                                                               *)

\* The pieces of the page and the fields of each.
LEMMA PageItems ==
    ASSUME html \in HtmlSource
    PROVE  /\ Len(html) \in Nat /\ DOMAIN html = 1 .. Len(html)
           /\ \A n \in 1 .. Len(html) :
                  /\ html[n].t \in HtmlTags \cup {"code", "text"} /\ html[n].name \in Name \cup {"-"}
                  /\ html[n].white \in Int /\ html[n].white >= NoWhite
                  /\ html[n].t \in {"start", "end", "script"} <=> html[n].name \in Name
<1>1. html \in Seq(HtmlPiece)
  BY HtmlAssumption
<1>2. Len(html) \in Nat /\ DOMAIN html = 1 .. Len(html) /\ \A n \in 1 .. Len(html) : html[n] \in HtmlPiece
  BY <1>1, SeqItems
<1>3. \A h \in HtmlPiece : /\ h.t \in HtmlTags \cup {"code", "text"} /\ h.name \in Name \cup {"-"}
                           /\ h.white \in Int
  BY DEF HtmlPiece
<1>4. \A n \in 1 .. Len(html) : /\ html[n].white >= NoWhite
                                /\ html[n].t \in {"start", "end", "script"} <=> html[n].name \in Name
  BY HtmlAssumption
<1> QED
  BY <1>2, <1>3, <1>4

\* Text opens and closes nothing.
LEMMA OpenBehindText ==
    ASSUME html \in HtmlSource, NEW p \in 0 .. Len(html), NEW m \in p .. Len(html),
           \A n \in p + 1 .. m : html[n].t = "text"
    PROVE  OpenBehind[m] = OpenBehind[p]
<1> DEFINE Bad == {k \in p .. m : OpenBehind[k] # OpenBehind[p]}
<1> SUFFICES ASSUME Bad # {} PROVE FALSE
  OBVIOUS
<1>1. Len(html) \in Nat
  BY PageItems
<1>2. PICK k \in Bad : \A j \in Bad : k <= j
  BY <1>1, LeastNumber, Bad \subseteq Nat
<1>3. k # p /\ k \in p + 1 .. m /\ k - 1 \in p .. m /\ k - 1 \notin Bad
  BY <1>1, <1>2
<1>4. OpenBehind[k] = OpenAfter(OpenBehind[k - 1], k)
  <2>1. k \in 1 .. Len(html)
    BY <1>1, <1>3
  <2> QED
    BY <1>1, <2>1, OpenBehindIs
<1>5. html[k].t = "text"
  BY <1>3
<1> QED
  BY <1>2, <1>3, <1>4, <1>5 DEF OpenAfter

\* A tag, with a blank or without.
LEMMA TagWords ==
    ASSUME NEW m \in Nat
    PROVE  /\ Words(<<PieceAt(m)>>, m, m) /\ Tight(<<PieceAt(m)>>)
           /\ <<PieceAt(m)>>[1].k = "piece" /\ <<PieceAt(m)>>[1].n = m
           /\ Words(<<PieceAt(m)>> \o <<HtmlBlank>>, m, m) /\ ~Tight(<<PieceAt(m)>> \o <<HtmlBlank>>)
           /\ (<<PieceAt(m)>> \o <<HtmlBlank>>)[1].k = "piece"
<1> DEFINE p == PieceAt(m)
<1>1. p \in [k : HtmlKinds, n : Int] /\ p.k = "piece" /\ p.n = m
  BY DEF PieceAt, HtmlKinds
<1>2. HtmlBlank \in [k : HtmlKinds, n : Int] /\ HtmlBlank.k = "blank"
  BY DEF HtmlBlank, HtmlKinds
<1> HIDE DEF p, HtmlBlank
<1>3. /\ <<p>> \in HtmlOut /\ Len(<<p>>) = 1 /\ <<p>>[1] = p /\ <<p>> # <<>> /\ DOMAIN <<p>> = {1}
      /\ <<HtmlBlank>> \in HtmlOut /\ Len(<<HtmlBlank>>) = 1 /\ <<HtmlBlank>>[1] = HtmlBlank
  BY <1>1, <1>2, OneItem DEF HtmlOut
<1>4. LastPiece(<<p>>, m)
  BY <1>1, <1>3 DEF LastPiece
<1>5. LinesKept(<<p>>) /\ InTurn(<<p>>, m, m)
  BY <1>1, <1>3 DEF LinesKept, InTurn
<1>6. Words(<<p>>, m, m) /\ Tight(<<p>>)
  BY <1>1, <1>3, <1>4, <1>5 DEF Words, Tight, EndsIn
<1> DEFINE q == <<p>> \o <<HtmlBlank>>
<1>7. /\ q \in HtmlOut /\ Len(q) = 2 /\ q[1] = p /\ q[2] = HtmlBlank /\ DOMAIN q = {1, 2} /\ q # <<>>
  <2>1. /\ q \in HtmlOut /\ Len(q) = 1 + 1 /\ \A i \in 1 .. 1 : q[i] = <<p>>[i]
        /\ \A i \in 1 + 1 .. 1 + 1 : q[i] = <<HtmlBlank>>[i - 1]
    BY <1>3, ConcatOut
  <2>2. DOMAIN q = 1 .. Len(q)
    BY <2>1, SeqItems DEF HtmlOut
  <2>3. q[1] = p /\ q[2] = HtmlBlank
    BY <1>3, <2>1
  <2> HIDE DEF q
  <2> QED
    BY <2>1, <2>2, <2>3
<1>8. OutKept(<<p>>, q)
  BY <1>3, WhiteKeeps, ItemsAreOut
<1> HIDE DEF q
<1>9. Words(q, m, m) /\ ~Tight(q)
  BY <1>1, <1>2, <1>4, <1>5, <1>7, <1>8 DEF Words, Tight, EndsIn, OutKept
<1> QED
  BY <1>1, <1>3, <1>6, <1>7, <1>9 DEF p, q

\* The words of a content: from the next piece on, with blanks where there is white space.
LEMMA ContentWords ==
    ASSUME html \in HtmlSource, read \in 0 .. Len(html), eaten \in BOOLEAN,
           NEW m \in read + 1 .. Len(html), \A n \in read + 1 .. m : html[n].t = "text"
    PROVE  /\ Words(ContentTo[m], read + 1, m) /\ Tight(ContentTo[m])
           /\ ContentTo[m][1].k = "blank" <=> WhiteBefore(read + 1) # NoWhite
<1> DEFINE T == ContentTo
           WellRead(k) == /\ Words(T[k], read + 1, k) /\ Tight(T[k])
                          /\ T[k][1].k = "blank" <=> WhiteBefore(read + 1) # NoWhite
           Bad == {k \in read + 1 .. m : ~WellRead(k)}
<1> SUFFICES ASSUME Bad # {} PROVE FALSE
  OBVIOUS
<1>1. Len(html) \in Nat /\ read \in Nat
  BY PageItems
<1>2. PICK k \in Bad : \A j \in Bad : k <= j
  BY <1>1, LeastNumber, Bad \subseteq Nat
<1>3. k \in read + 1 .. m /\ k \in Nat /\ html[k].t = "text" /\ ~WellRead(k)
  BY <1>1, <1>2
<1> DEFINE W == IF WhiteBefore(k) = NoWhite THEN <<>> ELSE <<HtmlBlank>>
           P == <<PieceAt(k)>>
           o == T[k - 1] \o W
<1>4. T[k] = o \o P
  <2>1. k \in read + 1 .. Len(html)
    BY <1>1, <1>3
  <2>2. T[k] = TextStep(T[k - 1], k)
    BY <1>1, <2>1, ContentToIs
  <2> QED
    BY <1>3, <2>2 DEF TextStep
<1>5. Words(P, k, k) /\ Tight(P) /\ P[1].k = "piece" /\ P[1].n = k
  BY <1>3, TagWords
<1>6. W \in HtmlWhite /\ W \in HtmlOut
  <2>1. <<>> \in HtmlWhite
    BY DEF HtmlWhite
  <2>2. W \in HtmlWhite
    BY <2>1, ItemsAreOut
  <2> HIDE DEF W
  <2> QED
    BY <2>2, ItemsAreOut
<1>7. HtmlBlank \in [k : HtmlKinds, n : Int] /\ HtmlBlank.k = "blank"
  BY DEF HtmlBlank, HtmlKinds
<1> HIDE DEF HtmlBlank
<1>8. <<HtmlBlank>> \in HtmlOut /\ Len(<<HtmlBlank>>) = 1 /\ <<HtmlBlank>>[1] = HtmlBlank /\ <<HtmlBlank>> # <<>>
  BY <1>7, OneItem DEF HtmlOut
<1>9. CASE k = read + 1
  <2>1. T[k - 1] = <<>> /\ o = W
    <3>1. T[k - 1] = <<>>
      BY <1>1, <1>9, ContentToIs
    <3> QED
      BY <1>6, <3>1, ConcatEmptySeq DEF HtmlOut
  <2>2. CASE WhiteBefore(k) = NoWhite
    <3>1. T[k] = P
      <4>1. W = <<>>
        BY <2>2
      <4>2. P \in HtmlOut
        BY <1>5 DEF Words
      <4> HIDE DEF P, W, o, T
      <4> QED
        BY <1>4, <2>1, <4>1, <4>2, ConcatEmptySeq DEF HtmlOut
    <3> HIDE DEF T, P
    <3> QED
      BY <1>3, <1>5, <1>9, <2>2, <3>1
  <2>3. CASE WhiteBefore(k) # NoWhite
    <3> DEFINE q == <<HtmlBlank>> \o P
    <3>1. T[k] = q
      BY <1>4, <2>1, <2>3
    <3>2. P \in HtmlOut /\ Len(P) = 1
      BY <1>5 DEF Words
    <3>3. /\ q \in HtmlOut /\ Len(q) = 2 /\ q[1] = HtmlBlank /\ q[2] = P[1] /\ q # <<>>
      <4> DEFINE B == <<HtmlBlank>>
      <4>1. B \in HtmlOut /\ P \in HtmlOut /\ Len(B) = 1 /\ Len(P) = 1 /\ B[1] = HtmlBlank
        BY <1>8, <3>2
      <4>2. q = B \o P
        OBVIOUS
      <4>3. q # <<>>
        BY <4>2
      <4> HIDE DEF q, B, P
      <4>4. /\ B \o P \in HtmlOut /\ Len(B \o P) = Len(B) + Len(P)
            /\ \A i \in 1 .. Len(B) : (B \o P)[i] = B[i]
            /\ \A i \in Len(B) + 1 .. Len(B) + Len(P) : (B \o P)[i] = P[i - Len(B)]
        BY <4>1, ConcatOut
      <4>5. Len(q) = 2 /\ q[1] = B[1] /\ q[2] = P[1]
        BY <4>1, <4>2, <4>4
      <4> QED
        BY <4>1, <4>2, <4>3, <4>4, <4>5
    <3>4. DOMAIN q = {1, 2}
      <4>1. DOMAIN q = 1 .. Len(q)
        BY <3>3, SeqItems DEF HtmlOut
      <4> HIDE DEF q
      <4> QED
        BY <3>3, <4>1
    <3> HIDE DEF q, P, T
    <3>5. LastPiece(q, k) /\ LinesKept(q) /\ InTurn(q, k, k)
      BY <1>3, <1>5, <1>7, <3>3, <3>4 DEF LastPiece, LinesKept, InTurn
    <3>6. Words(q, read + 1, k) /\ Tight(q) /\ q[1].k = "blank"
      BY <1>5, <1>7, <1>9, <3>3, <3>4, <3>5 DEF Words, Tight, EndsIn
    <3> QED
      BY <1>3, <1>9, <2>3, <3>1, <3>6
  <2> QED
    BY <2>2, <2>3
<1>10. CASE k # read + 1
  <2>1. k - 1 \in read + 1 .. m /\ k - 1 \in Nat /\ k - 1 \notin Bad
    BY <1>1, <1>2, <1>3, <1>10
  <2> DEFINE t == T[k - 1]
  <2>2. Words(t, read + 1, k - 1) /\ Tight(t) /\ (t[1].k = "blank" <=> WhiteBefore(read + 1) # NoWhite)
    BY <2>1
  <2>3. /\ t \in HtmlOut /\ Len(t) \in Nat /\ Len(t) >= 1 /\ t # <<>> /\ DOMAIN t = 1 .. Len(t)
    <3>1. t \in HtmlOut /\ t # <<>>
      BY <2>2 DEF Words, Tight, EndsIn
    <3> HIDE DEF t
    <3> QED
      BY <3>1, SeqItems DEF HtmlOut
  <2> HIDE DEF t
  <2>4. OutKept(t, o)
    BY <1>6, <2>3, WhiteKeeps DEF t
  <2>5. /\ o \in HtmlOut /\ \A i \in 1 .. Len(t) : o[i] = t[i]
        /\ Len(o) = Len(t) + Len(W) /\ \A i \in 1 .. Len(W) : o[Len(t) + i] = W[i]
    BY <1>6, <2>3, ConcatOut DEF t
  <2>6. Tight(o) <=> WhiteBefore(k) = NoWhite
    <3>1. CASE WhiteBefore(k) = NoWhite
      <4>1. o = t
        BY <2>3, <3>1, ConcatEmptySeq DEF t, HtmlOut
      <4> QED
        BY <2>2, <3>1, <4>1
    <3>2. CASE WhiteBefore(k) # NoWhite
      <4>1. Len(o) = Len(t) + 1 /\ o[Len(t) + 1] = HtmlBlank
        <5>1. W = <<HtmlBlank>>
          BY <3>2
        <5> HIDE DEF W, o
        <5> QED
          BY <1>8, <2>3, <2>5, <5>1
      <4> HIDE DEF o
      <4> QED
        BY <1>7, <3>2, <4>1 DEF Tight, EndsIn
    <3> QED
      BY <3>1, <3>2
  <2> HIDE DEF o, P, T
  <2>7. WhiteBefore(k) = html[k].white
    BY <1>10 DEF WhiteBefore
  <2>8. EndsAt(o, k - 1) /\ Parts(o, k - 1, P, k) /\ LinesKept(o) /\ InTurn(o, read + 1, k - 1)
    <3>1. LastPiece(o, k - 1) /\ LinesKept(o) /\ InTurn(o, read + 1, k - 1)
      BY <1>1, <2>1, <2>2, <2>4 DEF OutKept, Words
    <3>2. PiecesParted(k - 1, k, ~Tight(o) \/ P[1].k = "blank")
      BY <1>5, <2>6, <2>7 DEF PiecesParted
    <3> QED
      BY <2>5, <3>1, <3>2 DEF EndsAt, Parts
  <2> DEFINE q == o \o P
  <2>9. /\ q \in HtmlOut /\ LastPiece(q, k) /\ LinesKept(q) /\ InTurn(q, read + 1, k)
        /\ q[Len(q)] = P[Len(P)] /\ P # <<>> /\ q # <<>>
    <3>1. read + 1 \in Nat /\ read + 1 <= k /\ k = (k - 1) + 1
      BY <1>1, <1>3
    <3> HIDE DEF q
    <3> QED
      BY <1>3, <1>5, <2>1, <2>8, <3>1, ConcatWords DEF q
  <2>10. /\ P \in HtmlOut /\ DOMAIN o = 1 .. Len(o) /\ DOMAIN q = 1 .. Len(q) /\ Len(o) \in Nat
         /\ Len(P) \in Nat /\ DOMAIN P = 1 .. Len(P) /\ DOMAIN W = 1 .. Len(W) /\ Len(W) \in Nat
    BY <1>5, <1>6, <2>5, <2>9, SeqItems DEF HtmlOut, Words
  <2>11. /\ Len(q) = Len(o) + Len(P) /\ \A i \in 1 .. Len(o) : q[i] = o[i]
         /\ \A i \in Len(o) + 1 .. Len(q) : q[i] = P[i - Len(o)]
    <3>1. /\ Len(q) = Len(o) + Len(P) /\ \A i \in 1 .. Len(o) : q[i] = o[i]
          /\ \A i \in Len(o) + 1 .. Len(o) + Len(P) : q[i] = P[i - Len(o)]
      BY <2>5, <2>10, ConcatOut
    <3> HIDE DEF q
    <3> QED
      BY <3>1
  <2> HIDE DEF q
  <2>12. \A i \in DOMAIN q : q[i].k \in {"piece", "blank"}
    <3>1. \A i \in 1 .. Len(P) : P[i].k \in {"piece", "blank"}
      BY <1>5, <2>10 DEF Words
    <3>2. \A i \in 1 .. Len(W) : W[i].k = "blank"
      BY <1>7, <1>8
    <3> HIDE DEF W
    <3>3. ASSUME NEW i \in 1 .. Len(o) PROVE o[i].k \in {"piece", "blank"}
      <4>1. CASE i <= Len(t)
        <5>1. i \in DOMAIN t /\ o[i] = t[i]
          BY <2>3, <2>5, <2>10, <4>1
        <5> QED
          BY <2>2, <5>1 DEF Words
      <4>2. CASE i > Len(t)
        <5>1. i - Len(t) \in 1 .. Len(W)
          BY <2>3, <2>5, <2>10, <4>2
        <5>2. o[Len(t) + (i - Len(t))] = W[i - Len(t)]
          BY <2>5, <5>1
        <5>3. Len(t) + (i - Len(t)) = i
          BY <2>3, <2>10
        <5> QED
          BY <3>2, <5>1, <5>2, <5>3
      <4> QED
        BY <2>3, <2>10, <4>1, <4>2
    <3> TAKE i \in DOMAIN q
    <3>4. CASE i <= Len(o)
      BY <2>10, <2>11, <3>3, <3>4
    <3>5. CASE i > Len(o)
      <4>1. i - Len(o) \in 1 .. Len(P) /\ q[i] = P[i - Len(o)]
        BY <2>10, <2>11, <3>5
      <4> QED
        BY <3>1, <4>1
    <3> QED
      BY <2>10, <3>4, <3>5
  <2>13. Len(t) > 1 => q[2] = t[2] /\ Len(q) > 1
    BY <2>3, <2>5, <2>10, <2>11
  <2>14. q[1] = t[1]
    BY <2>3, <2>5, <2>10, <2>11
  <2>15. Tight(q)
    <3>1. P[Len(P)].k = "piece"
      BY <1>5 DEF Tight, EndsIn
    <3> QED
      BY <2>9, <3>1 DEF Tight, EndsIn
  <2>16. Words(q, read + 1, k)
    BY <2>2, <2>3, <2>9, <2>12, <2>13, <2>14 DEF Words
  <2>17. WellRead(k)
    BY <1>4, <2>2, <2>14, <2>15, <2>16 DEF q
  <2> QED
    BY <1>3, <2>17
<1> QED
  BY <1>9, <1>10

-----------------------------------------------------------------------------
(* The inductive invariant.  HtmlShape says where the output ends and what *)
(* is behind its last piece; HtmlNested how the table mirrors the elements *)
(* open by the page: the keys of the open tags are a chain from the parent *)
(* on, those of one name in the order of their counts.                     *)

HtmlShape ==
    /\ read = 0 => printed = <<>> /\ indent_level = 0
    /\ read > 0 => LastPiece(printed, read)
    /\ InTurn(printed, 1, read)
    /\ ~EndsIn(printed, "indent")
    /\ current_mode = "CONTENT" => newlines = 0
    /\ current_mode = "TAG" /\ newlines > 0 => read = 0 /\ html[1].white > 0
    /\ current_mode = "CONTENT" /\ ~InCode /\ ~eaten /\ EndsIn(printed, "newline") => indent_level = 0
    /\ InCode => current_mode = "CONTENT" /\ read > 0 /\ html[read].t = "script"
    /\ current_mode = "CONTENT" /\ read > 0 =>
           /\ html[read].t # "text"
           /\ html[read].t = "inline" => ~eaten /\ (Tight(printed) \/ (read = 1 /\ html[1].white > 0))
    /\ current_mode = "TAG" /\ 0 < read /\ read < Len(html) => PiecesParted(read, read + 1, ~Tight(printed))

TableOK ==
    /\ tagcount \in [Name -> Nat]
    /\ DOMAIN tags \subseteq Name \X Nat
    /\ \A k \in DOMAIN tags : k[2] \in 1 .. tagcount[k[1]] /\ tags[k].level \in Nat

HtmlLineInv == /\ html \in HtmlSource /\ HtmlTypeOK /\ printed \in HtmlOut
               /\ HtmlShape /\ LinesKept(printed)

\* The type invariant says what the table of tags is.
LEMMA TypeIsTable == HtmlTypeOK => TableOK
  BY DEF HtmlTypeOK, TableOK

\* A tag put into the table.
LEMMA TagPut ==
    ASSUME NEW t \in Name, RecordTag(t), tagcount \in [Name -> Nat]
    PROVE  /\ tagcount' = [tagcount EXCEPT ![t] = tagcount[t] + 1]
           /\ parent' = <<t, tagcount[t] + 1>> /\ misled' = misled
           /\ DOMAIN tags' = DOMAIN tags \cup {<<t, tagcount[t] + 1>>}
           /\ tags'[<<t, tagcount[t] + 1>>] = [level |-> indent_level, parent |-> parent]
           /\ \A k \in DOMAIN tags : k # <<t, tagcount[t] + 1>> => tags'[k] = tags[k]
<1> DEFINE key == <<t, tagcount[t] + 1>>
           e == [level |-> indent_level, parent |-> parent]
<1>1. tags' = [k \in DOMAIN tags \cup {key} |-> IF k = key THEN e ELSE tags[k]]
  BY DEF RecordTag
<1> HIDE DEF key, e
<1>3. DOMAIN tags' = DOMAIN tags \cup {key} /\ tags'[key] = e /\ \A k \in DOMAIN tags : k # key => tags'[k] = tags[k]
  BY <1>1
<1>4. /\ tagcount' = [tagcount EXCEPT ![t] = tagcount[t] + 1]
      /\ parent' = key /\ misled' = misled
  BY DEF RecordTag, key
<1> QED
  BY <1>3, <1>4 DEF key, e

\* A tag is put into the table (beautify-html.js 300-311): the table is one still.
LEMMA RecordTagTable ==
    ASSUME NEW t \in Name, RecordTag(t), TableOK, indent_level \in Nat
    PROVE  TableOK'
<1> DEFINE key == <<t, tagcount[t] + 1>>
<1>1. /\ tagcount \in [Name -> Nat] /\ tagcount' = [tagcount EXCEPT ![t] = tagcount[t] + 1]
      /\ DOMAIN tags' = DOMAIN tags \cup {key}
      /\ tags'[key] = [level |-> indent_level, parent |-> parent]
      /\ \A k \in DOMAIN tags : k # key => tags'[k] = tags[k]
  BY TagPut DEF TableOK
<1>2. /\ tagcount' \in [Name -> Nat] /\ tagcount'[t] = tagcount[t] + 1 /\ tagcount[t] \in Nat
      /\ \A u \in Name : u # t => tagcount'[u] = tagcount[u]
      /\ \A u \in Name : tagcount[u] \in Nat
  BY <1>1
<1>3. key \in Name \X Nat /\ key[1] = t /\ key[2] = tagcount[t] + 1
  BY <1>2
<1> HIDE DEF key
<1>4. ASSUME NEW k \in DOMAIN tags' PROVE k[2] \in 1 .. tagcount'[k[1]] /\ tags'[k].level \in Nat
  <2>1. CASE k = key
    BY <1>1, <1>2, <1>3, <2>1
  <2>2. CASE k # key
    <3>1. k \in DOMAIN tags /\ tags'[k] = tags[k] /\ k[1] \in Name /\ k[2] \in 1 .. tagcount[k[1]]
      BY <1>1, <2>2 DEF TableOK
    <3>2. tagcount[k[1]] \in Nat /\ tagcount'[k[1]] >= tagcount[k[1]] /\ tagcount'[k[1]] \in Nat
      BY <1>2, <3>1
    <3> QED
      BY <3>1, <3>2 DEF TableOK
  <2> QED
    BY <2>1, <2>2
<1> QED
  BY <1>1, <1>2, <1>3, <1>4 DEF TableOK

\* The tag that an end tag closes is taken from the table (beautify-html.js 312-332): the table is one still.
LEMMA RetrieveTagTable ==
    ASSUME NEW t \in Name, RetrieveTag(t), TableOK, indent_level \in Nat, misled \in BOOLEAN
    PROVE  TableOK' /\ indent_level' \in Nat /\ misled' \in BOOLEAN
<1>1. misled' \in BOOLEAN
  BY DEF RetrieveTag, Encloses
<1>2. CASE tagcount[t] = 0
  <2>1. tags' = tags /\ tagcount' = tagcount /\ indent_level' = indent_level
    BY <1>2 DEF RetrieveTag
  <2> QED
    BY <1>1, <2>1 DEF TableOK
<1>3. CASE tagcount[t] # 0
  <2> DEFINE key == TagKey(t)
  <2>1. /\ tags' = [k \in DOMAIN tags \ {key} |-> tags[k]]
        /\ tagcount' = [tagcount EXCEPT ![t] = tagcount[t] - 1]
        /\ key \in Ancestors => indent_level' = tags[key].level
        /\ key \notin Ancestors => indent_level' = indent_level
    BY <1>3 DEF RetrieveTag
  <2>2. indent_level' \in Nat
    BY <2>1 DEF Ancestors, TableOK
  <2>3. /\ tagcount' \in [Name -> Nat] /\ tagcount'[t] = tagcount[t] - 1 /\ tagcount[t] \in Nat
        /\ \A u \in Name : u # t => tagcount'[u] = tagcount[u]
    BY <1>3, <2>1 DEF TableOK
  <2>4. key = <<t, tagcount[t]>>
    BY DEF TagKey
  <2> HIDE DEF key
  <2>5. ASSUME NEW k \in DOMAIN tags' PROVE k[2] \in 1 .. tagcount'[k[1]] /\ tags'[k].level \in Nat
    <3>1. k \in DOMAIN tags /\ k # key /\ tags'[k] = tags[k] /\ k \in Name \X Nat
      BY <2>1 DEF TableOK
    <3>2. k = <<k[1], k[2]>> /\ k[1] \in Name /\ k[2] \in Nat /\ k[2] \in 1 .. tagcount[k[1]]
      BY <3>1 DEF TableOK
    <3>3. CASE k[1] = t
      <4>1. k[2] # tagcount[t]
        BY <2>4, <3>1, <3>2, <3>3
      <4> QED
        BY <2>3, <3>1, <3>2, <3>3, <4>1 DEF TableOK
    <3>4. CASE k[1] # t
      BY <2>3, <3>1, <3>2, <3>4 DEF TableOK
    <3> QED
      BY <3>3, <3>4
  <2> QED
    BY <1>1, <2>1, <2>2, <2>3, <2>5 DEF TableOK
<1> QED
  BY <1>2, <1>3

\* The page stays: what is said of an output by it is said of the next one.
LEMMA SamePage ==
    ASSUME html' = html
    PROVE  /\ LinesKept(printed)' <=> LinesKept(printed')
           /\ OpenBehind' = OpenBehind
           /\ LinesIndented(printed)' <=> LinesIndented(printed')
<1>1. LinesKept(printed)' <=> LinesKept(printed')
  BY DEF LinesKept, PiecesParted, MayPart
<1>2. OpenBehind' = OpenBehind
  BY DEF OpenBehind, OpenAfter
<1>3. LinesIndented(printed)' <=> LinesIndented(printed')
  <2> HIDE DEF OpenBehind
  <2> QED
    BY <1>2 DEF LinesIndented, Nesting, IndentIn
<1> QED
  BY <1>1, <1>2, <1>3

\* The start: nothing read, nothing printed.
LEMMA HtmlLineAtFirst == HtmlInit => HtmlLineInv
<1> SUFFICES ASSUME HtmlInit PROVE HtmlLineInv
  OBVIOUS
<1>0. printed = <<>> /\ printed \in HtmlOut /\ DOMAIN printed = {}
  <2>1. printed = <<>>
    BY DEF HtmlInit, HtmlBegin
  <2>2. printed \in HtmlOut /\ Len(printed) = 0
    BY <2>1, ItemsAreOut
  <2>3. DOMAIN printed = 1 .. 0
    BY <2>2, SeqItems DEF HtmlOut
  <2> QED
    BY <2>1, <2>2, <2>3
<1>1. html \in HtmlSource /\ read = 0 /\ newlines = 0 /\ indent_level = 0
  BY DEF HtmlInit, HtmlBegin
<1>10. current_mode = "CONTENT" /\ ~InCode
  <2>1. current_mode = "CONTENT" /\ last_token = ""
    BY DEF HtmlInit, HtmlBegin
  <2>2. ~InCode
    BY <2>1, "" # "SCRIPT_START" DEF InCode
  <2> QED
    BY <2>1, <2>2
<1>11. last_token \in {"", "CONTENT", "START", "END", "SCRIPT_START", "SCRIPT", "SINGLE"}
  BY Zenon DEF HtmlInit, HtmlBegin
<1>2. eaten \in BOOLEAN /\ last_text \in BOOLEAN /\ misled \in BOOLEAN
  BY Zenon DEF HtmlInit, HtmlBegin
<1>3. HtmlTypeOK
  <2>1. Len(html) \in Nat /\ MaxPreserveNewlines \in Nat
    BY <1>1, PageItems, HtmlAssumption
  <2>2. /\ read \in 0 .. Len(html) /\ eaten \in BOOLEAN
        /\ current_mode \in {"CONTENT", "TAG"} /\ last_text \in BOOLEAN /\ misled \in BOOLEAN
        /\ last_token \in {"", "CONTENT", "START", "END", "SCRIPT_START", "SCRIPT", "SINGLE"}
        /\ newlines \in 0 .. MaxPreserveNewlines + 1 /\ indent_level \in Nat
    <3>1. read \in 0 .. Len(html) /\ newlines \in 0 .. MaxPreserveNewlines + 1 /\ indent_level \in Nat
      BY <1>1, <2>1
    <3> QED
      BY <1>2, <1>10, <1>11, <3>1
  <2>3. tagcount = [n \in Name |-> 0] /\ tags = [k \in {} |-> 0]
    BY DEF HtmlInit, HtmlBegin
  <2>4. tagcount \in [Name -> Nat] /\ DOMAIN tags = {}
    BY <2>3
  <2> QED
    BY <1>0, <2>2, <2>4 DEF HtmlTypeOK
<1>4. HtmlShape
  <2>1. ~EndsIn(printed, "indent") /\ ~EndsIn(printed, "newline")
    BY <1>0 DEF EndsIn
  <2>2. current_mode # "TAG" /\ ~(read > 0)
    BY <1>1, <1>10
  <2>3. /\ read = 0 => printed = <<>> /\ indent_level = 0
        /\ current_mode = "CONTENT" => newlines = 0
    BY <1>0, <1>1
  <2>4. ~InCode
    BY <1>10
  <2> HIDE DEF InCode
  <2>5. ~(0 < read)
    BY <1>1
  <2>6. InTurn(printed, 1, read)
    BY <1>0, <1>1 DEF InTurn
  <2> QED
    BY <2>1, <2>2, <2>3, <2>4, <2>5, <2>6, Zenon DEF HtmlShape
<1>5. LinesKept(printed)
  BY <1>0 DEF LinesKept
<1> QED
  BY <1>0, <1>1, <1>3, <1>4, <1>5, ItemsAreOut DEF HtmlLineInv

\* What a step that keeps the types leaves to show of them.
LEMMA HtmlTypeNext ==
    ASSUME html' \in HtmlSource, read' \in 0 .. Len(html'), eaten' \in BOOLEAN,
           current_mode' \in {"CONTENT", "TAG"}, last_text' \in BOOLEAN, misled' \in BOOLEAN,
           last_token' \in {"", "CONTENT", "START", "END", "SCRIPT_START", "SCRIPT", "SINGLE"},
           newlines' \in 0 .. MaxPreserveNewlines + 1, indent_level' \in Nat, TableOK', printed' \in HtmlOut
    PROVE  HtmlTypeOK'
<1>1. \A i \in DOMAIN printed' : printed'[i].k \in {"piece", "blank", "newline", "indent"}
  <2> DEFINE o == printed'
  <2>1. \A i \in DOMAIN o : o[i] \in [k : HtmlKinds, n : Int]
    BY SeqItems DEF HtmlOut
  <2> QED
    BY <2>1 DEF HtmlKinds
<1> QED
  BY <1>1 DEF HtmlTypeOK, TableOK

\* A tag printed behind the output or behind what newlines make of it.
LEMMA TagStep ==
    ASSUME HtmlLineInv, current_mode = "TAG", read < Len(html), html[read + 1].t # "text",
           html' = html, read' = read + 1, current_mode' = "CONTENT", newlines' = 0,
           last_token' \in {"START", "END", "SCRIPT_START", "SINGLE"}, last_text' \in BOOLEAN,
           eaten' \in BOOLEAN, TableOK', indent_level' \in Nat, misled' \in BOOLEAN,
           NEW o, OutKept(printed, o), o = printed \/ EndsIn(o, "newline"),
           NEW blank \in BOOLEAN, NEW n \in Nat, NEW level \in Nat,
           printed' = PrintToken(o, TagText(blank), n, level),
           html[read + 1].t = "inline" => o = printed /\ ~eaten',
           ~eaten' => n = newlines /\ ~blank /\ indent_level' = indent_level,
           last_token' = "SCRIPT_START" => html[read + 1].t = "script"
    PROVE  /\ HtmlLineInv'
           /\ LinesIndented(printed) /\ (EndsIn(o, "newline") => Nesting(read + 1) = level)
                  => LinesIndented(printed)'
<1>1. /\ html \in HtmlSource /\ Len(html) \in Nat /\ read \in Nat /\ read' \in 0 .. Len(html) /\ read + 1 \in Nat
      /\ printed \in HtmlOut /\ LinesKept(printed) /\ HtmlShape /\ MaxPreserveNewlines \in Nat
  <2>1. html \in HtmlSource /\ HtmlTypeOK /\ printed \in HtmlOut /\ LinesKept(printed) /\ HtmlShape
    BY DEF HtmlLineInv
  <2>2. Len(html) \in Nat /\ MaxPreserveNewlines \in Nat
    BY <2>1, PageItems, HtmlAssumption
  <2>3. read \in 0 .. Len(html)
    BY <2>1 DEF HtmlTypeOK
  <2> QED
    BY <2>1, <2>2, <2>3
<1> DEFINE text == TagText(blank)
<1>2. Words(text, read + 1, read + 1) /\ (Tight(text) <=> ~blank) /\ text[1].k = "piece"
  <2>1. CASE blank
    <3>1. text = <<PieceAt(read + 1)>> \o <<HtmlBlank>>
      BY <2>1 DEF TagText
    <3> HIDE DEF text
    <3> QED
      BY <1>1, <2>1, <3>1, TagWords
  <2>2. CASE ~blank
    <3>1. <<PieceAt(read + 1)>> \in HtmlOut
      BY <1>1, ItemsAreOut
    <3>2. text = <<PieceAt(read + 1)>>
      BY <2>2, <3>1, ConcatEmptySeq DEF TagText, HtmlOut
    <3> HIDE DEF text
    <3> QED
      BY <1>1, <2>2, <3>2, TagWords
  <2> QED
    BY <2>1, <2>2
<1>3. EndsAt(o, read) /\ ~EndsIn(o, "indent") /\ (LinesIndented(printed) => LinesIndented(o)) /\ LinesKept(o)
      /\ InTurn(o, 1, read)
  BY <1>1 DEF HtmlShape, EndsAt, OutKept, EndsIn
<1>4. Parts(o, read, text, read + 1)
  <2> SUFFICES ASSUME o # <<>> PROVE PiecesParted(read, read + 1, ~Tight(o) \/ text[1].k = "blank")
    BY DEF Parts
  <2>1. CASE html[read + 1].t = "inline"
    <3>1. 0 < read /\ o = printed
      BY <1>1, <2>1 DEF HtmlShape
    <3>2. PiecesParted(read, read + 1, ~Tight(printed))
      BY <1>1, <3>1 DEF HtmlShape
    <3>3. (~Tight(o) \/ text[1].k = "blank") <=> ~Tight(printed)
      BY <1>2, <3>1
    <3> QED
      BY <3>2, <3>3 DEF PiecesParted
  <2>2. CASE html[read + 1].t # "inline"
    BY <2>2 DEF PiecesParted
  <2> QED
    BY <2>1, <2>2
<1> DEFINE q == PrintToken(o, text, n, level)
<1>5. /\ q \in HtmlOut /\ LastPiece(q, read + 1)
      /\ LinesIndented(o) /\ (EndsIn(o, "newline") => html[read + 1].t = "code" \/ Nesting(read + 1) = level)
             => LinesIndented(q)
      /\ LinesKept(o) /\ Parts(o, read, text, read + 1) => LinesKept(q)
      /\ InTurn(q, 1, read + 1)
      /\ Tight(q) <=> n = 0 /\ Tight(text)
      /\ EndsIn(q, "newline") => n > 0
      /\ ~EndsIn(q, "indent")
  <2> HIDE DEF text
  <2> QED
    BY <1>1, <1>2, <1>3, PrintWords
<1>6. printed' = q
  OBVIOUS
<1> HIDE DEF q, text
<1>7. HtmlTypeOK'
  <2>1. newlines' \in 0 .. MaxPreserveNewlines + 1
    BY <1>1
  <2> QED
    BY <1>1, <1>5, <1>6, <2>1, HtmlTypeNext
<1>8. ASSUME ~eaten', n > 0 PROVE read = 0 /\ html[1].white > 0 /\ indent_level' = 0
  <2>1. newlines > 0
    BY <1>8
  <2> QED
    BY <1>1, <1>8, <2>1 DEF HtmlShape
<1>9. HtmlShape'
  <2>1. html'[read'].t # "text"
    OBVIOUS
  <2>2. html'[read'].t = "inline" => ~eaten' /\ (Tight(printed') \/ (read' = 1 /\ html'[1].white > 0))
    <3> SUFFICES ASSUME html[read + 1].t = "inline"
                 PROVE  ~eaten' /\ (Tight(q) \/ (read + 1 = 1 /\ html[1].white > 0))
      BY <1>6
    <3>1. ~eaten' /\ ~blank
      OBVIOUS
    <3>2. CASE n = 0
      BY <1>2, <1>5, <3>1, <3>2
    <3>3. CASE n > 0
      BY <1>8, <3>1, <3>3
    <3> QED
      BY <3>2, <3>3
  <2>3. ~eaten' /\ EndsIn(printed', "newline") => indent_level' = 0
    BY <1>5, <1>6, <1>8
  <2>4. last_token' = "SCRIPT_START" => read' > 0 /\ html'[read'].t = "script"
    BY <1>1
  <2>5. read' > 0 /\ LastPiece(printed', read') /\ InTurn(printed', 1, read') /\ ~EndsIn(printed', "indent")
    BY <1>1, <1>5, <1>6
  <2> QED
    BY <2>1, <2>2, <2>3, <2>4, <2>5 DEF HtmlShape, InCode
<1>10. LinesKept(printed)'
  BY <1>3, <1>4, <1>5, <1>6, SamePage
<1>11. HtmlLineInv'
  BY <1>1, <1>5, <1>6, <1>7, <1>9, <1>10 DEF HtmlLineInv
<1>12. LinesIndented(printed) /\ (EndsIn(o, "newline") => Nesting(read + 1) = level)
           => LinesIndented(printed)'
  BY <1>3, <1>5, <1>6, SamePage
<1> QED
  BY <1>11, <1>12

\* What the steps need of the types.
LEMMA HtmlLineTypes ==
    ASSUME HtmlLineInv
    PROVE  /\ html \in HtmlSource /\ Len(html) \in Nat /\ read \in Nat /\ read \in 0 .. Len(html)
           /\ TableOK /\ indent_level \in Nat /\ misled \in BOOLEAN /\ printed \in HtmlOut /\ Begun(printed)
           /\ newlines \in Nat /\ newlines \in 0 .. MaxPreserveNewlines + 1 /\ MaxPreserveNewlines \in Nat
           /\ NewlinesAfter \in Nat /\ BlankAfter \in BOOLEAN /\ eaten \in BOOLEAN
<1>1. html \in HtmlSource /\ HtmlTypeOK /\ printed \in HtmlOut /\ HtmlShape
  BY DEF HtmlLineInv
<1>2. Len(html) \in Nat /\ MaxPreserveNewlines \in Nat /\ \A m \in 1 .. Len(html) : html[m].white \in Int /\ html[m].white >= NoWhite
  BY <1>1, PageItems, HtmlAssumption
<1>3. /\ read \in 0 .. Len(html) /\ indent_level \in Nat /\ misled \in BOOLEAN
      /\ newlines \in 0 .. MaxPreserveNewlines + 1 /\ eaten \in BOOLEAN
  BY <1>1 DEF HtmlTypeOK
<1>4. read \in Nat /\ newlines \in Nat
  BY <1>2, <1>3
<1>5. TableOK
  BY <1>1, TypeIsTable
<1>6. Begun(printed)
  <2>1. CASE read = 0
    BY <1>1, <2>1 DEF HtmlShape, Begun
  <2>2. CASE read > 0
    BY <1>1, <1>4, <2>2 DEF HtmlShape, Begun
  <2> QED
    BY <1>4, <2>1, <2>2
<1>7. BlankAfter \in BOOLEAN
  BY DEF BlankAfter
<1>8. NewlinesAfter \in Nat
  <2>1. CASE BlankAfter
    <3>1. read + 2 \in 1 .. Len(html) /\ html[read + 2].white # NoWhite
      BY <1>2, <1>4, <2>1 DEF BlankAfter
    <3>2. html[read + 2].white \in Nat
      BY <1>2, <3>1 DEF NoWhite
    <3> QED
      BY <1>2, <2>1, <3>2 DEF NewlinesAfter, Counted
  <2>2. CASE ~BlankAfter
    BY <1>4, <2>2 DEF NewlinesAfter
  <2> QED
    BY <2>1, <2>2
<1> QED
  BY <1>1, <1>2, <1>3, <1>4, <1>5, <1>6, <1>7, <1>8

\* A new line, behind an extra one or not.
LEMMA OwnLineIs ==
    ASSUME NEW q \in HtmlOut, Begun(q), NEW liner \in BOOLEAN
    PROVE  /\ OutKept(q, PrintNewline(ExtraLine(q, liner), FALSE))
           /\ \/ PrintNewline(ExtraLine(q, liner), FALSE) = q
              \/ EndsIn(PrintNewline(ExtraLine(q, liner), FALSE), "newline")
           /\ OutKept(q, PrintNewline(q, FALSE))
           /\ PrintNewline(q, FALSE) = q \/ EndsIn(PrintNewline(q, FALSE), "newline")
<1> DEFINE e == ExtraLine(q, liner)
           o == PrintNewline(e, FALSE)
<1>1. OutKept(q, e) /\ Begun(e)
  BY ExtraLineIs
<1>2. e \in HtmlOut /\ (e = <<>> <=> q = <<>>)
  BY <1>1 DEF OutKept
<1> HIDE DEF e
<1>3. OutKept(e, o) /\ (e # <<>> => EndsIn(o, "newline"))
  BY <1>1, <1>2, PrintNewlineIs
<1>4. e = <<>> => o = q
  BY <1>2 DEF PrintNewline
<1>5. OutKept(q, o)
  BY <1>1, <1>3, KeptTwice
<1>6. /\ OutKept(q, PrintNewline(q, FALSE))
      /\ PrintNewline(q, FALSE) = q \/ EndsIn(PrintNewline(q, FALSE), "newline")
  <2>1. OutKept(q, PrintNewline(q, FALSE)) /\ (q # <<>> => EndsIn(PrintNewline(q, FALSE), "newline"))
    BY PrintNewlineIs
  <2>2. q = <<>> => PrintNewline(q, FALSE) = q
    BY DEF PrintNewline
  <2> QED
    BY <2>1, <2>2
<1> QED
  BY <1>3, <1>4, <1>5, <1>6 DEF e

\* A start tag is printed at the beginning of a line, or behind its text.
LEMMA StartTagLines ==
    ASSUME HtmlLineInv, StartTag
    PROVE  /\ HtmlLineInv'
           /\ LinesIndented(printed) /\ Nesting(read + 1) = indent_level => LinesIndented(printed)'
<1> DEFINE o == PrintNewline(ExtraLine(printed, NextPiece.name \in ExtraLiner), FALSE)
<1>1. /\ html \in HtmlSource /\ Len(html) \in Nat /\ read \in Nat /\ TableOK /\ indent_level \in Nat
      /\ printed \in HtmlOut /\ Begun(printed) /\ NewlinesAfter \in Nat /\ BlankAfter \in BOOLEAN
      /\ misled \in BOOLEAN
  BY HtmlLineTypes
<1>2. /\ current_mode = "TAG" /\ read < Len(html) /\ html[read + 1].t = "start"
      /\ html' = html /\ read' = read + 1 /\ current_mode' = "CONTENT" /\ newlines' = 0
      /\ last_token' = "START" /\ RecordTag(html[read + 1].name)
      /\ printed' = PrintToken(o, TagText(BlankAfter), NewlinesAfter, indent_level)
      /\ indent_level' = IF html[read + 1].name = "html" THEN indent_level ELSE indent_level + 1
  BY DEF StartTag, AtTag, NextPiece, Took
<1>3. eaten' = TRUE /\ last_text' = TRUE
  BY DEF StartTag, Took
<1>4. html[read + 1].name \in Name
  BY <1>1, <1>2, PageItems
<1>5. TableOK' /\ misled' = misled
  BY <1>1, <1>2, <1>4, RecordTagTable DEF RecordTag
<1>6. OutKept(printed, o) /\ (o = printed \/ EndsIn(o, "newline"))
  <2> DEFINE liner == NextPiece.name \in ExtraLiner
  <2>1. liner \in BOOLEAN /\ o = PrintNewline(ExtraLine(printed, liner), FALSE)
    OBVIOUS
  <2> HIDE DEF liner, o
  <2> QED
    BY <1>1, <2>1, OwnLineIs
<1> HIDE DEF o
<1>7. indent_level' \in Nat
  BY <1>1, <1>2
<1> QED
  BY <1>1, <1>2, <1>3, <1>5, <1>6, <1>7, TagStep

\* An end tag.
LEMMA EndTagLines ==
    ASSUME HtmlLineInv, EndTag
    PROVE  /\ HtmlLineInv'
           /\ LinesIndented(printed) /\ Nesting(read + 1) = indent_level' => LinesIndented(printed)'
<1> DEFINE alone == /\ last_token = "CONTENT" /\ ~last_text
                    /\ ~(LastIs(ExtraLine(printed, NextPiece.name = "html"), {"start", "script"})
                         /\ LastName(ExtraLine(printed, NextPiece.name = "html")) \in {NextPiece.name, "a"})
                    /\ ~LastIs(ExtraLine(printed, NextPiece.name = "html"), {"inline"})
           e == ExtraLine(printed, NextPiece.name = "html")
           o == IF alone THEN PrintNewline(e, FALSE) ELSE e
<1>1. /\ html \in HtmlSource /\ Len(html) \in Nat /\ read \in Nat /\ TableOK /\ indent_level \in Nat
      /\ printed \in HtmlOut /\ Begun(printed) /\ NewlinesAfter \in Nat /\ BlankAfter \in BOOLEAN
      /\ misled \in BOOLEAN
  BY HtmlLineTypes
<1>2. /\ current_mode = "TAG" /\ read < Len(html) /\ html[read + 1].t = "end"
      /\ html' = html /\ read' = read + 1 /\ current_mode' = "CONTENT" /\ newlines' = 0
      /\ last_token' = "END" /\ RetrieveTag(html[read + 1].name)
      /\ printed' = PrintToken(o, TagText(BlankAfter), NewlinesAfter, indent_level')
  BY DEF EndTag, AtTag, NextPiece, Took
<1>3. eaten' = TRUE /\ last_text' = TRUE
  BY DEF EndTag, Took
<1>4. html[read + 1].name \in Name
  BY <1>1, <1>2, PageItems
<1>5. TableOK' /\ misled' \in BOOLEAN /\ indent_level' \in Nat
  BY <1>1, <1>2, <1>4, RetrieveTagTable
<1>6. OutKept(printed, o) /\ (o = printed \/ EndsIn(o, "newline"))
  <2>1. OutKept(printed, e) /\ (e = printed \/ EndsIn(e, "newline"))
    BY <1>1, ExtraLineIs
  <2>2. /\ OutKept(printed, PrintNewline(e, FALSE))
        /\ PrintNewline(e, FALSE) = printed \/ EndsIn(PrintNewline(e, FALSE), "newline")
    BY <1>1, OwnLineIs
  <2> HIDE DEF alone, e
  <2> QED
    BY <2>1, <2>2
<1> HIDE DEF o
<1> QED
  BY <1>1, <1>2, <1>3, <1>5, <1>6, TagStep

\* A script or a style, its tag and its contents.
LEMMA ScriptTagLines ==
    ASSUME HtmlLineInv, ScriptTag
    PROVE  /\ HtmlLineInv'
           /\ LinesIndented(printed) /\ Nesting(read + 1) = indent_level => LinesIndented(printed)'
<1> DEFINE o == PrintNewline(printed, FALSE)
<1>1. /\ html \in HtmlSource /\ Len(html) \in Nat /\ read \in Nat /\ TableOK /\ indent_level \in Nat
      /\ printed \in HtmlOut /\ Begun(printed) /\ newlines \in Nat /\ misled \in BOOLEAN
  BY HtmlLineTypes
<1>2. /\ current_mode = "TAG" /\ read < Len(html) /\ html[read + 1].t = "script"
      /\ html' = html /\ read' = read + 1 /\ current_mode' = "CONTENT" /\ newlines' = 0
      /\ last_token' = "SCRIPT_START" /\ RecordTag(html[read + 1].name)
      /\ printed' = PrintToken(o, TagText(FALSE), newlines, indent_level)
      /\ indent_level' = indent_level
  BY DEF ScriptTag, AtTag, NextPiece, Took
<1>3. eaten' = FALSE /\ last_text' = TRUE
  BY DEF ScriptTag, Took
<1>4. html[read + 1].name \in Name
  BY <1>1, <1>2, PageItems
<1>5. TableOK' /\ misled' = misled
  BY <1>1, <1>2, <1>4, RecordTagTable DEF RecordTag
<1>6. OutKept(printed, o) /\ (o = printed \/ EndsIn(o, "newline"))
  BY <1>1, OwnLineIs
<1> HIDE DEF o
<1> QED
  BY <1>1, <1>2, <1>3, <1>5, <1>6, TagStep

\* A tag that has no end.
LEMMA SingleTagLines ==
    ASSUME HtmlLineInv, SingleTag
    PROVE  /\ HtmlLineInv'
           /\ LinesIndented(printed) /\ Nesting(read + 1) = indent_level => LinesIndented(printed)'
<1> DEFINE o == IF html[read + 1].t = "inline" THEN printed ELSE PrintNewline(printed, FALSE)
<1>1. /\ html \in HtmlSource /\ Len(html) \in Nat /\ read \in Nat /\ TableOK /\ indent_level \in Nat
      /\ printed \in HtmlOut /\ Begun(printed) /\ newlines \in Nat /\ misled \in BOOLEAN
  BY HtmlLineTypes
<1>2. /\ current_mode = "TAG" /\ read < Len(html) /\ html[read + 1].t \in {"void", "inline"}
      /\ html' = html /\ read' = read + 1 /\ current_mode' = "CONTENT" /\ newlines' = 0
      /\ last_token' = "SINGLE" /\ UNCHANGED <<tags, tagcount, parent>>
      /\ printed' = PrintToken(o, TagText(FALSE), newlines, indent_level)
      /\ indent_level' = indent_level
  BY DEF SingleTag, AtTag, NextPiece, Took, htmlTable
<1>3. eaten' = FALSE /\ last_text' = TRUE
  BY DEF SingleTag, Took
<1>4. misled' = misled
  BY DEF SingleTag, htmlTable
<1>5. TableOK'
  BY <1>1, <1>2 DEF TableOK
<1>6. OutKept(printed, o) /\ (o = printed \/ EndsIn(o, "newline"))
  BY <1>1, OwnLineIs, KeptAsIs
<1>7. html[read + 1].t = "inline" => o = printed
  OBVIOUS
<1> HIDE DEF o
<1> QED
  BY <1>1, <1>2, <1>3, <1>4, <1>5, <1>6, <1>7, TagStep

\* A comment, or an instruction to the browser.
LEMMA CommentLines ==
    ASSUME HtmlLineInv, Comment
    PROVE  /\ HtmlLineInv'
           /\ LinesIndented(printed) /\ Nesting(read + 1) = indent_level => LinesIndented(printed)'
<1> DEFINE o == PrintNewline(printed, FALSE)
<1>1. /\ html \in HtmlSource /\ Len(html) \in Nat /\ read \in Nat /\ TableOK /\ indent_level \in Nat
      /\ printed \in HtmlOut /\ Begun(printed) /\ NewlinesAfter \in Nat /\ misled \in BOOLEAN
  BY HtmlLineTypes
<1>2. /\ current_mode = "TAG" /\ read < Len(html) /\ html[read + 1].t = "comment"
      /\ html' = html /\ read' = read + 1 /\ current_mode' = "CONTENT" /\ newlines' = 0
      /\ last_token' = "SINGLE" /\ UNCHANGED <<tags, tagcount, parent>>
      /\ printed' = PrintToken(o, TagText(FALSE), NewlinesAfter, indent_level)
      /\ indent_level' = indent_level
  BY DEF Comment, AtTag, NextPiece, Took, htmlTable
<1>3. eaten' = TRUE /\ last_text' = TRUE
  BY DEF Comment, Took
<1>4. misled' = misled
  BY DEF Comment, htmlTable
<1>5. TableOK'
  BY <1>1, <1>2 DEF TableOK
<1>6. OutKept(printed, o) /\ (o = printed \/ EndsIn(o, "newline"))
  BY <1>1, OwnLineIs
<1> HIDE DEF o
<1> QED
  BY <1>1, <1>2, <1>3, <1>4, <1>5, <1>6, TagStep

\* What a style sheet of white space leaves behind the line it begins.
LEMMA EmptySheetIs ==
    ASSUME NEW o \in HtmlOut, EndsIn(o, "newline"),
           NEW w, w = <<Levels(0), HtmlNewline>> \/ w = <<>>
    PROVE  OutKept(o, o \o w) /\ EndsIn(o \o w, "newline")
<1>1. CASE w = <<>>
  <2>1. o \o w = o
    BY <1>1, ConcatEmptySeq DEF HtmlOut
  <2> QED
    BY <2>1, KeptAsIs
<1>2. CASE w = <<Levels(0), HtmlNewline>>
  <2>1. /\ Levels(0) \in [k : {"blank", "newline", "indent"}, n : Int]
        /\ HtmlNewline \in [k : {"blank", "newline", "indent"}, n : Int] /\ HtmlNewline.k = "newline"
    BY DEF Levels, HtmlNewline
  <2> HIDE DEF HtmlNewline
  <2>2. w \in HtmlWhite /\ Len(w) = 2 /\ w[2] = HtmlNewline
    <3> DEFINE W == [k : {"blank", "newline", "indent"}, n : Int]
               e == Levels(0)
    <3>1. e \in W /\ HtmlNewline \in W
      BY <2>1
    <3> HIDE DEF W, e
    <3>2. <<e, HtmlNewline>> \in Seq(W) /\ Len(<<e, HtmlNewline>>) = 2 /\ <<e, HtmlNewline>>[2] = HtmlNewline
      BY <3>1
    <3> QED
      BY <1>2, <3>2 DEF HtmlWhite, W, e
  <2>3. o # <<>> /\ w \in HtmlOut /\ Len(o) \in Nat
    <3>1. w \in HtmlOut
      BY <2>2, ItemsAreOut
    <3>2. Len(o) \in Nat
      BY DEF HtmlOut
    <3> QED
      BY <3>1, <3>2 DEF EndsIn
  <2>4. /\ Len(o \o w) = Len(o) + Len(w) /\ o \o w # <<>>
        /\ \A i \in 1 .. Len(w) : (o \o w)[Len(o) + i] = w[i]
    BY <2>3, ConcatOut
  <2>5. (o \o w)[Len(o \o w)] = HtmlNewline
    BY <2>2, <2>3, <2>4
  <2>6. OutKept(o, o \o w)
    BY <2>2, <2>3, WhiteKeeps
  <2> QED
    BY <2>1, <2>4, <2>5, <2>6 DEF EndsIn
<1> QED
  BY <1>1, <1>2

\* The contents of a script or a style, the formatted text of another formatter.
LEMMA CodeLines ==
    ASSUME HtmlLineInv, Code
    PROVE  /\ HtmlLineInv'
           /\ LinesIndented(printed) => LinesIndented(printed)'
<1>1. /\ html \in HtmlSource /\ Len(html) \in Nat /\ read \in Nat /\ read \in 0 .. Len(html)
      /\ TableOK /\ indent_level \in Nat /\ MaxPreserveNewlines \in Nat
      /\ printed \in HtmlOut /\ Begun(printed) /\ misled \in BOOLEAN /\ newlines \in Nat
  BY HtmlLineTypes
<1>2. HtmlShape /\ LinesKept(printed)
  BY DEF HtmlLineInv
<1>3. /\ InCode /\ read < Len(html) /\ html' = html /\ current_mode' = "TAG" /\ last_token' = "SCRIPT"
      /\ indent_level' = indent_level /\ UNCHANGED <<tags, tagcount, parent>>
  BY DEF Code, htmlTable
<1>4. last_text' = TRUE /\ eaten' = TRUE /\ misled' = misled
  BY DEF Code, htmlTable
<1>5. TableOK'
  BY <1>1, <1>3 DEF TableOK
<1>6. newlines = 0 /\ read > 0 /\ html[read].t = "script" /\ LastPiece(printed, read)
      /\ InTurn(printed, 1, read) /\ ~EndsIn(printed, "indent")
  BY <1>2, <1>3 DEF HtmlShape
<1>7. printed # <<>>
  BY <1>1, <1>6 DEF LastPiece, HtmlOut
<1> DEFINE o == PrintNewline(printed, FALSE)
           text == <<PieceAt(read + 1)>>
           q == PrintRaw(o, text, newlines)
<1>8. OutKept(printed, o) /\ EndsIn(o, "newline")
  BY <1>1, <1>7, PrintNewlineIs
<1>9. o \in HtmlOut /\ LastPiece(o, read) /\ LinesKept(o) /\ (LinesIndented(printed) => LinesIndented(o))
      /\ InTurn(o, 1, read)
  <2> HIDE DEF o
  <2> QED
    BY <1>1, <1>2, <1>6, <1>8 DEF OutKept
<1>10. newlines' = 0 /\ read' \in 0 .. Len(html) /\ read' \in Nat /\ read' > 0
  <2>1. (read' = read + 1 /\ newlines' = 0) \/ (read' = read /\ newlines' = newlines)
    BY DEF Code
  <2> QED
    BY <1>1, <1>3, <1>6, <2>1
<1>11. CASE NextPiece.t = "code"
  <2>1. read' = read + 1 /\ printed' = PrintNewline(q, TRUE) /\ html[read + 1].t = "code"
    BY <1>11 DEF Code, NextPiece
  <2>2. Words(text, read + 1, read + 1)
    BY <1>1, TagWords
  <2>3. EndsAt(o, read) /\ Fits(o, text, read + 1) /\ Parts(o, read, text, read + 1)
    BY <1>9, <2>1 DEF EndsAt, Fits, Parts, PiecesParted
  <2>4. /\ q \in HtmlOut /\ LastPiece(q, read + 1) /\ LinesKept(q) /\ InTurn(q, 1, read + 1)
        /\ LinesIndented(o) => LinesIndented(q)
    <3> HIDE DEF o, text
    <3> QED
      BY <1>1, <1>9, <2>2, <2>3, PrintRawIs
  <2> HIDE DEF q
  <2>5. Begun(q) /\ q # <<>>
    <3>1. DOMAIN q = 1 .. Len(q) /\ \E i \in DOMAIN q : TRUE
      BY <2>4, SeqItems DEF LastPiece, HtmlOut
    <3>2. q # <<>>
      BY <3>1
    <3> QED
      BY <1>1, <2>4, <3>2 DEF Begun
  <2>6. OutKept(q, printed') /\ EndsIn(printed', "newline")
    BY <2>1, <2>4, <2>5, PrintNewlineIs
  <2>7. /\ printed' \in HtmlOut /\ LastPiece(printed', read + 1) /\ LinesKept(printed')
        /\ InTurn(printed', 1, read + 1)
        /\ LinesIndented(o) => LinesIndented(printed')
    <3> HIDE DEF o
    <3> QED
      BY <1>1, <2>4, <2>6 DEF OutKept
  <2>8. ~EndsIn(printed', "indent")
    BY <2>6 DEF EndsIn
  <2>9. HtmlShape'
    <3>1. ~InCode'
      BY <1>3 DEF InCode
    <3>2. PiecesParted(read, read + 1, ~Tight(printed))'
      BY <1>3, <2>1 DEF PiecesParted
    <3>3. current_mode' # "CONTENT" /\ ~(newlines' > 0) /\ ~(read' = 0)
      BY <1>3, <1>10
    <3>4. LastPiece(printed', read') /\ InTurn(printed', 1, read') /\ ~EndsIn(printed', "indent")
      BY <2>1, <2>7, <2>8
    <3> QED
      BY <3>1, <3>2, <3>3, <3>4 DEF HtmlShape
  <2>10. HtmlTypeOK'
    BY <1>1, <1>3, <1>4, <1>5, <1>10, <2>7, HtmlTypeNext
  <2> HIDE DEF o
  <2> QED
    BY <1>1, <1>3, <1>9, <2>7, <2>9, <2>10, SamePage DEF HtmlLineInv
<1>12. CASE NextPiece.t # "code"
  <2> DEFINE w == IF html[read].name = "style" THEN <<Levels(0), HtmlNewline>> ELSE <<>>
  <2>1. read' = read /\ printed' = IF NextPiece.white = NoWhite THEN printed ELSE o \o w
    BY <1>12 DEF Code
  <2>2. OutKept(o, o \o w) /\ ~EndsIn(o \o w, "indent")
    <3> HIDE DEF o
    <3> QED
      BY <1>8, <1>9, EmptySheetIs DEF EndsIn
  <2>3. OutKept(printed, printed') /\ ~EndsIn(printed', "indent")
    <3>1. OutKept(printed, o \o w)
      BY <1>8, <2>2, KeptTwice
    <3> HIDE DEF o, w
    <3> QED
      BY <1>1, <1>6, <2>1, <2>2, <3>1, KeptAsIs
  <2>6. /\ printed' \in HtmlOut /\ LastPiece(printed', read) /\ LinesKept(printed') /\ InTurn(printed', 1, read)
        /\ LinesIndented(printed) => LinesIndented(printed')
    <3> HIDE DEF o
    <3> QED
      BY <1>1, <1>2, <1>6, <2>3, 1 \in Nat DEF OutKept
  <2>4. HtmlShape'
    <3>1. ~InCode'
      BY <1>3 DEF InCode
    <3>2. PiecesParted(read, read + 1, ~Tight(printed))'
      BY <1>3, <1>6, <2>1 DEF PiecesParted
    <3>3. current_mode' # "CONTENT" /\ ~(newlines' > 0) /\ ~(read' = 0)
      BY <1>3, <1>10
    <3>4. LastPiece(printed', read') /\ InTurn(printed', 1, read') /\ ~EndsIn(printed', "indent")
      BY <2>1, <2>3, <2>6
    <3> QED
      BY <3>1, <3>2, <3>3, <3>4 DEF HtmlShape
  <2>5. HtmlTypeOK'
    BY <1>1, <1>3, <1>4, <1>5, <1>10, <2>6, HtmlTypeNext
  <2> HIDE DEF o
  <2> QED
    BY <1>1, <1>3, <2>4, <2>5, <2>6, SamePage DEF HtmlLineInv
<1> QED
  BY <1>11, <1>12

\* The least and the greatest of some numbers.
LEMMA MinIs ==
    ASSUME NEW S, S \subseteq Nat, S # {}
    PROVE  MinOf(S) \in S /\ \A m \in S : MinOf(S) <= m
<1>1. \E n \in S : \A m \in S : n <= m
  BY LeastNumber
<1> QED
  BY <1>1 DEF MinOf
\* The largest of a bounded set of numbers.
LEMMA MaxIs ==
    ASSUME NEW S, S \subseteq Nat, S # {}, NEW b \in Nat, \A m \in S : m <= b
    PROVE  MaxOf(S) \in S /\ \A m \in S : m <= MaxOf(S)
<1> DEFINE U == {x \in Nat : \A m \in S : m <= x}
<1>1. PICK u \in U : \A x \in U : u <= x
  BY LeastNumber, U \subseteq Nat, b \in U
<1>2. u \in S
  <2> SUFFICES ASSUME u \notin S PROVE FALSE
    OBVIOUS
  <2>1. \A m \in S : m \in Nat /\ m <= u /\ m # u
    BY <1>1
  <2>2. u \in Nat /\ u > 0
    <3>1. PICK m \in S : TRUE
      OBVIOUS
    <3>2. m \in Nat /\ m <= u /\ m # u /\ u \in Nat
      BY <1>1, <2>1, <3>1
    <3> QED
      BY <3>2
  <2>3. u - 1 \in U
    BY <2>1, <2>2
  <2> QED
    BY <1>1, <2>2, <2>3
<1> QED
  BY <1>1, <1>2 DEF MaxOf

\* A blank behind words.
LEMMA WordsBlank ==
    ASSUME NEW text, NEW a \in Nat, NEW b \in Nat, Words(text, a, b)
    PROVE  /\ Words(text \o <<HtmlBlank>>, a, b) /\ ~Tight(text \o <<HtmlBlank>>)
           /\ (text \o <<HtmlBlank>>)[1] = text[1] /\ text \o <<>> = text
<1> DEFINE B == <<HtmlBlank>>
           q == text \o B
<1>1. text \in HtmlOut /\ LastPiece(text, b) /\ LinesKept(text) /\ InTurn(text, a, b)
  BY DEF Words
<1>2. Len(text) \in Nat /\ DOMAIN text = 1 .. Len(text) /\ Len(text) >= 1 /\ text # <<>>
  BY <1>1, SeqItems DEF LastPiece, HtmlOut
<1>3. HtmlBlank \in [k : HtmlKinds, n : Int] /\ HtmlBlank.k = "blank"
  BY DEF HtmlBlank, HtmlKinds
<1> HIDE DEF HtmlBlank
<1>4. B \in HtmlWhite /\ B \in HtmlOut /\ Len(B) = 1 /\ B[1] = HtmlBlank
  BY <1>3, ItemsAreOut, OneItem DEF HtmlOut
<1> HIDE DEF B
<1>5. /\ q \in HtmlOut /\ Len(q) = Len(text) + 1 /\ \A i \in 1 .. Len(text) : q[i] = text[i]
      /\ q[Len(text) + 1] = HtmlBlank /\ q # <<>>
  <2>1. /\ q \in HtmlOut /\ Len(q) = Len(text) + Len(B) /\ \A i \in 1 .. Len(text) : q[i] = text[i]
        /\ \A i \in 1 .. Len(B) : q[Len(text) + i] = B[i]
        /\ q # <<>>
    BY <1>1, <1>2, <1>4, ConcatOut
  <2> HIDE DEF q
  <2>2. 1 \in 1 .. Len(B)
    BY <1>4
  <2> QED
    BY <1>4, <2>1, <2>2
<1>6. DOMAIN q = 1 .. Len(q)
  BY <1>5, SeqItems DEF HtmlOut
<1>7. OutKept(text, q)
  BY <1>1, <1>2, <1>4, WhiteKeeps
<1> HIDE DEF q
<1>8. LastPiece(q, b) /\ LinesKept(q) /\ InTurn(q, a, b)
  BY <1>1, <1>7 DEF OutKept
<1>9. \A i \in DOMAIN q : q[i].k \in {"piece", "blank"}
  BY <1>2, <1>3, <1>5, <1>6 DEF Words
<1>10. q[1] = text[1] /\ (Len(text) > 1 => q[2] = text[2]) /\ Len(q) > Len(text)
  BY <1>2, <1>5
<1>11. Words(q, a, b)
  BY <1>2, <1>5, <1>8, <1>9, <1>10 DEF Words
<1>12. ~Tight(q)
  BY <1>3, <1>5 DEF Tight, EndsIn
<1>13. text \o <<>> = text
  BY <1>1, ConcatEmptySeq DEF HtmlOut
<1> QED
  BY <1>10, <1>11, <1>12, <1>13 DEF q, B

\* What get_content reads: the words up to a tag or to the end, and the white space before the
\* tag; m is the last of them, n the newlines that come with them, text is what is printed.
Content(m, text, n) ==
    /\ m \in read .. Len(html) /\ \A k \in read + 1 .. m : html[k].t = "text"
    /\ m < Len(html) => html[m + 1].t # "text"
    /\ m = Len(html) => m > read
    /\ text = IF m = Len(html) \/ WhiteBefore(m + 1) = NoWhite THEN ContentTo[m]
              ELSE ContentTo[m] \o <<HtmlBlank>>
    /\ n \in 0 .. MaxPreserveNewlines + 1
    /\ n > 0 => \/ newlines > 0
                \/ \E w \in read + 1 .. m + 1 : w <= Len(html) /\ WhiteBefore(w) # NoWhite /\ html[w].white > 0
    /\ read' = m /\ eaten' = TRUE /\ last_text' \in BOOLEAN
    /\ printed' = PrintToken(printed, text, n, indent_level)
    /\ newlines' = IF Skipped(printed, text) THEN n ELSE 0

\* What a step of GetContent reads and puts behind the output: the pieces m .. n of text, with the newlines the page has among them.
LEMMA ContentIs ==
    ASSUME HtmlLineInv, GetContent
    PROVE  \E m, text, n : Content(m, text, n)
<1>1. /\ html \in HtmlSource /\ Len(html) \in Nat /\ read \in Nat /\ read \in 0 .. Len(html)
      /\ MaxPreserveNewlines \in Nat /\ newlines \in 0 .. MaxPreserveNewlines + 1 /\ eaten \in BOOLEAN
  BY HtmlLineTypes
<1>2. \A k \in 1 .. Len(html) : html[k].white \in Int /\ html[k].white >= NoWhite
  BY <1>1, PageItems
<1> DEFINE tag == {k \in read + 1 .. Len(html) : html[k].t # "text"}
           end == IF tag = {} THEN Len(html) ELSE MinOf(tag) - 1
           upTo == IF tag = {} THEN end ELSE end + 1
           whites == {k \in read + 1 .. upTo : WhiteBefore(k) # NoWhite}
           text == ContentTo[upTo]
           n == IF whites = {} THEN newlines
                ELSE Counted(html[MaxOf(whites)].white)
<1>3. /\ text # <<>> \/ tag # {}
      /\ read' = end /\ eaten' = TRUE /\ last_text' \in BOOLEAN
      /\ printed' = PrintToken(printed, text, n, indent_level)
      /\ newlines' = IF Skipped(printed, text) THEN n ELSE 0
  BY DEF GetContent
<1>4. /\ end \in read .. Len(html) /\ \A k \in read + 1 .. end : html[k].t = "text"
      /\ end < Len(html) => html[end + 1].t # "text"
      /\ upTo = IF end = Len(html) THEN end ELSE end + 1
      /\ tag # {} <=> end < Len(html)
  <2>1. CASE tag = {}
    BY <1>1, <2>1
  <2>2. CASE tag # {}
    <3>1. MinOf(tag) \in tag /\ \A k \in tag : MinOf(tag) <= k
      BY <1>1, <2>2, MinIs, tag \subseteq Nat
    <3> DEFINE x == MinOf(tag)
    <3>2. end = x - 1 /\ upTo = x - 1 + 1
      BY <2>2
    <3> HIDE DEF x, end, upTo
    <3>3. x \in Nat /\ x \in read + 1 .. Len(html) /\ html[x].t # "text" /\ \A k \in tag : x <= k
      BY <1>1, <3>1 DEF x
    <3>4. end \in read .. Len(html) /\ end < Len(html) /\ end + 1 = x /\ upTo = end + 1
      BY <1>1, <3>2, <3>3
    <3>5. \A k \in read + 1 .. end : html[k].t = "text"
      BY <1>1, <3>3, <3>4
    <3> QED
      BY <1>1, <2>2, <3>3, <3>4, <3>5
  <2> QED
    BY <2>1, <2>2
<1> HIDE DEF tag, end, upTo
<1>5. upTo \in read .. Len(html) /\ upTo <= end + 1
  BY <1>1, <1>4
<1>6. n \in 0 .. MaxPreserveNewlines + 1
      /\ (n > 0 => \/ newlines > 0
                   \/ \E w \in read + 1 .. end + 1 : w <= Len(html) /\ WhiteBefore(w) # NoWhite /\ html[w].white > 0)
  <2>1. CASE whites = {}
    BY <1>1, <2>1
  <2>2. CASE whites # {}
    <3>1. MaxOf(whites) \in whites
      BY <1>1, <1>5, <2>2, MaxIs, whites \subseteq Nat, \A k \in whites : k <= Len(html)
    <3> DEFINE w == MaxOf(whites)
    <3>2. n = Counted(html[w].white)
      BY <2>2
    <3>3. w \in read + 1 .. end + 1 /\ w <= Len(html) /\ WhiteBefore(w) # NoWhite /\ w \in 1 .. Len(html)
      BY <1>1, <1>4, <1>5, <3>1
    <3> HIDE DEF w, n, whites
    <3>4. html[w].white # NoWhite
      BY <3>3 DEF WhiteBefore
    <3>5. html[w].white \in Nat
      BY <1>2, <3>3, <3>4 DEF NoWhite
    <3> QED
      BY <1>1, <3>2, <3>3, <3>5 DEF Counted
  <2> QED
    BY <2>1, <2>2
<1>7. text = IF end = Len(html) \/ WhiteBefore(end + 1) = NoWhite THEN ContentTo[end]
             ELSE ContentTo[end] \o <<HtmlBlank>>
  <2>1. CASE end = Len(html)
    BY <1>4, <2>1
  <2>2. CASE end # Len(html)
    <3>1. upTo = end + 1 /\ end + 1 \in read + 1 .. Len(html) /\ end + 1 - 1 = end
      BY <1>1, <1>4, <2>2
    <3>2. ContentTo[end + 1] = TextStep(ContentTo[end], end + 1)
      <4>1. \A k \in read + 1 .. Len(html) : ContentTo[k] = TextStep(ContentTo[k - 1], k)
        BY <1>1, ContentToIs
      <4> DEFINE k == end + 1
      <4>2. k \in read + 1 .. Len(html) /\ k - 1 = end
        BY <1>1, <1>4, <3>1
      <4> HIDE DEF k
      <4>3. ContentTo[k] = TextStep(ContentTo[k - 1], k)
        BY <4>1, <4>2
      <4>4. ContentTo[k] = TextStep(ContentTo[end], k)
        BY <4>2, <4>3
      <4> QED
        BY <4>4 DEF k
    <3>3. html[end + 1].t # "text"
      BY <1>1, <1>4, <2>2
    <3>4. ContentTo[end] \in HtmlOut
      <4>1. CASE end = read
        BY <1>1, <4>1, ContentToIs, ItemsAreOut
      <4>2. CASE end # read
        <5>1. end \in read + 1 .. Len(html)
          BY <1>1, <1>4, <4>2
        <5> QED
          BY <1>1, <1>4, <5>1, ContentWords DEF Words
      <4> QED
        BY <4>1, <4>2
    <3> DEFINE t == ContentTo[end]
    <3>5. <<HtmlBlank>> \in HtmlOut
      BY ItemsAreOut
    <3>6. t \o <<>> = t /\ t \o <<HtmlBlank>> \o <<>> = t \o <<HtmlBlank>>
      <4>1. t \o <<HtmlBlank>> \in HtmlOut
        BY <3>4, <3>5, ConcatOut
      <4> QED
        BY <3>4, <4>1, ConcatEmptySeq DEF HtmlOut
    <3> HIDE DEF t
    <3> QED
      BY <2>2, <3>1, <3>2, <3>3, <3>6 DEF TextStep, t
  <2> QED
    BY <2>1, <2>2
<1>8. end = Len(html) => end > read
  <2> SUFFICES ASSUME end = Len(html), ~(end > read) PROVE FALSE
    OBVIOUS
  <2>1. end = read /\ text = ContentTo[read]
    BY <1>1, <1>4, <1>7
  <2>2. text = <<>> /\ tag = {}
    BY <1>1, <1>4, <2>1, ContentToIs
  <2> QED
    BY <1>3, <2>2
<1> HIDE DEF text, n
<1>9. Content(end, text, n)
  BY <1>3, <1>4, <1>6, <1>7, <1>8 DEF Content
<1> QED
  BY <1>9

\* What is read is text, or white space only.
LEMMA GetContentLines ==
    ASSUME HtmlLineInv, GetContent
    PROVE  /\ HtmlLineInv'
           /\ /\ LinesIndented(printed)
              /\ read < Len(html) /\ html[read + 1].t = "text" => Nesting(read + 1) = indent_level
              => LinesIndented(printed)'
<1>1. /\ html \in HtmlSource /\ Len(html) \in Nat /\ read \in Nat /\ read \in 0 .. Len(html)
      /\ TableOK /\ indent_level \in Nat /\ MaxPreserveNewlines \in Nat
      /\ printed \in HtmlOut /\ misled \in BOOLEAN /\ eaten \in BOOLEAN
  BY HtmlLineTypes
<1>2. HtmlShape /\ LinesKept(printed)
  BY DEF HtmlLineInv
<1>3. /\ current_mode = "CONTENT" /\ ~InCode /\ html' = html
      /\ current_mode' = "TAG" /\ last_token' = "CONTENT"
      /\ indent_level' = indent_level /\ UNCHANGED <<tags, tagcount, parent>>
  BY DEF GetContent, htmlTable
<1>4. misled' = misled
  BY DEF GetContent, htmlTable
<1>5. TableOK'
  BY <1>1, <1>3 DEF TableOK
<1>6. /\ newlines = 0 /\ ~EndsIn(printed, "indent")
      /\ ~eaten /\ EndsIn(printed, "newline") => indent_level = 0
      /\ read = 0 => printed = <<>> /\ indent_level = 0
      /\ read > 0 => LastPiece(printed, read)
      /\ InTurn(printed, 1, read)
      /\ read > 0 => html[read].t # "text"
      /\ read > 0 /\ html[read].t = "inline" => ~eaten /\ (Tight(printed) \/ (read = 1 /\ html[1].white > 0))
  BY <1>2, <1>3 DEF HtmlShape
<1>7. PICK m, text, n : Content(m, text, n)
  BY ContentIs
<1>8. /\ m \in read .. Len(html) /\ \A k \in read + 1 .. m : html[k].t = "text"
      /\ m < Len(html) => html[m + 1].t # "text"
      /\ m = Len(html) => m > read
      /\ text = IF m = Len(html) \/ WhiteBefore(m + 1) = NoWhite THEN ContentTo[m]
                ELSE ContentTo[m] \o <<HtmlBlank>>
      /\ n \in 0 .. MaxPreserveNewlines + 1
      /\ n > 0 => \E w \in read + 1 .. m + 1 : w <= Len(html) /\ WhiteBefore(w) # NoWhite /\ html[w].white > 0
      /\ read' = m
      /\ printed' = PrintToken(printed, text, n, indent_level)
      /\ newlines' = IF Skipped(printed, text) THEN n ELSE 0
  BY <1>6, <1>7 DEF Content
<1>9. last_text' \in BOOLEAN /\ eaten' = TRUE
  BY <1>7 DEF Content
<1>10. ~InCode'
  BY <1>3 DEF InCode
<1>11. m \in Nat /\ n \in Nat /\ newlines' \in 0 .. MaxPreserveNewlines + 1 /\ read' \in 0 .. Len(html)
  BY <1>1, <1>8
<1>12. ASSUME printed' \in HtmlOut
       PROVE  HtmlTypeOK'
  BY <1>1, <1>3, <1>4, <1>5, <1>9, <1>11, <1>12, HtmlTypeNext
\* The piece read last and the next one.
<1>13. ASSUME read > 0, NEW white \in BOOLEAN, read < Len(html),
              white <=> ~Tight(printed) \/ WhiteBefore(read + 1) # NoWhite
       PROVE  PiecesParted(read, read + 1, white)
  <2>1. CASE html[read].t = "inline"
    <3>1. WhiteBefore(read + 1) = html[read + 1].white
      BY <1>6, <1>13, <2>1 DEF WhiteBefore
    <3>2. Tight(printed) \/ (read = 1 /\ html[1].white > 0)
      BY <1>6, <1>13, <2>1
    <3>3. CASE html[read + 1].white # NoWhite
      BY <1>13, <3>1, <3>3 DEF PiecesParted
    <3>4. CASE html[read + 1].white = NoWhite
      <4>1. white => MayPart(read, read + 1)
        BY <1>13, <3>1, <3>2, <3>4 DEF MayPart
      <4> QED
        BY <3>4, <4>1 DEF PiecesParted
    <3> QED
      BY <3>3, <3>4
  <2>2. CASE html[read].t # "inline"
    BY <1>6, <1>13, <2>2 DEF PiecesParted
  <2> QED
    BY <2>1, <2>2
<1>14. CASE m = read
  <2>1. read < Len(html) /\ html[read + 1].t # "text"
    BY <1>1, <1>8, <1>14
  <2>2. /\ WhiteBefore(read + 1) = NoWhite => text = <<>>
        /\ WhiteBefore(read + 1) # NoWhite => text = <<HtmlBlank>>
    <3>1. ContentTo[m] = <<>>
      BY <1>1, <1>14, ContentToIs
    <3>2. <<>> \o <<HtmlBlank>> = <<HtmlBlank>>
      BY ItemsAreOut, ConcatEmptySeq DEF HtmlOut
    <3> QED
      BY <1>8, <1>14, <2>1, <3>1, <3>2
  <2>3. n > 0 => WhiteBefore(read + 1) # NoWhite /\ html[read + 1].white > 0
    <3>1. \A w \in read + 1 .. read + 1 : w = read + 1
      BY <1>1
    <3> QED
      BY <1>8, <1>14, <3>1
  <2>4. CASE read = 0
    <3>1. printed = <<>>
      BY <1>6, <2>4
    <3>2. Skipped(printed, text)
      <4>1. <<HtmlBlank>> \in HtmlOut /\ DOMAIN <<HtmlBlank>> = {1} /\ <<HtmlBlank>>[1].k = "blank"
        BY ItemsAreOut, OneItem DEF HtmlBlank
      <4>2. DOMAIN <<>> = {}
        OBVIOUS
      <4> QED
        BY <2>2, <3>1, <4>1, <4>2 DEF Skipped
    <3>3. printed' = printed
      BY <1>8, <3>2 DEF PrintToken
    <3>4. HtmlShape'
      <4>1. newlines' > 0 => html'[1].white > 0
        BY <1>3, <1>8, <2>3, <2>4, <3>2
      <4>2. read' = 0 /\ printed' = <<>> /\ indent_level' = 0 /\ current_mode' # "CONTENT"
        BY <1>3, <1>6, <1>8, <1>14, <2>4, <3>1, <3>3
      <4>3. ~EndsIn(printed', "indent") /\ InTurn(printed', 1, read')
        BY <1>6, <1>8, <1>14, <3>3
      <4> QED
        BY <1>10, <4>1, <4>2, <4>3 DEF HtmlShape
    <3>5. LinesKept(printed)' /\ (LinesIndented(printed) => LinesIndented(printed)')
      BY <1>2, <1>3, <3>3, SamePage
    <3> QED
      BY <1>1, <1>3, <1>12, <3>3, <3>4, <3>5 DEF HtmlLineInv
  <2>5. CASE read > 0
    <3>1. LastPiece(printed, read)
      BY <1>6, <2>5
    <3>2. ~Skipped(printed, text)
      <4>1. printed # <<>>
        BY <1>1, <3>1 DEF LastPiece, HtmlOut
      <4> QED
        BY <4>1 DEF Skipped
    <3>3. EndsIn(printed, "newline") /\ text # <<>> => indent_level = 0
      <4>1. text # <<>> => ~eaten
        BY <1>1, <2>2 DEF WhiteBefore
      <4> QED
        BY <1>6, <4>1
    <3>4. text = <<>> => n = 0
      <4>1. text = <<>> => ~(n > 0)
        <5>1. <<HtmlBlank>> # <<>>
          OBVIOUS
        <5> QED
          BY <2>2, <2>3, <5>1
      <4> QED
        BY <1>11, <4>1
    <3>5. /\ OutKept(printed, printed') /\ ~EndsIn(printed', "indent")
          /\ Tight(printed') <=> Tight(printed) /\ text = <<>>
      BY <1>1, <1>6, <1>8, <1>11, <2>2, <3>1, <3>3, <3>4, PrintBlank
    <3>6. /\ printed' \in HtmlOut /\ LinesKept(printed') /\ LastPiece(printed', read)
          /\ LinesIndented(printed) => LinesIndented(printed')
          /\ InTurn(printed', 1, read)
      BY <1>1, <1>2, <1>6, <3>1, <3>5, 1 \in Nat DEF OutKept
    <3>7. PiecesParted(read, read + 1, ~Tight(printed))'
      <4>1. <<HtmlBlank>> # <<>>
        OBVIOUS
      <4>2. ~Tight(printed') <=> ~Tight(printed) \/ WhiteBefore(read + 1) # NoWhite
        BY <2>2, <3>5, <4>1
      <4>3. (~Tight(printed')) \in BOOLEAN
        OBVIOUS
      <4>4. PiecesParted(read, read + 1, ~Tight(printed'))
        BY <1>13, <2>1, <2>5, <4>2, <4>3
      <4> QED
        BY <1>3, <1>8, <1>14, <4>4 DEF PiecesParted, MayPart
    <3>8. HtmlShape'
      <4>1. current_mode' # "CONTENT" /\ ~(newlines' > 0) /\ ~(read' = 0) /\ LastPiece(printed', read')
            /\ InTurn(printed', 1, read')
        BY <1>1, <1>3, <1>8, <1>14, <2>5, <3>2, <3>6
      <4> QED
        BY <1>10, <3>5, <3>7, <4>1 DEF HtmlShape
    <3> QED
      BY <1>1, <1>3, <1>12, <3>6, <3>8, SamePage DEF HtmlLineInv
  <2> QED
    BY <1>1, <2>4, <2>5
<1>15. CASE m # read
  <2>1. m \in read + 1 .. Len(html) /\ m > 0 /\ read < Len(html) /\ html[read + 1].t = "text" /\ html[m].t = "text"
    BY <1>1, <1>8, <1>15
  <2>2. /\ Words(ContentTo[m], read + 1, m) /\ Tight(ContentTo[m])
        /\ ContentTo[m][1].k = "blank" <=> WhiteBefore(read + 1) # NoWhite
    BY <1>1, <1>8, <2>1, ContentWords
  <2>3. m < Len(html) => WhiteBefore(m + 1) = html[m + 1].white
    BY <1>1, <2>1 DEF WhiteBefore
  <2>4. /\ Words(text, read + 1, m) /\ text[1] = ContentTo[m][1]
        /\ Tight(text) <=> m = Len(html) \/ WhiteBefore(m + 1) = NoWhite
    <3> DEFINE t == ContentTo[m]
    <3>1. Words(t \o <<HtmlBlank>>, read + 1, m) /\ ~Tight(t \o <<HtmlBlank>>) /\ (t \o <<HtmlBlank>>)[1] = t[1]
      BY <1>1, <1>11, <2>2, WordsBlank
    <3> HIDE DEF t
    <3>2. Words(t, read + 1, m) /\ Tight(t)
      BY <2>2 DEF t
    <3>3. text = IF m = Len(html) \/ WhiteBefore(m + 1) = NoWhite THEN t ELSE t \o <<HtmlBlank>>
      BY <1>8 DEF t
    <3>4. Words(text, read + 1, m) /\ text[1] = t[1] /\ (Tight(text) <=> m = Len(html) \/ WhiteBefore(m + 1) = NoWhite)
      BY <3>1, <3>2, <3>3
    <3> QED
      BY <3>4 DEF t
  <2>5. ~Skipped(printed, text)
    <3>1. read + 1 \in Nat
      BY <1>1
    <3>2. ~\A i \in DOMAIN text : text[i].k = "blank"
      BY <1>11, <2>4, <3>1, TrimmedWords
    <3> QED
      BY <3>2 DEF Skipped
  <2>6. EndsAt(printed, read)
    BY <1>1, <1>6 DEF EndsAt
  <2>7. Parts(printed, read, text, read + 1)
    <3> SUFFICES ASSUME printed # <<>> PROVE PiecesParted(read, read + 1, ~Tight(printed) \/ text[1].k = "blank")
      BY DEF Parts
    <3>1. read > 0
      BY <1>1, <1>6
    <3> DEFINE white == ~Tight(printed) \/ text[1].k = "blank"
    <3>2. white \in BOOLEAN
      OBVIOUS
    <3>3. white <=> ~Tight(printed) \/ WhiteBefore(read + 1) # NoWhite
      BY <2>2, <2>4
    <3> HIDE DEF white
    <3>4. PiecesParted(read, read + 1, white)
      BY <1>13, <2>1, <3>1, <3>2, <3>3
    <3> QED
      BY <3>4 DEF white
  <2>8. /\ printed' \in HtmlOut /\ LastPiece(printed', m)
        /\ LinesIndented(printed) /\ (EndsIn(printed, "newline") => html[read + 1].t = "code" \/ Nesting(read + 1) = indent_level)
               => LinesIndented(printed')
        /\ LinesKept(printed') /\ InTurn(printed', 1, m)
        /\ Tight(printed') <=> n = 0 /\ Tight(text)
        /\ ~EndsIn(printed', "indent")
    <3> DEFINE q == PrintToken(printed, text, n, indent_level)
               a == read + 1
    <3>1. a \in Nat /\ Words(text, a, m)
      BY <1>1, <2>4
    <3> HIDE DEF a, q
    <3>2. /\ q \in HtmlOut /\ LastPiece(q, m)
          /\ LinesIndented(printed) /\ (EndsIn(printed, "newline") => html[a].t = "code" \/ Nesting(a) = indent_level)
                 => LinesIndented(q)
          /\ LinesKept(printed) /\ Parts(printed, read, text, a) => LinesKept(q)
          /\ InTurn(printed, 1, read) /\ a = read + 1 => InTurn(q, 1, m)
          /\ Tight(q) <=> n = 0 /\ Tight(text)
          /\ ~EndsIn(q, "indent")
      BY <1>1, <1>6, <1>11, <2>6, <3>1, PrintWords DEF q
    <3> QED
      BY <1>2, <1>6, <1>8, <2>7, <3>2 DEF a, q
  <2>9. PiecesParted(read, read + 1, ~Tight(printed))' \/ ~(read' < Len(html'))
    <3> SUFFICES ASSUME m < Len(html) PROVE PiecesParted(m, m + 1, ~Tight(printed'))
      BY <1>3, <1>8 DEF PiecesParted, MayPart
    <3>1. CASE html[m + 1].white # NoWhite
      BY <1>1, <2>3, <2>4, <2>8, <3>1 DEF PiecesParted
    <3>2. CASE html[m + 1].white = NoWhite
      <4> SUFFICES ASSUME ~Tight(printed'), html[m + 1].t = "inline" PROVE MayPart(m, m + 1)
        BY <1>8, <3>2 DEF PiecesParted
      <4>1. n > 0
        BY <1>11, <2>3, <2>4, <2>8, <3>2
      <4>2. PICK w \in read + 1 .. m + 1 : w <= Len(html) /\ WhiteBefore(w) # NoWhite /\ html[w].white > 0
        BY <1>8, <4>1
      <4>3. w # m + 1
        BY <2>3, <3>2, <4>2
      <4>4. w \in 1 .. m /\ \A k \in w .. m : html[k].t = "text"
        BY <1>1, <1>8, <1>11, <4>2, <4>3
      <4> QED
        BY <2>1, <4>2, <4>4 DEF MayPart
    <3> QED
      BY <3>1, <3>2
  <2>10. HtmlShape'
    <3>1. current_mode' # "CONTENT" /\ ~(newlines' > 0) /\ ~(read' = 0) /\ LastPiece(printed', read')
          /\ InTurn(printed', 1, read')
      BY <1>1, <1>3, <1>8, <2>1, <2>5, <2>8
    <3> QED
      BY <1>10, <2>8, <2>9, <3>1 DEF HtmlShape
  <2>11. HtmlLineInv'
    BY <1>1, <1>3, <1>12, <2>8, <2>10, SamePage DEF HtmlLineInv
  <2>12. ASSUME LinesIndented(printed), Nesting(read + 1) = indent_level PROVE LinesIndented(printed)'
    BY <1>3, <2>8, <2>12, SamePage
  <2> QED
    BY <2>1, <2>11, <2>12
<1> QED
  BY <1>14, <1>15

\* Every step keeps the invariant on lines.
LEMMA HtmlLineStep == HtmlLineInv /\ [HtmlNext]_htmlVars => HtmlLineInv'
<1> SUFFICES ASSUME HtmlLineInv, [HtmlNext]_htmlVars PROVE HtmlLineInv'
  OBVIOUS
<1>1. CASE HtmlNext
  BY <1>1, GetContentLines, StartTagLines, EndTagLines, ScriptTagLines, CodeLines, SingleTagLines,
     CommentLines DEF HtmlNext
<1>2. CASE UNCHANGED htmlVars
  <2>1. /\ html' = html /\ read' = read /\ eaten' = eaten /\ current_mode' = current_mode
        /\ last_token' = last_token /\ last_text' = last_text /\ newlines' = newlines
        /\ indent_level' = indent_level /\ tags' = tags /\ tagcount' = tagcount
        /\ printed' = printed /\ misled' = misled
    BY <1>2 DEF htmlVars, htmlTable
  <2>2. HtmlTypeOK'
    BY <2>1, Zenon DEF HtmlLineInv, HtmlTypeOK
  <2>3. HtmlShape'
    BY <2>1, Zenon DEF HtmlLineInv, HtmlShape, InCode, EndsIn, LastPiece, InTurn, Tight, PiecesParted, MayPart
  <2> QED
    BY <2>1, <2>2, <2>3, SamePage DEF HtmlLineInv
<1> QED
  BY <1>1, <1>2

\* Every word and element of a line stays with what it was with.
LEMMA KeptMeansTheSame == html \in HtmlSource /\ printed \in HtmlOut /\ LinesKept(printed) => LinesMeanTheSame
<1> SUFFICES ASSUME html \in HtmlSource, printed \in HtmlOut, LinesKept(printed), NEW i \in Places, NEW j \in Places,
                    i < j, \A k \in i + 1 .. j - 1 : k \notin Places,
                    Piece(i).t \in {"text", "inline"}, Piece(j).t \in {"text", "inline"}
             PROVE  IF Piece(j).white # NoWhite THEN j > i + 1
                    ELSE j > i + 1 =>
                           \/ printed[i].n = 1 /\ html[1].white > 0
                           \/ /\ Piece(i).t = "text" /\ Piece(j).t = "inline"
                              /\ \E m \in 1 .. printed[i].n :
                                     /\ html[m].white > 0
                                     /\ \A k \in m .. printed[i].n : html[k].t = "text"
  BY DEF LinesMeanTheSame
<1>1. /\ Len(printed) \in Nat /\ DOMAIN printed = 1 .. Len(printed) /\ i \in DOMAIN printed /\ j \in DOMAIN printed
      /\ printed[i].k = "piece" /\ printed[j].k = "piece"
  BY SeqItems DEF HtmlOut, Places
<1>2. \A k \in i + 1 .. j - 1 : printed[k].k # "piece"
  <2> TAKE k \in i + 1 .. j - 1
  <2>1. k \in DOMAIN printed
    BY <1>1
  <2> QED
    BY <2>1 DEF Places
<1>3. PiecesParted(printed[i].n, printed[j].n, j > i + 1)
  BY <1>1, <1>2 DEF LinesKept
<1> QED
  BY <1>3 DEF PiecesParted, MayPart, Piece

\* The page is printed as far as it is read.
LEMMA PageIsPrinted == HtmlLineInv => HtmlPrinted
<1> SUFFICES ASSUME HtmlLineInv PROVE HtmlPrinted
  OBVIOUS
<1>1. InTurn(printed, 1, read)
  BY DEF HtmlLineInv, HtmlShape
<1>2. {printed[i].n : i \in Places} = 1 .. read
  BY <1>1 DEF InTurn, Places
<1>3. \A i, j \in Places : i < j => printed[i].n < printed[j].n
  BY <1>1 DEF InTurn, Places
<1> QED
  BY <1>2, <1>3 DEF HtmlPrinted

\* The pieces of a page are printed in the order read and each once, though rtrim takes back
\* from the end of the output (beautify-html.js 761-816); and two words or elements of a
\* line have white space between them where the page has it, and elsewhere only where
\* newlines found earlier in the same text are printed behind them (209-226, 243-281).
THEOREM PageKeptByTheFormatter == HtmlSpec => [](HtmlTypeOK /\ HtmlPrinted /\ LinesMeanTheSame)
<1>1. HtmlInit => HtmlLineInv
  BY HtmlLineAtFirst
<1>2. HtmlLineInv /\ [HtmlNext]_htmlVars => HtmlLineInv'
  BY HtmlLineStep
<1>3. HtmlLineInv => HtmlTypeOK /\ HtmlPrinted /\ LinesMeanTheSame
  BY KeptMeansTheSame, PageIsPrinted DEF HtmlLineInv
<1> QED
  BY <1>1, <1>2, <1>3, PTL DEF HtmlSpec

-----------------------------------------------------------------------------
(* The table and the elements open.                                        *)

Openers == {m \in 1 .. Len(html) : html[m].t \in {"start", "script"}}
IndentedFor(m) == html[m].t = "start" /\ html[m].name # "html"
IndentTo(open, m) == Cardinality({i \in 1 .. m : IndentedFor(open[i])})

\* The keys of the elements open, from parent to parent, each with the indentation it was opened at.
Chain(K, open, T, par) ==
    /\ K \in Seq(Name \X Nat) /\ Len(K) = Len(open)
    /\ \A i \in 1 .. Len(open) :
           /\ K[i] \in DOMAIN T /\ K[i][1] = html[open[i]].name
           /\ T[K[i]].parent = IF i = 1 THEN Root ELSE K[i - 1]
           /\ T[K[i]].level = IndentTo(open, i - 1)
    /\ \A i, j \in 1 .. Len(open) : i < j /\ K[i][1] = K[j][1] => K[i][2] < K[j][2]
    /\ par = IF Len(open) = 0 THEN Root ELSE K[Len(open)]

TableNests(open, T, par, level) == level = IndentTo(open, Len(open)) /\ \E K : Chain(K, open, T, par)

HtmlNestInv == /\ HtmlLineInv
               /\ ~misled => /\ TableNests(OpenBehind[read], tags, parent, indent_level)
                             /\ LinesIndented(printed)

\* Elements open are opened by start tags; an end tag closes the last of its name and what is
\* open in that.
LEMMA OpenAfterIs ==
    ASSUME html \in HtmlSource, NEW open \in Seq(Openers), NEW n \in 1 .. Len(html),
           NEW same, same = {i \in DOMAIN open : html[open[i]].name = html[n].name}
    PROVE  /\ OpenAfter(open, n) \in Seq(Openers)
           /\ html[n].t = "end" /\ same # {} =>
                  /\ MaxOf(same) \in same /\ \A i \in same : i <= MaxOf(same)
                  /\ OpenAfter(open, n) = SubSeq(open, 1, MaxOf(same) - 1)
           /\ html[n].t = "end" /\ same = {} => OpenAfter(open, n) = open
<1>1. Len(open) \in Nat /\ DOMAIN open = 1 .. Len(open)
  BY SeqItems
<1>2. CASE html[n].t \in {"start", "script"}
  <2>1. OpenAfter(open, n) = Append(open, n)
    BY <1>2 DEF OpenAfter
  <2>2. Append(open, n) \in Seq(Openers)
    <3>1. n \in Openers
      BY <1>2 DEF Openers
    <3> QED
      BY <3>1
  <2>3. html[n].t # "end"
    BY <1>2
  <2> QED
    BY <2>1, <2>2, <2>3
<1>3. CASE html[n].t = "end" /\ same # {}
  <2>1. OpenAfter(open, n) = SubSeq(open, 1, MaxOf(same) - 1)
    BY <1>3 DEF OpenAfter
  <2>2. MaxOf(same) \in same /\ \A i \in same : i <= MaxOf(same)
    BY <1>1, <1>3, MaxIs, same \subseteq Nat, \A i \in same : i <= Len(open)
  <2>3. MaxOf(same) - 1 \in 0 .. Len(open)
    BY <1>1, <2>2
  <2> QED
    BY <1>3, <2>1, <2>2, <2>3, CutSeq
<1>4. CASE html[n].t \notin {"start", "script"} /\ ~(html[n].t = "end" /\ same # {})
  BY <1>4 DEF OpenAfter
<1> QED
  BY <1>2, <1>3, <1>4

\* The elements open behind piece m were opened by start tags.
LEMMA OpenBehindOpeners ==
    ASSUME html \in HtmlSource, NEW m \in 0 .. Len(html)
    PROVE  OpenBehind[m] \in Seq(Openers)
<1> DEFINE Bad == {k \in 0 .. Len(html) : OpenBehind[k] \notin Seq(Openers)}
<1> SUFFICES ASSUME Bad # {} PROVE FALSE
  OBVIOUS
<1>1. Len(html) \in Nat
  BY PageItems
<1>2. PICK k \in Bad : \A j \in Bad : k <= j
  BY <1>1, LeastNumber, Bad \subseteq Nat
<1>3. OpenBehind[0] \in Seq(Openers)
  <2>1. OpenBehind[0] = <<>>
    BY <1>1, OpenBehindIs
  <2>2. \A S : <<>> \in Seq(S)
    OBVIOUS
  <2> QED
    BY <2>1, <2>2
<1>4. k \in 1 .. Len(html) /\ k - 1 \in 0 .. Len(html)
  <2>1. k # 0
    BY <1>2, <1>3
  <2> QED
    BY <1>1, <1>2, <2>1
<1>5. k - 1 \notin Bad
  BY <1>1, <1>2, <1>4
<1> DEFINE o == OpenBehind[k - 1]
           same == {i \in DOMAIN o : html[o[i]].name = html[k].name}
<1>6. OpenBehind[k] = OpenAfter(o, k) /\ o \in Seq(Openers)
  BY <1>1, <1>4, <1>5, OpenBehindIs
<1> HIDE DEF o
<1>7. OpenAfter(o, k) \in Seq(Openers)
  BY <1>4, <1>6, OpenAfterIs
<1> QED
  BY <1>2, <1>6, <1>7

\* The count of what a start tag adds to the elements indented for.
LEMMA IndentGrows ==
    ASSUME NEW S, NEW open \in Seq(S), NEW m \in 1 .. Len(open)
    PROVE  /\ IndentTo(open, 0) = 0
           /\ IndentTo(open, m - 1) \in Nat /\ IndentTo(open, m) \in Nat
           /\ IndentTo(open, m) = IF IndentedFor(open[m]) THEN IndentTo(open, m - 1) + 1 ELSE IndentTo(open, m - 1)
<1> DEFINE I(k) == {i \in 1 .. k : IndentedFor(open[i])}
<1>1. m \in Nat /\ m - 1 \in Nat
  BY SeqItems
<1>2. \A k \in Nat : IsFiniteSet(I(k)) /\ IndentTo(open, k) \in Nat
  <2> TAKE k \in Nat
  <2>1. IsFiniteSet(1 .. k)
    BY FS_Interval
  <2>2. IsFiniteSet(I(k))
    BY <2>1, FS_Subset
  <2> QED
    BY <2>2, FS_CardinalityType DEF IndentTo
<1>3. I(0) = {} /\ IndentTo(open, 0) = 0
  BY FS_EmptySet DEF IndentTo
<1>4. CASE IndentedFor(open[m])
  <2>1. I(m) = I(m - 1) \cup {m} /\ m \notin I(m - 1)
    BY <1>1, <1>4
  <2>2. Cardinality(I(m)) = Cardinality(I(m - 1)) + 1
    <3> HIDE DEF I
    <3> QED
      BY <1>1, <1>2, <2>1, FS_AddElement
  <2> QED
    BY <1>1, <1>2, <1>3, <1>4, <2>2 DEF IndentTo
<1>5. CASE ~IndentedFor(open[m])
  <2>1. I(m) = I(m - 1)
    BY <1>1, <1>5
  <2> QED
    BY <1>1, <1>2, <1>3, <1>5, <2>1 DEF IndentTo
<1> QED
  BY <1>4, <1>5

\* Elements that two lists begin with are counted the same.
LEMMA IndentAlike ==
    ASSUME NEW open, NEW other, NEW m \in Nat, \A i \in 1 .. m : other[i] = open[i]
    PROVE  IndentTo(other, m) = IndentTo(open, m)
<1>1. {i \in 1 .. m : IndentedFor(other[i])} = {i \in 1 .. m : IndentedFor(open[i])}
  OBVIOUS
<1> QED
  BY <1>1 DEF IndentTo

\* The indentation of all the open elements.
LEMMA IndentInIs ==
    ASSUME NEW S, NEW open \in Seq(S)
    PROVE  IndentIn(open) = IndentTo(open, Len(open))
<1>1. DOMAIN open = 1 .. Len(open)
  BY SeqItems
<1> QED
  BY <1>1 DEF IndentIn, IndentTo, IndentedFor

\* The keys of a chain one by one: name, count, parent and level.
LEMMA ChainItems ==
    ASSUME NEW K, NEW open, NEW T, NEW par, Chain(K, open, T, par), Len(open) \in Nat, NEW i \in 1 .. Len(open)
    PROVE  /\ K[i] \in Name \X Nat /\ K[i][1] \in Name /\ K[i][2] \in Nat /\ K[i] = <<K[i][1], K[i][2]>>
           /\ K[i] \in DOMAIN T /\ K[i][1] = html[open[i]].name
           /\ T[K[i]].parent = IF i = 1 THEN Root ELSE K[i - 1]
           /\ T[K[i]].level = IndentTo(open, i - 1)
<1>1. K \in Seq(Name \X Nat) /\ i \in 1 .. Len(K)
  BY DEF Chain
<1>2. K[i] \in Name \X Nat
  BY <1>1, SeqItems
<1> QED
  BY <1>2 DEF Chain

\* What the table knows of the open tags is the chain's.
LEMMA AncestorsInChain ==
    ASSUME NEW K, NEW open, Chain(K, open, tags, parent), Len(open) \in Nat, TableOK,
           NEW k \in Ancestors
    PROVE  \E p \in 1 .. Len(open) : k = K[p]
<1> DEFINE C == {K[i] : i \in 1 .. Len(open)}
<1>1. Root \notin DOMAIN tags
  <2>1. "parent" \notin Name
    BY HtmlAssumption
  <2>2. Root \notin Name \X Nat
    BY <2>1 DEF Root
  <2> QED
    BY <2>2 DEF TableOK
<1>2. C \subseteq DOMAIN tags
  BY ChainItems
<1>3. parent \in DOMAIN tags => parent \in C
  <2>1. parent = IF Len(open) = 0 THEN Root ELSE K[Len(open)]
    BY DEF Chain
  <2>2. Len(open) # 0 => Len(open) \in 1 .. Len(open)
    OBVIOUS
  <2> QED
    BY <1>1, <2>1, <2>2
<1>4. ASSUME NEW j \in C, tags[j].parent \in DOMAIN tags PROVE tags[j].parent \in C
  <2>1. PICK i \in 1 .. Len(open) : j = K[i]
    OBVIOUS
  <2>2. tags[j].parent = IF i = 1 THEN Root ELSE K[i - 1]
    BY <2>1, ChainItems
  <2>3. i # 1 => i - 1 \in 1 .. Len(open)
    OBVIOUS
  <2> QED
    BY <1>1, <1>4, <2>2, <2>3
<1> HIDE DEF C
<1>5. LeadsUp(C)
  BY <1>3, <1>4 DEF LeadsUp
<1>6. k \in C
  BY <1>2, <1>5 DEF Ancestors
<1> QED
  BY <1>6 DEF C

\* A start tag is recorded: its key goes behind the chain (beautify-html.js 300-311).
LEMMA ChainPut ==
    ASSUME NEW open \in Seq(Openers), NEW n \in Openers, html[n].name \in Name,
           TableNests(open, tags, parent, indent_level), TableOK, RecordTag(html[n].name)
    PROVE  \E K : Chain(K, Append(open, n), tags', parent')
<1> DEFINE L == Len(open)
           t == html[n].name
           key == <<t, tagcount[t] + 1>>
           o == Append(open, n)
<1>1. PICK K : Chain(K, open, tags, parent)
  BY DEF TableNests
<1> DEFINE J == Append(K, key)
<1>2. L \in Nat /\ indent_level = IndentTo(open, L)
  BY SeqItems DEF TableNests
<1>3. key \in Name \X Nat /\ key[1] = t /\ key[2] = tagcount[t] + 1 /\ tagcount[t] \in Nat
  BY DEF TableOK
<1>4. o \in Seq(Openers) /\ Len(o) = L + 1 /\ o[L + 1] = n /\ \A i \in 1 .. L : o[i] = open[i]
  BY AppendProperties
<1>5. K \in Seq(Name \X Nat) /\ Len(K) = L
  BY <1>1 DEF Chain
<1>6. /\ J \in Seq(Name \X Nat) /\ Len(J) = L + 1 /\ J[L + 1] = key
      /\ \A i \in 1 .. L : J[i] = K[i]
  <2> HIDE DEF key
  <2> QED
    BY <1>3, <1>5, AppendProperties
<1>7. /\ parent' = key
      /\ DOMAIN tags' = DOMAIN tags \cup {key}
      /\ tags'[key] = [level |-> indent_level, parent |-> parent]
      /\ \A k \in DOMAIN tags : k # key => tags'[k] = tags[k]
  BY TagPut DEF TableOK
<1>8. \A i \in 1 .. L : /\ K[i] \in DOMAIN tags /\ K[i][1] = html[open[i]].name
                        /\ tags[K[i]].parent = IF i = 1 THEN Root ELSE K[i - 1]
                        /\ tags[K[i]].level = IndentTo(open, i - 1)
                        /\ K[i][2] \in Nat /\ K[i][1] \in Name
  BY <1>1, <1>2, ChainItems
<1>9. \A i \in 1 .. L : K[i][1] = t => K[i][2] <= tagcount[t]
  <2> TAKE i \in 1 .. L
  <2>1. K[i] \in DOMAIN tags
    BY <1>8
  <2>2. K[i][2] \in 1 .. tagcount[K[i][1]]
    BY <2>1 DEF TableOK
  <2> QED
    BY <1>3, <2>2
<1>10. \A i \in 1 .. L : K[i] # key
  BY <1>3, <1>8, <1>9
<1>11. \A m \in 0 .. L : IndentTo(o, m) = IndentTo(open, m)
  <2> HIDE DEF o
  <2> TAKE m \in 0 .. L
  <2>1. m \in Nat /\ \A i \in 1 .. m : o[i] = open[i]
    BY <1>2, <1>4
  <2> QED
    BY <2>1, IndentAlike
<1> HIDE DEF key, o, J, L, t
<1>12. ASSUME NEW i \in 1 .. L + 1
       PROVE  /\ J[i] \in DOMAIN tags' /\ J[i][1] = html[o[i]].name
              /\ tags'[J[i]].parent = IF i = 1 THEN Root ELSE J[i - 1]
              /\ tags'[J[i]].level = IndentTo(o, i - 1)
  <2>1. CASE i \in 1 .. L
    <3>1. J[i] = K[i] /\ o[i] = open[i] /\ tags'[K[i]] = tags[K[i]]
      BY <1>4, <1>6, <1>7, <1>8, <1>10, <2>1
    <3>2. i # 1 => i - 1 \in 1 .. L
      BY <1>2, <2>1
    <3>3. i # 1 => J[i - 1] = K[i - 1]
      BY <1>6, <3>2
    <3>4. IndentTo(o, i - 1) = IndentTo(open, i - 1)
      <4>1. i - 1 \in 0 .. L
        BY <1>2, <2>1
      <4> QED
        BY <1>11, <4>1
    <3> QED
      BY <1>7, <1>8, <2>1, <3>1, <3>3, <3>4
  <2>2. CASE i = L + 1
    <3>1. J[i] = key /\ o[i] = n /\ i - 1 = L /\ L \in 0 .. L
      BY <1>2, <1>4, <1>6, <2>2
    <3>2. tags'[key].parent = parent /\ tags'[key].level = indent_level
      BY <1>7
    <3>3. parent = IF L = 0 THEN Root ELSE K[L]
      BY <1>1 DEF Chain, L
    <3>4. L # 0 => L \in 1 .. L /\ J[L] = K[L]
      BY <1>2, <1>6
    <3>5. IndentTo(o, i - 1) = indent_level
      BY <1>2, <1>11, <3>1
    <3>6. parent = IF i = 1 THEN Root ELSE J[i - 1]
      BY <1>2, <2>2, <3>1, <3>3, <3>4
    <3> QED
      BY <1>3, <1>7, <3>1, <3>2, <3>5, <3>6 DEF t
  <2> QED
    BY <1>2, <2>1, <2>2
<1>13. ASSUME NEW i \in 1 .. L + 1, NEW j \in 1 .. L + 1, i < j, J[i][1] = J[j][1]
       PROVE  J[i][2] < J[j][2]
  <2>1. i \in 1 .. L /\ J[i] = K[i]
    BY <1>2, <1>6, <1>13
  <2>2. CASE j \in 1 .. L
    <3>1. J[j] = K[j]
      BY <1>6, <2>2
    <3>2. K[i][1] = K[j][1] => K[i][2] < K[j][2]
      BY <1>1, <1>13, <2>1, <2>2 DEF Chain, L
    <3> QED
      BY <1>13, <2>1, <3>1, <3>2
  <2>3. CASE j = L + 1
    <3>1. J[j] = key /\ K[i][1] = t
      BY <1>3, <1>6, <1>13, <2>1, <2>3
    <3>2. K[i][2] <= tagcount[t]
      BY <1>9, <2>1, <3>1
    <3> QED
      BY <1>3, <1>8, <2>1, <3>1, <3>2
  <2> QED
    BY <1>2, <2>2, <2>3
<1>14. Chain(J, o, tags', parent')
  <2>1. parent' = IF Len(o) = 0 THEN Root ELSE J[Len(o)]
    BY <1>2, <1>4, <1>6, <1>7
  <2> QED
    BY <1>4, <1>6, <1>12, <1>13, <2>1 DEF Chain
<1> QED
  BY <1>14 DEF o

\* The chain is cut in front of key p, which is taken from the table.
LEMMA ChainCut ==
    ASSUME NEW open \in Seq(Openers), NEW K, Chain(K, open, tags, parent), NEW p \in 1 .. Len(open),
           NEW T, DOMAIN T = DOMAIN tags \ {K[p]}, \A k \in DOMAIN T : T[k] = tags[k]
    PROVE  /\ Chain(SubSeq(K, 1, p - 1), SubSeq(open, 1, p - 1), T, tags[K[p]].parent)
           /\ tags[K[p]].level = IndentTo(SubSeq(open, 1, p - 1), p - 1)
           /\ Len(SubSeq(open, 1, p - 1)) = p - 1
<1> DEFINE m == p - 1
           o == SubSeq(open, 1, m)
           J == SubSeq(K, 1, m)
           L == Len(open)
<1>1. L \in Nat /\ K \in Seq(Name \X Nat) /\ Len(K) = L /\ m \in 0 .. L /\ m \in Nat /\ p \in 1 .. L /\ m + 1 = p
  BY SeqItems DEF Chain
<1>2. o \in Seq(Openers) /\ Len(o) = m /\ \A i \in 1 .. m : o[i] = open[i]
  <2> HIDE DEF m
  <2> QED
    BY <1>1, CutSeq
<1>3. J \in Seq(Name \X Nat) /\ Len(J) = m /\ \A i \in 1 .. m : J[i] = K[i]
  <2> HIDE DEF m
  <2> QED
    BY <1>1, CutSeq
<1>4. \A i \in 1 .. L : /\ K[i] \in DOMAIN tags /\ K[i][1] = html[open[i]].name
                        /\ tags[K[i]].parent = IF i = 1 THEN Root ELSE K[i - 1]
                        /\ tags[K[i]].level = IndentTo(open, i - 1)
                        /\ K[i][2] \in Nat /\ K[i][1] \in Name
  BY <1>1, ChainItems
<1>5. \A i, j \in 1 .. L : i < j /\ K[i][1] = K[j][1] => K[i][2] < K[j][2]
  BY DEF Chain
<1>6. \A i \in 1 .. m : i \in 1 .. L /\ K[i] # K[p]
  <2> TAKE i \in 1 .. m
  <2>1. i \in 1 .. L /\ i < p
    BY <1>1
  <2>2. K[i] = K[p] => K[i][2] < K[i][2]
    BY <1>1, <1>5, <2>1
  <2> QED
    BY <1>4, <2>1, <2>2
<1>7. \A x \in 0 .. m : IndentTo(o, x) = IndentTo(open, x)
  <2> HIDE DEF o
  <2> TAKE x \in 0 .. m
  <2>1. x \in Nat /\ \A i \in 1 .. x : o[i] = open[i]
    BY <1>1, <1>2
  <2> QED
    BY <2>1, IndentAlike
<1> HIDE DEF m, o, J, L
<1>8. ASSUME NEW i \in 1 .. m
      PROVE  /\ J[i] \in DOMAIN T /\ J[i][1] = html[o[i]].name
             /\ T[J[i]].parent = IF i = 1 THEN Root ELSE J[i - 1]
             /\ T[J[i]].level = IndentTo(o, i - 1)
  <2>1. i \in 1 .. L /\ J[i] = K[i] /\ o[i] = open[i] /\ K[i] # K[p]
    BY <1>2, <1>3, <1>6
  <2>2. K[i] \in DOMAIN T /\ T[K[i]] = tags[K[i]]
    BY <1>4, <2>1
  <2>3. i # 1 => J[i - 1] = K[i - 1]
    <3>1. i # 1 => i - 1 \in 1 .. m
      BY <1>1
    <3> QED
      BY <1>3, <3>1
  <2>4. IndentTo(o, i - 1) = IndentTo(open, i - 1)
    <3>1. i - 1 \in 0 .. m
      BY <1>1
    <3> QED
      BY <1>7, <3>1
  <2> QED
    BY <1>4, <2>1, <2>2, <2>3, <2>4
<1>9. \A i, j \in 1 .. m : i < j /\ J[i][1] = J[j][1] => J[i][2] < J[j][2]
  BY <1>3, <1>5, <1>6
<1>10. tags[K[p]].parent = IF m = 0 THEN Root ELSE J[m]
  <2>1. tags[K[p]].parent = IF p = 1 THEN Root ELSE K[p - 1]
    BY <1>1, <1>4
  <2>2. p - 1 = m /\ (m # 0 => m \in 1 .. m)
    BY <1>1
  <2> QED
    BY <1>1, <1>3, <2>1, <2>2
<1>11. tags[K[p]].level = IndentTo(o, m)
  <2>1. tags[K[p]].level = IndentTo(open, p - 1)
    BY <1>1, <1>4
  <2>2. p - 1 = m /\ m \in 0 .. m
    BY <1>1
  <2> QED
    BY <1>7, <2>1, <2>2
<1>12. Chain(J, o, T, tags[K[p]].parent)
  BY <1>2, <1>3, <1>8, <1>9, <1>10 DEF Chain
<1> QED
  BY <1>2, <1>11, <1>12 DEF J, o, m

\* The table at the next state, of the same page.
LEMMA SameNested ==
    ASSUME html' = html
    PROVE  TableNests(OpenBehind[read], tags, parent, indent_level)'
               <=> TableNests(OpenBehind[read'], tags', parent', indent_level')
<1>1. OpenBehind' = OpenBehind
  BY SamePage
<1> QED
  BY <1>1 DEF TableNests, Chain, IndentTo, IndentedFor, Root

\* What else than a tag is read opens and closes nothing.
LEMMA OpenKept ==
    ASSUME html \in HtmlSource, NEW n \in 1 .. Len(html), html[n].t \notin {"start", "script", "end"}
    PROVE  OpenBehind[n] = OpenBehind[n - 1]
<1>1. OpenBehind[n] = OpenAfter(OpenBehind[n - 1], n)
  BY PageItems, OpenBehindIs
<1> QED
  BY <1>1 DEF OpenAfter

\* What the invariant on nesting says, fact by fact.
LEMMA NestFacts ==
    ASSUME HtmlNestInv
    PROVE  /\ HtmlLineInv /\ html \in HtmlSource /\ Len(html) \in Nat /\ read \in Nat /\ read \in 0 .. Len(html)
           /\ TableOK /\ indent_level \in Nat /\ misled \in BOOLEAN
           /\ OpenBehind[read] \in Seq(Openers) /\ Len(OpenBehind[read]) \in Nat
           /\ ~misled => /\ TableNests(OpenBehind[read], tags, parent, indent_level)
                         /\ LinesIndented(printed)
                         /\ indent_level = IndentIn(OpenBehind[read])
                         /\ read < Len(html) /\ html[read + 1].t # "end" => Nesting(read + 1) = indent_level
<1>1. HtmlLineInv /\ (~misled => TableNests(OpenBehind[read], tags, parent, indent_level) /\ LinesIndented(printed))
  BY DEF HtmlNestInv
<1>2. /\ html \in HtmlSource /\ Len(html) \in Nat /\ read \in Nat /\ read \in 0 .. Len(html)
      /\ TableOK /\ indent_level \in Nat /\ misled \in BOOLEAN
  BY <1>1, HtmlLineTypes
<1>3. OpenBehind[read] \in Seq(Openers)
  BY <1>2, OpenBehindOpeners
<1>4. Len(OpenBehind[read]) \in Nat
  BY <1>3, SeqItems
<1>5. ~misled => indent_level = IndentIn(OpenBehind[read])
  BY <1>1, <1>3, IndentInIs DEF TableNests
<1>6. ~misled /\ read < Len(html) /\ html[read + 1].t # "end" => Nesting(read + 1) = indent_level
  <2> DEFINE n == read + 1
  <2>1. n - 1 = read
    BY <1>2
  <2> HIDE DEF n
  <2>2. html[n].t # "end" => Nesting(n) = IndentIn(OpenBehind[read])
    BY <2>1 DEF Nesting
  <2> QED
    BY <1>5, <2>2 DEF n
<1> QED
  BY <1>1, <1>2, <1>3, <1>4, <1>5, <1>6

\* A step that leaves the table and what is open.
LEMMA NestKept ==
    ASSUME HtmlNestInv, HtmlLineInv', html' = html, OpenBehind[read'] = OpenBehind[read], tags' = tags,
           parent' = parent, indent_level' = indent_level, misled' = misled,
           ~misled /\ LinesIndented(printed) => LinesIndented(printed)'
    PROVE  HtmlNestInv'
<1>1. ~misled => TableNests(OpenBehind[read], tags, parent, indent_level)' /\ LinesIndented(printed)'
  BY NestFacts, SameNested
<1> QED
  BY <1>1 DEF HtmlNestInv

\* A step that leaves the table as it is.
LEMMA SameTable ==
    ASSUME UNCHANGED htmlTable
    PROVE  tags' = tags /\ tagcount' = tagcount /\ parent' = parent /\ misled' = misled
  BY DEF htmlTable

\* Text and white space leave the table and the indentation.
LEMMA GetContentNest == HtmlNestInv /\ GetContent => HtmlNestInv'
<1> SUFFICES ASSUME HtmlNestInv, GetContent PROVE HtmlNestInv'
  OBVIOUS
<1>1. /\ HtmlLineInv'
      /\ /\ LinesIndented(printed)
         /\ read < Len(html) /\ html[read + 1].t = "text" => Nesting(read + 1) = indent_level
         => LinesIndented(printed)'
  BY NestFacts, GetContentLines
<1>2. html' = html /\ indent_level' = indent_level /\ UNCHANGED htmlTable
  BY DEF GetContent
<1>3. PICK m, text, n : Content(m, text, n)
  BY NestFacts, ContentIs
<1>4. read' = m /\ m \in read .. Len(html) /\ \A k \in read + 1 .. m : html[k].t = "text"
  BY <1>3 DEF Content
<1>5. OpenBehind[read'] = OpenBehind[read]
  BY <1>4, NestFacts, OpenBehindText
<1>6. ~misled /\ LinesIndented(printed) => LinesIndented(printed)'
  BY <1>1, NestFacts
<1> QED
  BY <1>1, <1>2, <1>5, <1>6, SameTable, NestKept

\* A tag that has no end opens nothing.
LEMMA SingleTagNest == HtmlNestInv /\ SingleTag => HtmlNestInv'
<1> SUFFICES ASSUME HtmlNestInv, SingleTag PROVE HtmlNestInv'
  OBVIOUS
<1>1. /\ HtmlLineInv'
      /\ LinesIndented(printed) /\ Nesting(read + 1) = indent_level => LinesIndented(printed)'
  BY NestFacts, SingleTagLines
<1>2. /\ html' = html /\ indent_level' = indent_level /\ UNCHANGED htmlTable /\ read' = read + 1
      /\ read < Len(html) /\ html[read + 1].t \in {"void", "inline"}
  BY DEF SingleTag, AtTag, NextPiece, Took
<1>3. read + 1 \in 1 .. Len(html) /\ read + 1 - 1 = read
  BY <1>2, NestFacts
<1>4. OpenBehind[read'] = OpenBehind[read]
  BY <1>2, <1>3, NestFacts, OpenKept
<1>5. ~misled /\ LinesIndented(printed) => LinesIndented(printed)'
  BY <1>1, <1>2, NestFacts
<1> QED
  BY <1>1, <1>2, <1>4, <1>5, SameTable, NestKept

\* A comment opens nothing.
LEMMA CommentNest == HtmlNestInv /\ Comment => HtmlNestInv'
<1> SUFFICES ASSUME HtmlNestInv, Comment PROVE HtmlNestInv'
  OBVIOUS
<1>1. /\ HtmlLineInv'
      /\ LinesIndented(printed) /\ Nesting(read + 1) = indent_level => LinesIndented(printed)'
  BY NestFacts, CommentLines
<1>2. /\ html' = html /\ indent_level' = indent_level /\ UNCHANGED htmlTable /\ read' = read + 1
      /\ read < Len(html) /\ html[read + 1].t = "comment"
  BY DEF Comment, AtTag, NextPiece, Took
<1>3. read + 1 \in 1 .. Len(html) /\ read + 1 - 1 = read
  BY <1>2, NestFacts
<1>4. OpenBehind[read'] = OpenBehind[read]
  BY <1>2, <1>3, NestFacts, OpenKept
<1>5. ~misled /\ LinesIndented(printed) => LinesIndented(printed)'
  BY <1>1, <1>2, NestFacts
<1> QED
  BY <1>1, <1>2, <1>4, <1>5, SameTable, NestKept

\* The contents of a script open nothing.
LEMMA CodeNest == HtmlNestInv /\ Code => HtmlNestInv'
<1> SUFFICES ASSUME HtmlNestInv, Code PROVE HtmlNestInv'
  OBVIOUS
<1>1. HtmlLineInv' /\ (LinesIndented(printed) => LinesIndented(printed)')
  BY NestFacts, CodeLines
<1>2. /\ html' = html /\ indent_level' = indent_level /\ UNCHANGED htmlTable /\ read < Len(html)
      /\ (read' = read + 1 /\ html[read + 1].t = "code") \/ read' = read
  BY DEF Code, NextPiece
<1>3. read + 1 \in 1 .. Len(html) /\ read + 1 - 1 = read
  BY <1>2, NestFacts
<1>4. OpenBehind[read'] = OpenBehind[read]
  BY <1>2, <1>3, NestFacts, OpenKept
<1> QED
  BY <1>1, <1>2, <1>4, SameTable, NestKept

\* The elements open behind the next piece, from those open behind this one.
LEMMA OpenBehindNext ==
    ASSUME HtmlNestInv, read < Len(html)
    PROVE  OpenBehind[read + 1] = OpenAfter(OpenBehind[read], read + 1) /\ read + 1 \in 1 .. Len(html)
<1>1. Len(html) \in Nat /\ read \in Nat /\ read + 1 \in 1 .. Len(html) /\ read + 1 - 1 = read
  BY NestFacts
<1> DEFINE n == read + 1
<1>2. n \in 1 .. Len(html) /\ n - 1 = read
  BY <1>1
<1> HIDE DEF n
<1>3. OpenBehind[n] = OpenAfter(OpenBehind[n - 1], n)
  BY <1>1, <1>2, OpenBehindIs
<1> QED
  BY <1>1, <1>2, <1>3 DEF n

\* A start tag: the chain grows by its key.
LEMMA PutNest ==
    ASSUME HtmlNestInv, HtmlLineInv', read < Len(html), html[read + 1].t \in {"start", "script"},
           html' = html, read' = read + 1, RecordTag(html[read + 1].name),
           indent_level' = IF IndentedFor(read + 1) THEN indent_level + 1 ELSE indent_level,
           LinesIndented(printed) /\ Nesting(read + 1) = indent_level => LinesIndented(printed)'
    PROVE  HtmlNestInv'
<1> DEFINE open == OpenBehind[read]
           n == read + 1
           o == Append(open, n)
           L == Len(open)
<1>1. OpenBehind[n] = o /\ n \in 1 .. Len(html)
  BY OpenBehindNext DEF OpenAfter
<1>2. n \in Openers /\ html[n].name \in Name
  BY <1>1, NestFacts, PageItems DEF Openers
<1>3. misled' = misled
  BY DEF RecordTag
<1>4. open \in Seq(Openers) /\ L \in Nat
  BY NestFacts
<1>5. ASSUME ~misled
      PROVE  TableNests(o, tags', parent', indent_level')
  <2>1. TableNests(open, tags, parent, indent_level) /\ TableOK
    BY <1>5, NestFacts
  <2>2. \E K : Chain(K, o, tags', parent')
    <3> HIDE DEF open, n
    <3> QED
      BY <1>2, <1>4, <2>1, ChainPut DEF n
  <2>3. o \in Seq(Openers) /\ Len(o) = L + 1 /\ o[L + 1] = n /\ \A i \in 1 .. L : o[i] = open[i]
    <3> HIDE DEF open, n
    <3> QED
      BY <1>2, <1>4, AppendProperties
  <2>4. indent_level = IndentTo(open, L)
    BY <2>1 DEF TableNests
  <2> HIDE DEF o, open, L
  <2>5. IndentTo(o, L) = IndentTo(open, L)
    BY <1>4, <2>3, IndentAlike
  <2>6. IndentTo(o, L + 1) = IF IndentedFor(n) THEN IndentTo(o, L) + 1 ELSE IndentTo(o, L)
    <3> DEFINE m == L + 1
    <3>1. m \in 1 .. Len(o) /\ m - 1 = L
      BY <1>4, <2>3
    <3> HIDE DEF m, n
    <3>2. IndentTo(o, m) = IF IndentedFor(o[m]) THEN IndentTo(o, m - 1) + 1 ELSE IndentTo(o, m - 1)
      BY <2>3, <3>1, IndentGrows
    <3> QED
      BY <2>3, <3>1, <3>2 DEF m
  <2>7. indent_level' = IndentTo(o, Len(o))
    BY <2>3, <2>4, <2>5, <2>6
  <2> QED
    BY <2>2, <2>7 DEF TableNests
<1>6. ~misled' => TableNests(OpenBehind[read], tags, parent, indent_level)'
  BY <1>1, <1>3, <1>5, SameNested
<1>7. ~misled' => LinesIndented(printed)'
  <2>1. html[read + 1].t # "end"
    OBVIOUS
  <2> QED
    BY <1>3, <2>1, NestFacts
<1> QED
  BY <1>6, <1>7 DEF HtmlNestInv

\* A start tag opens an element.
LEMMA StartTagNest == HtmlNestInv /\ StartTag => HtmlNestInv'
<1> SUFFICES ASSUME HtmlNestInv, StartTag PROVE HtmlNestInv'
  OBVIOUS
<1>1. /\ HtmlLineInv'
      /\ LinesIndented(printed) /\ Nesting(read + 1) = indent_level => LinesIndented(printed)'
  BY NestFacts, StartTagLines
<1>2. /\ html' = html /\ read' = read + 1 /\ read < Len(html) /\ html[read + 1].t = "start"
      /\ RecordTag(html[read + 1].name)
      /\ indent_level' = IF html[read + 1].name = "html" THEN indent_level ELSE indent_level + 1
  BY DEF StartTag, AtTag, NextPiece, Took
<1>3. indent_level' = IF IndentedFor(read + 1) THEN indent_level + 1 ELSE indent_level
  BY <1>2 DEF IndentedFor
<1> QED
  BY <1>1, <1>2, <1>3, PutNest

\* A script or a style is recorded, and its end tag will be read.
LEMMA ScriptTagNest == HtmlNestInv /\ ScriptTag => HtmlNestInv'
<1> SUFFICES ASSUME HtmlNestInv, ScriptTag PROVE HtmlNestInv'
  OBVIOUS
<1>1. /\ HtmlLineInv'
      /\ LinesIndented(printed) /\ Nesting(read + 1) = indent_level => LinesIndented(printed)'
  BY NestFacts, ScriptTagLines
<1>2. /\ html' = html /\ read' = read + 1 /\ read < Len(html) /\ html[read + 1].t = "script"
      /\ RecordTag(html[read + 1].name) /\ indent_level' = indent_level
  BY DEF ScriptTag, AtTag, NextPiece, Took
<1>3. indent_level' = IF IndentedFor(read + 1) THEN indent_level + 1 ELSE indent_level
  BY <1>2 DEF IndentedFor
<1> QED
  BY <1>1, <1>2, <1>3, PutNest

\* Keys that are not in the chain may leave the table.
LEMMA ChainLess ==
    ASSUME NEW open, Len(open) \in Nat, NEW K, Chain(K, open, tags, parent), NEW T,
           \A i \in 1 .. Len(open) : K[i] \in DOMAIN T /\ T[K[i]] = tags[K[i]]
    PROVE  Chain(K, open, T, parent)
  BY DEF Chain

\* An end tag: the chain is cut where the element's key is.
LEMMA EndTagNest == HtmlNestInv /\ EndTag => HtmlNestInv'
<1> SUFFICES ASSUME HtmlNestInv, EndTag PROVE HtmlNestInv'
  OBVIOUS
<1> DEFINE open == OpenBehind[read]
           n == read + 1
           t == html[read + 1].name
           same == {i \in DOMAIN open : html[open[i]].name = html[n].name}
           L == Len(open)
           key == TagKey(t)
<1>1. /\ HtmlLineInv'
      /\ LinesIndented(printed) /\ Nesting(read + 1) = indent_level' => LinesIndented(printed)'
  BY NestFacts, EndTagLines
<1>2. html' = html /\ read' = n /\ read < Len(html) /\ html[n].t = "end" /\ RetrieveTag(t)
  BY DEF EndTag, AtTag, NextPiece, Took
<1>3. OpenBehind[n] = OpenAfter(open, n) /\ n \in 1 .. Len(html)
  BY <1>2, OpenBehindNext
<1>4. open \in Seq(Openers) /\ L \in Nat /\ DOMAIN open = 1 .. L
  BY NestFacts, SeqItems
<1>5. /\ OpenBehind[n] \in Seq(Openers)
      /\ same # {} => MaxOf(same) \in same /\ (\A i \in same : i <= MaxOf(same))
                      /\ OpenBehind[n] = SubSeq(open, 1, MaxOf(same) - 1)
      /\ same = {} => OpenBehind[n] = open
  <2> HIDE DEF open, n
  <2> QED
    BY <1>2, <1>3, <1>4, NestFacts, OpenAfterIs
<1>6. misled' = (misled \/ (Encloses(t) /\ key \notin Ancestors))
  BY <1>2 DEF RetrieveTag
<1>7. Encloses(t) <=> same # {}
  BY DEF Encloses
<1>8. /\ tagcount[t] = 0 => UNCHANGED <<tags, tagcount, parent, indent_level>>
      /\ tagcount[t] # 0 => tags' = [k \in DOMAIN tags \ {key} |-> tags[k]]
      /\ tagcount[t] # 0 /\ key \in Ancestors => indent_level' = tags[key].level /\ parent' = tags[key].parent
      /\ tagcount[t] # 0 /\ key \notin Ancestors => indent_level' = indent_level /\ parent' = parent
  BY <1>2 DEF RetrieveTag
<1>9. TableOK /\ t \in Name /\ tagcount[t] \in Nat /\ key = <<t, tagcount[t]>>
  <2>1. t \in Name
    BY <1>2, <1>3, NestFacts, PageItems
  <2> QED
    BY <2>1, NestFacts DEF TableOK, TagKey
<1>10. ASSUME ~misled', NEW K, Chain(K, open, tags, parent), indent_level = IndentTo(open, L)
       PROVE  TableNests(OpenBehind[n], tags', parent', indent_level')
  <2>0. \A i \in 1 .. L : /\ K[i] \in DOMAIN tags /\ K[i][1] = html[open[i]].name
                          /\ K[i][2] \in 1 .. tagcount[K[i][1]] /\ K[i] = <<K[i][1], K[i][2]>>
    <3> TAKE i \in 1 .. L
    <3>1. K[i] \in DOMAIN tags /\ K[i][1] = html[open[i]].name /\ K[i] = <<K[i][1], K[i][2]>>
      BY <1>4, <1>10, ChainItems
    <3>2. K[i][2] \in 1 .. tagcount[K[i][1]]
      BY <1>9, <3>1 DEF TableOK
    <3> QED
      BY <3>1, <3>2
  <2>1. CASE key \in Ancestors
    <3>1. PICK p \in 1 .. L : key = K[p]
      BY <1>4, <1>9, <1>10, <2>1, AncestorsInChain
    <3>2. K[p][1] = t /\ K[p][2] = tagcount[t] /\ html[open[p]].name = t
      BY <1>9, <2>0, <3>1
    <3>3. p \in same /\ p \in Nat
      BY <1>4, <3>2
    <3>4. \A i \in same : i <= p
      <4> SUFFICES ASSUME NEW i \in same, ~(i <= p) PROVE FALSE
        OBVIOUS
      <4>1. i \in 1 .. L /\ p < i /\ K[i][1] = K[p][1]
        BY <1>4, <2>0, <3>2
      <4>2. K[p][2] < K[i][2]
        BY <1>10, <4>1 DEF Chain
      <4>3. K[i][2] \in 1 .. tagcount[t]
        BY <2>0, <3>2, <4>1
      <4> QED
        BY <1>9, <3>2, <4>2, <4>3
    <3>5. MaxOf(same) = p
      <4>0. \A i \in same : i \in Nat
        BY <1>4
      <4> HIDE DEF same
      <4>1. MaxOf(same) \in Nat /\ p <= MaxOf(same) /\ MaxOf(same) <= p
        BY <1>5, <3>3, <3>4, <4>0
      <4> QED
        BY <3>3, <4>1
    <3>6. OpenBehind[n] = SubSeq(open, 1, p - 1)
      BY <1>5, <3>3, <3>5
    <3>7. tagcount[t] # 0
      BY <1>9, <2>0, <3>2
    <3>8. /\ DOMAIN tags' = DOMAIN tags \ {K[p]} /\ \A k \in DOMAIN tags' : tags'[k] = tags[k]
          /\ indent_level' = tags[K[p]].level /\ parent' = tags[K[p]].parent
      <4> HIDE DEF key
      <4> QED
        BY <1>8, <2>1, <3>1, <3>7
    <3> DEFINE T == tags'
    <3>9. DOMAIN T = DOMAIN tags \ {K[p]} /\ \A k \in DOMAIN T : T[k] = tags[k]
      BY <3>8
    <3> HIDE DEF open, L, T
    <3>10. /\ Chain(SubSeq(K, 1, p - 1), SubSeq(open, 1, p - 1), T, tags[K[p]].parent)
           /\ tags[K[p]].level = IndentTo(SubSeq(open, 1, p - 1), p - 1)
           /\ Len(SubSeq(open, 1, p - 1)) = p - 1
      BY <1>4, <1>10, <3>9, ChainCut DEF L
    <3>11. TableNests(SubSeq(open, 1, p - 1), T, tags[K[p]].parent, tags[K[p]].level)
      BY <3>10 DEF TableNests
    <3> QED
      BY <3>6, <3>8, <3>11 DEF T
  <2>2. CASE key \notin Ancestors
    <3>1. same = {} /\ OpenBehind[n] = open
      BY <1>5, <1>6, <1>7, <1>10, <2>2
    <3>2. indent_level' = indent_level /\ parent' = parent
      BY <1>8, <2>2
    <3>3. \A i \in 1 .. L : K[i] # key
      BY <1>4, <1>9, <2>0, <3>1
    <3>4. \A i \in 1 .. L : K[i] \in DOMAIN tags' /\ tags'[K[i]] = tags[K[i]]
      <4> HIDE DEF key
      <4>1. CASE tagcount[t] = 0
        BY <1>8, <2>0, <4>1
      <4>2. CASE tagcount[t] # 0
        BY <1>8, <2>0, <3>3, <4>2
      <4> QED
        BY <4>1, <4>2
    <3> DEFINE T == tags'
    <3> HIDE DEF open
    <3>5. \A i \in 1 .. Len(open) : K[i] \in DOMAIN T /\ T[K[i]] = tags[K[i]]
      BY <3>4 DEF open
    <3>6. Chain(K, open, T, parent)
      <4> HIDE DEF T
      <4> QED
        BY <1>4, <1>10, <3>5, ChainLess
    <3> QED
      BY <1>10, <3>1, <3>2, <3>6 DEF TableNests
  <2> QED
    BY <2>1, <2>2
<1>11. ~misled' => TableNests(OpenBehind[n], tags', parent', indent_level')
  <2> SUFFICES ASSUME ~misled' PROVE TableNests(OpenBehind[n], tags', parent', indent_level')
    OBVIOUS
  <2>1. TableNests(open, tags, parent, indent_level)
    BY <1>6, NestFacts
  <2>2. PICK K : Chain(K, open, tags, parent)
    BY <2>1 DEF TableNests
  <2>3. indent_level = IndentTo(open, L)
    BY <2>1 DEF TableNests
  <2> QED
    BY <1>10, <2>2, <2>3
<1>12. ~misled' => LinesIndented(printed)'
  <2> SUFFICES ASSUME ~misled' PROVE LinesIndented(printed)'
    OBVIOUS
  <2>1. indent_level' = IndentIn(OpenBehind[n])
    BY <1>5, <1>11, IndentInIs DEF TableNests
  <2>2. Nesting(n) = indent_level'
    <3> HIDE DEF n
    <3> QED
      BY <1>2, <2>1 DEF Nesting
  <2> QED
    BY <1>1, <1>6, <2>2, NestFacts
<1> QED
  BY <1>1, <1>2, <1>11, <1>12, SameNested DEF HtmlNestInv

\* The start: nothing open, the table has the root only.
LEMMA HtmlNestAtFirst == HtmlInit => HtmlNestInv
<1> SUFFICES ASSUME HtmlInit PROVE HtmlNestInv
  OBVIOUS
<1>1. HtmlLineInv
  BY HtmlLineAtFirst
<1>2. read = 0 /\ indent_level = 0 /\ parent = Root /\ printed = <<>>
  BY DEF HtmlInit, HtmlBegin
<1>3. OpenBehind[read] = <<>>
  BY <1>1, <1>2, HtmlLineTypes, OpenBehindIs
<1>4. Chain(<<>>, <<>>, tags, parent)
  <2>1. Len(<<>>) = 0 /\ <<>> \in Seq(Name \X Nat)
    OBVIOUS
  <2> QED
    BY <1>2, <2>1 DEF Chain
<1>5. IndentTo(<<>>, Len(<<>>)) = 0
  <2>1. {i \in 1 .. 0 : IndentedFor(<<>>[i])} = {} /\ Len(<<>>) = 0
    OBVIOUS
  <2> QED
    BY <2>1, FS_EmptySet DEF IndentTo
<1>6. TableNests(OpenBehind[read], tags, parent, indent_level)
  BY <1>2, <1>3, <1>4, <1>5 DEF TableNests
<1>7. LinesIndented(printed)
  <2>1. DOMAIN printed = {}
    BY <1>2
  <2> QED
    BY <2>1 DEF LinesIndented
<1> QED
  BY <1>1, <1>6, <1>7 DEF HtmlNestInv

\* Every step keeps the invariant on nesting.
LEMMA HtmlNestStep == HtmlNestInv /\ [HtmlNext]_htmlVars => HtmlNestInv'
<1> SUFFICES ASSUME HtmlNestInv, [HtmlNext]_htmlVars PROVE HtmlNestInv'
  OBVIOUS
<1>1. CASE HtmlNext
  BY <1>1, GetContentNest, StartTagNest, EndTagNest, ScriptTagNest, CodeNest, SingleTagNest,
     CommentNest DEF HtmlNext
<1>2. CASE UNCHANGED htmlVars
  <2>1. /\ html' = html /\ read' = read /\ indent_level' = indent_level /\ tags' = tags
        /\ parent' = parent /\ printed' = printed /\ misled' = misled
    BY <1>2 DEF htmlVars, htmlTable
  <2>2. HtmlLineInv'
    BY <1>2, HtmlLineStep DEF HtmlNestInv
  <2>3. LinesIndented(printed) => LinesIndented(printed)'
    BY <2>1, SamePage
  <2> QED
    BY <2>1, <2>2, <2>3, NestKept
<1> QED
  BY <1>1, <1>2

\* The invariant on nesting shows every line at the depth of its piece.
LEMMA NestShown == HtmlNestInv => IndentShowsNesting
<1> SUFFICES ASSUME HtmlNestInv, ~misled
             PROVE  /\ indent_level = IndentIn(OpenBehind[read])
                    /\ \A i \in Places :
                           Piece(i).t # "code" /\ i > 1 /\ printed[i - 1].k \in {"newline", "indent"} =>
                               Nesting(printed[i].n) = IF printed[i - 1].k = "indent" THEN printed[i - 1].n ELSE 0
  BY DEF IndentShowsNesting
<1>1. indent_level = IndentIn(OpenBehind[read]) /\ LinesIndented(printed)
  BY NestFacts
<1> QED
  BY <1>1 DEF LinesIndented, Places, Piece

\* As long as no end tag has misled the table, each line is indented by the depth of the
\* elements open where its first piece stands: the levels that record_tag keeps and
\* retrieve_tag restores (beautify-html.js 300-332) are those of the page's own nesting.
THEOREM NestingShownByTheFormatter == HtmlSpec => []IndentShowsNesting
<1>1. HtmlInit => HtmlNestInv
  BY HtmlNestAtFirst
<1>2. HtmlNestInv /\ [HtmlNext]_htmlVars => HtmlNestInv'
  BY HtmlNestStep
<1>3. HtmlNestInv => IndentShowsNesting
  BY NestShown
<1> QED
  BY <1>1, <1>2, <1>3, PTL DEF HtmlSpec

-----------------------------------------------------------------------------
(* The three of them.                                                      *)

\* The invariant of the formatter that works.
FormatInv ==
    /\ part = "css" => CssInv
    /\ part = "html" => HtmlLineInv
    /\ part = "js" => JsInv

\* Whatever a formatter has read of a sheet, a page or a script stands in its output, each
\* piece once and in its order, though the printers take back white space from the end of
\* theirs (beautify-css.js 257-261, beautify-html.js 762-773, beautify.js 1564-1570, 1690-1703).
THEOREM EverythingIsPrinted == FormatSpec => []EveryPieceOnce
<1>1. FormatInit => FormatInv
  <2> SUFFICES ASSUME FormatInit PROVE FormatInv
    OBVIOUS
  <2>1. /\ part = "css" => css \in CssSource
        /\ part = "html" => html \in HtmlSource
        /\ part = "js" => js \in JsSource
        /\ CssBegin /\ HtmlBegin /\ JsBegin
    BY DEF FormatInit
  <2>2. part = "css" => CssInv
    BY <2>1, CssInvAtFirst DEF CssInit
  <2>3. part = "html" => HtmlLineInv
    BY <2>1, HtmlLineAtFirst DEF HtmlInit
  <2>4. part = "js" => JsInv
    BY <2>1, JsInvInit, JsAssumption DEF JsInit
  <2> QED
    BY <2>2, <2>3, <2>4 DEF FormatInv
<1>2. FormatInv /\ [FormatNext]_formatVars => FormatInv'
  <2> SUFFICES ASSUME FormatInv, [FormatNext]_formatVars PROVE FormatInv'
    OBVIOUS
  <2>1. part' = part
    BY DEF FormatNext, formatVars
  <2>2. /\ part = "css" => [CssNext]_cssVars
        /\ part = "html" => [HtmlNext]_htmlVars
        /\ part = "js" => [JsNext]_jsVars
    BY DEF FormatNext, formatVars
  <2>3. part = "css" => CssInv'
    BY <2>2, CssInvStep DEF FormatInv
  <2>4. part = "html" => HtmlLineInv'
    BY <2>2, HtmlLineStep DEF FormatInv
  <2>5. part = "js" => JsInv'
    BY <2>2, JsInvNext, JsAssumption DEF FormatInv
  <2> QED
    BY <2>1, <2>3, <2>4, <2>5 DEF FormatInv
<1>3. FormatInv => EveryPieceOnce
  <2>1. part = "css" /\ FormatInv => CssTypeOK /\ CssPrinted
    BY CssInvTypes DEF FormatInv
  <2>2. part = "html" /\ FormatInv => HtmlTypeOK /\ HtmlPrinted
    BY PageIsPrinted DEF FormatInv, HtmlLineInv
  <2>3. part = "js" /\ FormatInv => JsTypeOK /\ JsPrinted
    BY JsInvTypes DEF FormatInv
  <2> QED
    BY <2>1, <2>2, <2>3 DEF EveryPieceOnce, FormatTypeOK
<1> QED
  BY <1>1, <1>2, <1>3, PTL DEF FormatSpec
=============================================================================
