---------------------------- MODULE ScrapeProofs ----------------------------
(***************************************************************************)
(* What a scrape reads and reports, for every machine, every set of label  *)
(* values without a closing brace or a quote, every way of writing a line, *)
(* every comment and every damaged line.                                   *)
(*                                                                         *)
(* First the parser: what it makes of one line, token by token, when the   *)
(* exporter wrote it (SampleIsRead) and when it did not (CommentIsSkipped, *)
(* DamageIsNoticed).  Then the collection, by ReadInv.  Then the report:   *)
(* where the samples of each family stand, what is summed and looked up,   *)
(* by ReportInv.                                                           *)
(***************************************************************************)
EXTENDS Scrape, FiniteSetTheorems, SequenceTheorems, WellFoundedInduction, TLAPS

\* The marks are different from each other.
LEMMA MarksDiffer ==
  /\ Space # Quote /\ Space # Comma /\ Space # Equals /\ Space # LBrace /\ Space # RBrace
  /\ Space # Hash
  /\ Quote # Comma /\ Quote # Equals /\ Quote # LBrace /\ Quote # RBrace /\ Quote # Hash
  /\ Comma # Equals /\ Comma # LBrace /\ Comma # RBrace /\ Comma # Hash
  /\ Equals # LBrace /\ Equals # RBrace /\ Equals # Hash
  /\ LBrace # RBrace /\ LBrace # Hash /\ RBrace # Hash
BY DEF Space, Quote, Comma, Equals, LBrace, RBrace, Hash

\* Marks and modes are tokens.
LEMMA MarksAreTokens ==
  {Space, Quote, Comma, Equals, LBrace, RBrace, Hash} \subseteq Token
BY TokenAssumption DEF Mark

\* Words are tokens and no marks.
LEMMA WordsAreTokens ==
  ASSUME NEW w \in Word
  PROVE  w \in Token
BY TokenAssumption

LEMMA ModesAre == ToSet(Mode) = {"idle", "nice", "user"} /\ Mode \in Seq(Token) /\ Len(Mode) = 3
<1>1. DOMAIN Mode = {1, 2, 3} /\ Mode[1] = "idle" /\ Mode[2] = "nice" /\ Mode[3] = "user"
      /\ Len(Mode) = 3
  BY DEF Mode
<1>2. ToSet(Mode) = {"idle", "nice", "user"}
  BY <1>1 DEF ToSet
<1>3. {"idle", "nice", "user"} \subseteq Token
  BY <1>2, TokenAssumption DEF Word
<1> QED BY <1>1, <1>2, <1>3 DEF Mode

LEMMA WordsAreNoMarks ==
  ASSUME NEW w \in Word
  PROVE  w \notin Mark
<1>1. Word = {"idle", "nice", "user", Slash, Stamp, "node_cpu_seconds_total", "cpu", "mode",
               "node_filesystem_avail_bytes", "node_filesystem_size_bytes",
               "device", "mountpoint",
               "node_boot_time_seconds", "node_load1", "node_memory_MemTotal_bytes"}
  BY ModesAre DEF Word, Plain
<1> QED
  BY <1>1 DEF Slash, Stamp, Mark, Space, Quote, Comma, Equals, LBrace, RBrace, Hash

\* A member below all others is the minimum; likewise the maximum.
LEMMA MinIs ==
  ASSUME NEW S \in SUBSET Int, NEW x \in S, \A y \in S : x <= y
  PROVE  Min(S) = x
<1>1. Min(S) \in S /\ \A y \in S : Min(S) <= y
  BY DEF Min
<1>2. Min(S) \in Int /\ x \in Int /\ Min(S) <= x /\ x <= Min(S)
  BY <1>1
<1> QED BY <1>2

LEMMA MaxIs ==
  ASSUME NEW S \in SUBSET Int, NEW x \in S, \A y \in S : x >= y
  PROVE  Max(S) = x
<1>1. Max(S) \in S /\ \A y \in S : Max(S) >= y
  BY DEF Max
<1>2. Max(S) \in Int /\ x \in Int /\ Max(S) <= x /\ x <= Max(S)
  BY <1>1
<1> QED BY <1>2

-----------------------------------------------------------------------------
(* Texts in a row. *)

\* Two texts in a row, place by place.
LEMMA Cat ==
  ASSUME NEW T, NEW p \in Seq(T), NEW q \in Seq(T)
  PROVE  LET t == p \o q
         IN  /\ t \in Seq(T) /\ Len(t) = Len(p) + Len(q) /\ DOMAIN t = 1..Len(t)
             /\ Len(p) \in Nat /\ Len(q) \in Nat /\ Len(t) \in Nat
             /\ \A i \in 1..Len(p) : t[i] = p[i]
             /\ \A i \in 1..Len(q) : t[Len(p) + i] = q[i]
             /\ SubSeq(t, 1, Len(p)) = p
             /\ SubSeq(t, Len(p) + 1, Len(t)) = q
OBVIOUS

Spaces(s) == \A i \in DOMAIN s : s[i] = Space

\* Spaces around a text are taken off.
LEMMA TrimIs ==
  ASSUME NEW T, NEW p \in Seq(T), NEW x \in Seq(T), NEW q \in Seq(T), Spaces(p), Spaces(q),
         Len(x) > 0, x[1] # Space, x[Len(x)] # Space
  PROVE  TrimSpace(p \o x \o q) = x
<1> DEFINE t == p \o x \o q
           words == {i \in DOMAIN t : t[i] # Space}
           a == Len(p) + 1
           b == Len(p) + Len(x)
<1>1. /\ t \in Seq(T) /\ Len(t) \in Nat /\ a \in Nat /\ b \in Nat
      /\ a <= b /\ b <= Len(t) /\ DOMAIN t = 1..Len(t)
      /\ \A i \in 1..(a - 1) : t[i] = Space
      /\ t[a] = x[1] /\ t[b] = x[Len(x)]
      /\ \A i \in (b + 1)..Len(t) : t[i] = Space
      /\ SubSeq(t, a, b) = x
  BY DEF Spaces
<1> HIDE DEF t
<1>2. a \in words /\ b \in words
  BY <1>1
<1>3. \A y \in words : a <= y /\ y <= b
  BY <1>1
<1>4. words \in SUBSET Int
  BY <1>1
<1>5. Min(words) = a /\ Max(words) = b
  <2> HIDE DEF words, a, b
  <2>1. \A y \in words : a <= y /\ b >= y
    BY <1>1, <1>3, <1>4
  <2> QED BY <1>2, <1>4, <2>1, MinIs, MaxIs
<1> QED BY <1>1, <1>2, <1>5 DEF TrimSpace, t

\* What TrimSpace makes of spaces only.
LEMMA TrimBlank ==
  ASSUME NEW T, NEW s \in Seq(T), Spaces(s)
  PROVE  TrimSpace(s) = <<>>
BY DEF TrimSpace, Spaces

LEMMA TrimOfText ==
  ASSUME NEW x \in Seq(Token), Len(x) > 0, x[1] # Space, x[Len(x)] # Space
  PROVE  /\ TrimSpace(x) = x
         /\ TrimSpace(<<Space>> \o x) = x
         /\ TrimSpace(x \o <<Space>>) = x
<1> DEFINE e == <<>>
           b == <<Space>>
<1>1. e \in Seq(Token) /\ b \in Seq(Token) /\ Spaces(e) /\ Spaces(b)
  BY MarksAreTokens DEF Spaces
<1>2. e \o x \o e = x /\ b \o x \o e = b \o x /\ e \o x \o b = x \o b
  BY <1>1
<1> HIDE DEF e, b
<1>3. TrimSpace(e \o x \o e) = x /\ TrimSpace(b \o x \o e) = x /\ TrimSpace(e \o x \o b) = x
  BY <1>1, TrimIs
<1> QED BY <1>2, <1>3 DEF b

\* Texts of one token.
LEMMA One ==
  ASSUME NEW w \in Token
  PROVE  <<w>> \in Seq(Token) /\ Len(<<w>>) = 1 /\ <<w>>[1] = w /\ DOMAIN <<w>> = 1..1
OBVIOUS

LEMMA OneAndTwo ==
  ASSUME NEW a \in Token, NEW b \in Token, NEW c \in Token
  PROVE  <<a, b, c>> = <<a>> \o <<b, c>>
OBVIOUS

-----------------------------------------------------------------------------
(* The parts of a line. *)

\* A line with braces, and one without them.
BracedText(n, L, F) == <<n>> \o (<<LBrace>> \o L \o <<RBrace>>) \o <<Space>> \o F
BareText(n, F) == <<n>> \o <<Space>> \o F

\* A line with braces, place by place.
LEMMA BracedLine ==
  ASSUME NEW n \in Token, NEW L \in Seq(Token), NEW F \in Seq(Token)
  PROVE  LET line == BracedText(n, L, F)
             c == Len(L) + 3
         IN  /\ line \in Seq(Token) /\ DOMAIN line = 1..Len(line)
             /\ Len(line) \in Nat /\ Len(L) \in Nat /\ c \in 1..Len(line)
             /\ line[1] = n /\ line[2] = LBrace /\ line[c] = RBrace
             /\ \A i \in 1..Len(L) : line[2 + i] = L[i]
             /\ SubSeq(line, 1, 1) = <<n>>
             /\ SubSeq(line, 3, c - 1) = L
             /\ SubSeq(line, c + 1, Len(line)) = <<Space>> \o F
<1> DEFINE N == <<n>>
           O == <<LBrace>>
           C == <<RBrace>>
           S == <<Space>>
           line == N \o (O \o L \o C) \o S \o F
           o == Len(N) + Len(O)
           c == o + Len(L)
<1>1. N \in Seq(Token) /\ O \in Seq(Token) /\ C \in Seq(Token) /\ S \in Seq(Token)
  BY MarksAreTokens, One
<1>2. /\ Len(N) = 1 /\ Len(O) = 1 /\ Len(C) = 1 /\ Len(S) = 1
      /\ N[1] = n /\ O[1] = LBrace /\ C[1] = RBrace
  BY MarksAreTokens, One
<1> HIDE DEF N, O, C, S
<1>3. /\ line \in Seq(Token) /\ DOMAIN line = 1..Len(line)
      /\ Len(line) = c + Len(C) + Len(S) + Len(F)
      /\ Len(L) \in Nat /\ Len(F) \in Nat /\ Len(line) \in Nat
  BY <1>1
<1>4. /\ \A i \in 1..Len(N) : line[i] = N[i]
      /\ \A i \in 1..Len(O) : line[Len(N) + i] = O[i]
  BY <1>1, SMTT(40)
<1>5. \A i \in 1..Len(L) : line[o + i] = L[i]
  BY <1>1
<1>55. \A i \in 1..Len(C) : line[c + i] = C[i]
  BY <1>1
<1>6. SubSeq(line, 1, Len(N)) = N
  BY <1>1
<1>7. SubSeq(line, o + 1, c) = L
  BY <1>1
<1>8. SubSeq(line, c + Len(C) + 1, Len(line)) = S \o F
  BY <1>1, SMTT(40)
<1> HIDE DEF line
<1>9. o = 2 /\ c = Len(L) + 2
  BY <1>2, <1>3
<1>10. line[1] = n /\ line[2] = LBrace /\ line[Len(L) + 3] = RBrace
  BY <1>2, <1>3, <1>4, <1>55
<1>11. \A i \in 1..Len(L) : line[2 + i] = L[i]
  BY <1>5, <1>9
<1>12. /\ SubSeq(line, 1, 1) = N
       /\ SubSeq(line, 3, (Len(L) + 3) - 1) = L
       /\ SubSeq(line, (Len(L) + 3) + 1, Len(line)) = S \o F
  BY <1>2, <1>3, <1>6, <1>7, <1>8, <1>9, SMTT(40)
<1>13. Len(L) + 3 \in 1..Len(line)
  BY <1>2, <1>3, <1>9
<1> QED BY <1>3, <1>10, <1>11, <1>12, <1>13 DEF line, N, O, C, S, BracedText

\* A line without braces, place by place.
LEMMA BareLine ==
  ASSUME NEW n \in Token, NEW F \in Seq(Token)
  PROVE  LET line == BareText(n, F)
         IN  /\ line \in Seq(Token) /\ DOMAIN line = 1..Len(line)
             /\ Len(line) \in Nat /\ Len(line) >= 2
             /\ line[1] = n /\ line[2] = Space
             /\ SubSeq(line, 1, 1) = <<n>>
             /\ SubSeq(line, 2, Len(line)) = <<Space>> \o F
<1> DEFINE N == <<n>>
           S == <<Space>>
           line == N \o S \o F
<1>1. N \in Seq(Token) /\ S \in Seq(Token)
  BY MarksAreTokens, One
<1>2. Len(N) = 1 /\ Len(S) = 1 /\ N[1] = n /\ S[1] = Space
  BY MarksAreTokens, One
<1> HIDE DEF N, S
<1>3. /\ line \in Seq(Token) /\ DOMAIN line = 1..Len(line)
      /\ Len(line) = Len(N) + Len(S) + Len(F) /\ Len(line) \in Nat /\ Len(F) \in Nat
  BY <1>1
<1>4. /\ \A i \in 1..Len(N) : line[i] = N[i]
      /\ \A i \in 1..Len(S) : line[Len(N) + i] = S[i]
  BY <1>1
<1>5. SubSeq(line, 1, Len(N)) = N
  BY <1>1
<1>6. SubSeq(line, Len(N) + 1, Len(line)) = S \o F
  BY <1>1
<1> HIDE DEF line
<1>7. line[1] = n /\ line[2] = Space
  BY <1>2, <1>3, <1>4
<1> QED BY <1>2, <1>3, <1>5, <1>6, <1>7 DEF line, N, S, BareText

\* A line whose name ends at a brace: what is in the braces has no closing one.
LEMMA PartsOfLine ==
  ASSUME NEW n \in Token, n \notin {Space, LBrace},
         NEW L \in Seq(Token), \A i \in DOMAIN L : L[i] # RBrace,
         NEW F \in Seq(Token), Len(F) > 0, F[1] # Space, F[Len(F)] # Space
  PROVE  LET line == BracedText(n, L, F)
         IN  /\ At(line, {LBrace, Space}) # {}
             /\ Labelled(line) /\ Closing(line) # {}
             /\ Before(line, NameEnd(line)) = <<n>>
             /\ LabelStr(line) = L /\ Rest(line) = F
<1> DEFINE line == BracedText(n, L, F)
           c == Len(L) + 3
           N == <<n>>
           Z == <<Space>> \o F
<1>1. /\ line \in Seq(Token) /\ DOMAIN line = 1..Len(line)
      /\ Len(line) \in Nat /\ Len(L) \in Nat /\ c \in 1..Len(line)
      /\ line[1] = n /\ line[2] = LBrace /\ line[c] = RBrace
      /\ \A i \in 1..Len(L) : line[2 + i] = L[i]
      /\ SubSeq(line, 1, 1) = N
      /\ SubSeq(line, 3, c - 1) = L
      /\ SubSeq(line, c + 1, Len(line)) = Z
  BY BracedLine, SMTT(40)
<1>11. DOMAIN L = 1..Len(L)
  OBVIOUS
<1>2. TrimSpace(Z) = F
  BY TrimOfText
<1> HIDE DEF line, N, Z
<1>3. NameEnd(line) = 2 /\ 2 \in At(line, {LBrace, Space})
  <2> DEFINE marks == At(line, {LBrace, Space})
  <2>1. marks \in SUBSET Int /\ 2 \in marks /\ \A i \in marks : 2 <= i
    BY <1>1 DEF At
  <2> HIDE DEF marks
  <2> QED BY <2>1, MinIs DEF NameEnd, marks
<1>4. Labelled(line)
  BY <1>1, <1>3 DEF Labelled
<1>5. Close(line) = c /\ c \in Closing(line)
  <2>1. c \in Closing(line) /\ Closing(line) \in SUBSET Int
    BY <1>1, <1>3 DEF Closing, At
  <2>2. ASSUME NEW i \in Closing(line)
        PROVE  c <= i
    <3>1. i \in 3..Len(line) /\ line[i] = RBrace
      BY <1>1, <1>3 DEF Closing, At
    <3>2. ASSUME i < c
          PROVE  FALSE
      <4>1. i - 2 \in 1..Len(L) /\ 2 + (i - 2) = i
        BY <3>1, <3>2, <1>1
      <4> QED BY <3>1, <4>1, <1>1, <1>11, ZenonT(60)
    <3> QED BY <3>1, <3>2, <1>1
  <2> DEFINE m == c
  <2>3. m \in Closing(line) /\ \A i \in Closing(line) : m <= i
    BY <2>1, <2>2
  <2> HIDE DEF m
  <2>4. Min(Closing(line)) = m
    BY <2>1, <2>3, MinIs
  <2> QED BY <2>1, <2>4 DEF Close, m
<1>6. LabelStr(line) = L /\ Rest(line) = F
  <2>1. LabelStr(line) = SubSeq(line, 2 + 1, c - 1)
    BY <1>3, <1>4, <1>5 DEF LabelStr
  <2>2. Rest(line) = TrimSpace(SubSeq(line, c + 1, Len(line)))
    BY <1>3, <1>4, <1>5 DEF Rest, From
  <2>3. LabelStr(line) = L
    BY <1>1, <2>1
  <2>4. Rest(line) = F
    BY <1>1, <1>2, <2>2
  <2> QED BY <2>3, <2>4
<1>7. Before(line, NameEnd(line)) = N
  BY <1>1, <1>3 DEF Before
<1> QED BY <1>3, <1>4, <1>5, <1>6, <1>7 DEF line, N

\* The parts of a line without labels.
LEMMA PartsOfBareLine ==
  ASSUME NEW n \in Token, n \notin {Space, LBrace},
         NEW F \in Seq(Token), Len(F) > 0, F[1] # Space, F[Len(F)] # Space
  PROVE  LET line == BareText(n, F)
         IN  /\ At(line, {LBrace, Space}) # {}
             /\ ~Labelled(line)
             /\ Before(line, NameEnd(line)) = <<n>>
             /\ LabelStr(line) = <<>> /\ Rest(line) = F
<1> DEFINE line == BareText(n, F)
           N == <<n>>
           Z == <<Space>> \o F
<1>1. /\ line \in Seq(Token) /\ DOMAIN line = 1..Len(line)
      /\ Len(line) \in Nat /\ Len(line) >= 2
      /\ line[1] = n /\ line[2] = Space
      /\ SubSeq(line, 1, 1) = N
      /\ SubSeq(line, 2, Len(line)) = Z
  BY BareLine
<1>2. TrimSpace(Z) = F
  BY TrimOfText
<1> HIDE DEF line, N, Z
<1>3. NameEnd(line) = 2 /\ 2 \in At(line, {LBrace, Space})
  <2> DEFINE marks == At(line, {LBrace, Space})
  <2>1. marks \in SUBSET Int /\ 2 \in marks /\ \A i \in marks : 2 <= i
    BY <1>1 DEF At
  <2> HIDE DEF marks
  <2> QED BY <2>1, MinIs DEF NameEnd, marks
<1>4. ~Labelled(line)
  BY <1>1, <1>3, MarksDiffer DEF Labelled
<1>5. LabelStr(line) = <<>> /\ Rest(line) = F
  BY <1>1, <1>2, <1>3, <1>4 DEF LabelStr, Rest, From
<1>6. Before(line, NameEnd(line)) = N
  BY <1>1, <1>3 DEF Before
<1> QED BY <1>3, <1>4, <1>5, <1>6 DEF line, N

\* The value is the first field, whether a timestamp follows or not.
LEMMA FieldsAre ==
  ASSUME NEW v \in Token, v # Space, NEW style \in Style
  PROVE  LET F == Fields(v, style)
         IN  /\ F \in Seq(Token) /\ Len(F) > 0 /\ F[1] # Space /\ F[Len(F)] # Space
             /\ Before(F, Min(At(F, {Space}) \cup {Len(F) + 1})) = <<v>>
<1> DEFINE F == Fields(v, style)
           V == <<v>>
           G == <<Space, Stamp>>
<1>1. Stamp \in Token /\ Stamp # Space
  BY WordsAreTokens, WordsAreNoMarks DEF Word, Mark
<1>2. /\ V \in Seq(Token) /\ Len(V) = 1 /\ V[1] = v /\ DOMAIN V = 1..1
      /\ G \in Seq(Token) /\ Len(G) = 2 /\ G[1] = Space /\ G[2] = Stamp
  BY <1>1, MarksAreTokens
<1>3. F = V \o G \/ F = V
  <2>1. V \o <<>> = V
    BY <1>2
  <2> QED BY <2>1 DEF Fields
<1>4. V \o G \in Seq(Token) /\ SubSeq(V \o G, 1, Len(V)) = V /\ SubSeq(V, 1, Len(V)) = V
  <2> HIDE DEF V, G
  <2>1. SubSeq(V, 1, Len(V)) = V
    BY <1>2
  <2>2. V \o G \in Seq(Token) /\ SubSeq(V \o G, 1, Len(V)) = V
    BY <1>2, Cat
  <2> QED BY <2>1, <2>2
<1>5. V \o G = <<v, Space, Stamp>>
  BY <1>1, MarksAreTokens, OneAndTwo, ZenonT(60)
<1> HIDE DEF F
<1>6. CASE F = V
  <2>1. /\ F \in Seq(Token) /\ Len(F) = 1 /\ DOMAIN F = 1..1 /\ F[1] = v
        /\ SubSeq(F, 1, 1) = V
    BY <1>2, <1>4, <1>6
  <2> DEFINE ends == At(F, {Space}) \cup {Len(F) + 1}
  <2>2. At(F, {Space}) = {} /\ {Len(F) + 1} = {2}
    <3>1. At(F, {Space}) = {}
      BY <2>1 DEF At
    <3>2. Len(F) = 1
      BY <2>1
    <3> QED BY <3>1, <3>2
  <2>3. ends = {2}
    BY <2>2
  <2> HIDE DEF ends
  <2>4. 2 \in ends /\ ends \in SUBSET Int /\ \A i \in ends : 2 <= i
    BY <2>3
  <2>5. Min(ends) = 2
    BY <2>4, MinIs
  <2> QED BY <2>1, <2>5 DEF Before, F, ends
<1>7. CASE F = V \o G
  <2>1. /\ F \in Seq(Token) /\ Len(F) = 3 /\ DOMAIN F = 1..3
        /\ F[1] = v /\ F[2] = Space /\ F[3] = Stamp
    BY <1>4, <1>5, <1>7
  <2>2. SubSeq(F, 1, 1) = V
    BY <1>2, <1>4, <1>7
  <2> DEFINE ends == At(F, {Space}) \cup {Len(F) + 1}
  <2>3. At(F, {Space}) = {2} /\ {Len(F) + 1} = {4}
    <3>1. At(F, {Space}) = {2}
      BY <1>1, <2>1 DEF At
    <3>2. Len(F) = 3
      BY <2>1
    <3> QED BY <3>1, <3>2
  <2>4. ends = {2, 4}
    BY <2>3
  <2> HIDE DEF ends
  <2>5. 2 \in ends /\ ends \in SUBSET Int /\ \A i \in ends : 2 <= i
    BY <2>4
  <2>6. Min(ends) = 2
    BY <2>5, MinIs
  <2> QED BY <1>1, <2>1, <2>2, <2>6 DEF Before, F, ends
<1> QED BY <1>3, <1>6, <1>7

-----------------------------------------------------------------------------
(* One label. *)

\* key="value", and the same with the spaces before it.
PairText(k, v) == <<k>> \o <<Equals>> \o (<<Quote>> \o v \o <<Quote>>)
QuotedText(v) == <<Quote>> \o v \o <<Quote>>

\* Where the marks of a label stand.
LEMMA QuotedPlaces ==
  ASSUME NEW v \in Seq(Token)
  PROVE  LET q == QuotedText(v)
         IN  /\ q \in Seq(Token) /\ DOMAIN q = 1..Len(q)
             /\ Len(v) \in Nat /\ Len(q) = Len(v) + 2
             /\ q[1] = Quote /\ q[Len(v) + 2] = Quote
             /\ \A i \in 1..Len(v) : q[1 + i] = v[i]
             /\ SubSeq(q, 2, Len(q) - 1) = v
<1> DEFINE Q == <<Quote>>
           q == Q \o v \o Q
<1>1. Q \in Seq(Token)
  BY MarksAreTokens, One
<1>2. Len(Q) = 1 /\ Q[1] = Quote
  BY MarksAreTokens, One
<1> HIDE DEF Q
<1>3. q \in Seq(Token) /\ DOMAIN q = 1..Len(q) /\ Len(v) \in Nat /\ Len(q) = Len(Q) + Len(v) + Len(Q)
  BY <1>1
<1>4. \A i \in 1..Len(Q) : q[i] = Q[i] /\ q[Len(Q) + Len(v) + i] = Q[i]
  BY <1>1
<1>5. \A i \in 1..Len(v) : q[Len(Q) + i] = v[i]
  BY <1>1
<1>6. SubSeq(q, Len(Q) + 1, Len(Q) + Len(v)) = v
  BY <1>1
<1> HIDE DEF q
<1>7. /\ Len(q) = Len(v) + 2 /\ q[1] = Quote /\ q[Len(v) + 2] = Quote
      /\ \A i \in 1..Len(v) : q[1 + i] = v[i]
  BY <1>2, <1>3, <1>4, <1>5
<1>8. SubSeq(q, 2, Len(q) - 1) = v
  <2>1. Len(q) - 1 = 1 + Len(v)
    BY <1>3, <1>7
  <2> QED BY <1>2, <1>6, <2>1
<1> QED BY <1>3, <1>7, <1>8 DEF q, Q, QuotedText

LEMMA PairPlaces ==
  ASSUME NEW k \in Token, NEW v \in Seq(Token)
  PROVE  LET p == PairText(k, v)
         IN  /\ p \in Seq(Token) /\ DOMAIN p = 1..Len(p)
             /\ Len(v) \in Nat /\ Len(p) = Len(v) + 4
             /\ p[1] = k /\ p[2] = Equals /\ p[3] = Quote /\ p[Len(v) + 4] = Quote
             /\ \A i \in 1..Len(v) : p[3 + i] = v[i]
             /\ SubSeq(p, 1, 1) = <<k>>
             /\ SubSeq(p, 3, Len(p)) = QuotedText(v)
<1> DEFINE K == <<k>>
           E == <<Equals>>
           q == QuotedText(v)
           p == K \o E \o q
<1>1. K \in Seq(Token) /\ E \in Seq(Token) /\ q \in Seq(Token)
  BY MarksAreTokens, One, QuotedPlaces
<1>2. Len(K) = 1 /\ K[1] = k /\ Len(E) = 1 /\ E[1] = Equals
  BY MarksAreTokens, One
<1>3. /\ Len(v) \in Nat /\ Len(q) = Len(v) + 2
      /\ q[1] = Quote /\ q[Len(v) + 2] = Quote
      /\ \A i \in 1..Len(v) : q[1 + i] = v[i]
  BY QuotedPlaces
<1> HIDE DEF K, E, q
<1>4. p \in Seq(Token) /\ DOMAIN p = 1..Len(p) /\ Len(p) = Len(K) + Len(E) + Len(q)
  BY <1>1
<1>5. \A i \in 1..Len(K) : p[i] = K[i]
  BY <1>1
<1>6. \A i \in 1..Len(E) : p[Len(K) + i] = E[i]
  BY <1>1
<1>7. \A i \in 1..Len(q) : p[Len(K) + Len(E) + i] = q[i]
  BY <1>1
<1>8. SubSeq(p, 1, Len(K)) = K
  BY <1>1
<1>9. SubSeq(p, Len(K) + Len(E) + 1, Len(p)) = q
  BY <1>1
<1> HIDE DEF p
<1>10. Len(p) = Len(v) + 4
  BY <1>2, <1>3, <1>4
<1>11. p[1] = k /\ p[2] = Equals
  BY <1>2, <1>5, <1>6
<1>12. \A i \in 1..Len(q) : p[2 + i] = q[i]
  BY <1>2, <1>7
<1>13. p[3] = Quote /\ p[Len(v) + 4] = Quote /\ \A i \in 1..Len(v) : p[3 + i] = v[i]
  <2>1. 1 \in 1..Len(q) /\ Len(v) + 2 \in 1..Len(q)
    BY <1>3
  <2>2. p[2 + 1] = q[1] /\ p[2 + (Len(v) + 2)] = q[Len(v) + 2]
    BY <1>12, <2>1
  <2>3. ASSUME NEW i \in 1..Len(v)
        PROVE  p[3 + i] = v[i]
    <3>1. 1 + i \in 1..Len(q) /\ 2 + (1 + i) = 3 + i
      BY <1>3
    <3> QED BY <1>3, <1>12, <3>1
  <2>4. 2 + (Len(v) + 2) = Len(v) + 4
    BY <1>3
  <2> QED BY <1>3, <2>2, <2>3, <2>4
<1>14. SubSeq(p, 1, 1) = K /\ SubSeq(p, 3, Len(p)) = q
  BY <1>2, <1>8, <1>9
<1> QED BY <1>3, <1>4, <1>10, <1>11, <1>13, <1>14 DEF p, q, K, E, PairText, QuotedText

\* A pair is read as it was written.
LEMMA PairIsRead ==
  ASSUME NEW k \in Token, k \notin Mark, NEW v \in Seq(Token)
  PROVE  LET p == PairText(k, v)
         IN  /\ p # <<>> /\ WellFormed(p) /\ Key(p) = <<k>>
             /\ SubSeq(Quoted(p), 2, Len(Quoted(p)) - 1) = v
<1> DEFINE p == PairText(k, v)
           q == QuotedText(v)
           K == <<k>>
<1>1. /\ p \in Seq(Token) /\ DOMAIN p = 1..Len(p)
      /\ Len(v) \in Nat /\ Len(p) = Len(v) + 4
      /\ p[1] = k /\ p[2] = Equals
      /\ SubSeq(p, 1, 1) = K
      /\ SubSeq(p, 3, Len(p)) = q
  BY PairPlaces
<1>2. /\ q \in Seq(Token) /\ Len(q) = Len(v) + 2
      /\ q[1] = Quote /\ q[Len(q)] = Quote
      /\ SubSeq(q, 2, Len(q) - 1) = v
  BY QuotedPlaces
<1>3. TrimSpace(K) = K /\ TrimSpace(q) = q
  <2>0. K \in Seq(Token) /\ Len(K) = 1 /\ K[1] # Space
    BY One DEF Mark
  <2> HIDE DEF q, K
  <2>1. TrimSpace(K) = K
    BY <2>0, TrimOfText
  <2>2. TrimSpace(q) = q
    BY <1>1, <1>2, TrimOfText, MarksDiffer, SMTT(40)
  <2> QED BY <2>1, <2>2
<1> HIDE DEF p, q, K
<1>4. Min(At(p, {Equals})) = 2 /\ At(p, {Equals}) # {}
  <2> DEFINE marks == At(p, {Equals})
  <2>1. marks \in SUBSET Int /\ 2 \in marks /\ \A i \in marks : 2 <= i
    BY <1>1 DEF At, Mark
  <2> HIDE DEF marks
  <2> QED BY <2>1, MinIs DEF marks
<1>5. Key(p) = K
  <2>1. Key(p) = TrimSpace(SubSeq(p, 1, 2 - 1))
    BY <1>4 DEF Key, Before
  <2>2. SubSeq(p, 1, 2 - 1) = K
    BY <1>1
  <2> QED BY <1>3, <2>1, <2>2
<1>6. Quoted(p) = q
  <2>1. Quoted(p) = TrimSpace(SubSeq(p, 2 + 1, Len(p)))
    BY <1>4 DEF Quoted, From
  <2>2. SubSeq(p, 2 + 1, Len(p)) = q
    BY <1>1
  <2> QED BY <1>3, <2>1, <2>2
<1>7. WellFormed(p)
  <2>1. Len(q) >= 2
    BY <1>1, <1>2
  <2> QED BY <1>2, <1>4, <1>6, <2>1 DEF WellFormed, Last
<1>8. p # <<>>
  BY <1>1
<1> QED BY <1>2, <1>5, <1>6, <1>7, <1>8 DEF p, K

\* What the styles leave open are spaces.
LEMMA BlankIs ==
  ASSUME NEW style \in Style
  PROVE  /\ Blank(style) \in Seq(Token) /\ Spaces(Blank(style))
         /\ Blank(style) = <<>> \/ Blank(style) = <<Space>>
BY MarksAreTokens, One DEF Blank, Spaces

\* A label as it is rendered.
LEMMA LabelIsPair ==
  ASSUME NEW k \in Token, NEW v \in Seq(Token), NEW style \in Style
  PROVE  RenderLabel(<<k, v>>, style) = Blank(style) \o PairText(k, v)
<1> DEFINE B == Blank(style)
           K == <<k>>
           E == <<Equals>>
           Q == <<Quote>>
           H == <<k, Equals, Quote>>
<1>1. B \in Seq(Token) /\ K \in Seq(Token) /\ E \in Seq(Token) /\ Q \in Seq(Token)
  BY BlankIs, One, MarksAreTokens
<1>2. H = K \o (E \o Q)
  <2>1. <<Equals, Quote>> = E \o Q
    BY MarksAreTokens
  <2>2. H = K \o <<Equals, Quote>>
    BY MarksAreTokens, OneAndTwo, SMTT(40)
  <2> QED BY <2>1, <2>2
<1>3. RenderLabel(<<k, v>>, style) = B \o H \o v \o Q
  BY DEF RenderLabel
<1>4. PairText(k, v) = (K \o E) \o (Q \o v \o Q)
  BY DEF PairText
<1> HIDE DEF B, K, E, Q, H
<1>5. H = K \o E \o Q
  BY <1>1, <1>2
<1>6. H \in Seq(Token) /\ K \o E \in Seq(Token) /\ H \o v \in Seq(Token) /\ Q \o v \in Seq(Token)
  BY <1>1, <1>5
<1>7. B \o H \o v \o Q = B \o (H \o v \o Q)
  <2> DEFINE M == H \o v
  <2>1. M \in Seq(Token)
    BY <1>6
  <2>2. B \o H \o v = B \o M
    BY <1>1, <1>6
  <2> HIDE DEF M
  <2>3. (B \o M) \o Q = B \o (M \o Q)
    BY <1>1, <2>1, SMTT(40)
  <2> QED BY <2>2, <2>3 DEF M
<1>8. H \o v \o Q = (K \o E) \o (Q \o v \o Q)
  <2> DEFINE A == K \o E
  <2>1. A \in Seq(Token) /\ H = A \o Q
    BY <1>5, <1>6
  <2> HIDE DEF A
  <2>2. (A \o Q) \o v = A \o (Q \o v)
    BY <1>1, <2>1, SMTT(40)
  <2>3. (A \o (Q \o v)) \o Q = A \o ((Q \o v) \o Q)
    <3> DEFINE M == Q \o v
    <3>1. M \in Seq(Token)
      BY <1>6
    <3> HIDE DEF M
    <3>2. A \in Seq(Token) /\ Q \in Seq(Token)
      BY <1>1, <2>1
    <3>3. (A \o M) \o Q = A \o (M \o Q)
      BY <3>1, <3>2
    <3> QED BY <3>3 DEF M
  <2> QED BY <2>1, <2>2, <2>3 DEF A
<1> QED BY <1>3, <1>4, <1>7, <1>8 DEF B

\* Where the marks of a label stand, and what is left of it without the spaces.
LEMMA LabelPlaces ==
  ASSUME NEW k \in Token, k \notin Mark, NEW v \in Seq(Token),
         \A i \in DOMAIN v : v[i] \notin {RBrace, Quote}, NEW style \in Style
  PROVE  LET x == RenderLabel(<<k, v>>, style)
         IN  /\ x \in Seq(Token) /\ Len(x) \in Nat /\ DOMAIN x = 1..Len(x)
             /\ TrimSpace(x) = PairText(k, v)
             /\ \A i \in DOMAIN x : x[i] # RBrace
             /\ \E a, b \in DOMAIN x :
                   /\ a < b /\ At(x, {Quote}) = {a, b}
                   /\ \A i \in At(x, {Comma}) : a < i /\ i < b
<1> DEFINE x == RenderLabel(<<k, v>>, style)
           B == Blank(style)
           p == PairText(k, v)
           a == Len(B) + 3
           b == Len(B) + Len(v) + 4
<1>1. B \in Seq(Token) /\ Spaces(B)
  BY BlankIs
<1>2. /\ p \in Seq(Token) /\ DOMAIN p = 1..Len(p)
      /\ Len(v) \in Nat /\ Len(p) = Len(v) + 4
      /\ p[1] = k /\ p[2] = Equals /\ p[3] = Quote /\ p[Len(v) + 4] = Quote
      /\ \A i \in 1..Len(v) : p[3 + i] = v[i]
  BY PairPlaces
<1>3. x = B \o p
  BY LabelIsPair
<1>31. DOMAIN v = 1..Len(v)
  OBVIOUS
<1> HIDE DEF B, p, x
<1>4. /\ x \in Seq(Token) /\ Len(x) \in Nat /\ DOMAIN x = 1..Len(x)
      /\ Len(x) = Len(B) + Len(p) /\ Len(B) \in Nat
      /\ \A i \in 1..Len(B) : x[i] = B[i]
      /\ \A i \in 1..Len(p) : x[Len(B) + i] = p[i]
  <2>1. B \in Seq(Token) /\ p \in Seq(Token)
    BY <1>1, <1>2
  <2> QED BY <1>3, <2>1, Cat
<1>5. TrimSpace(x) = p
  <2> DEFINE e == <<>>
  <2>1. e \in Seq(Token) /\ Spaces(e)
    BY DEF Spaces
  <2>2. p \o e = p
    BY <1>2
  <2>3. (B \o p) \o e = B \o p
    BY <1>1, <1>2
  <2> HIDE DEF e
  <2>4. Len(p) > 0 /\ p[1] # Space /\ p[Len(p)] # Space
    BY <1>2, MarksDiffer DEF Mark
  <2>5. TrimSpace(B \o p \o e) = p
    BY <1>1, <1>2, <2>1, <2>4, TrimIs
  <2> QED BY <1>3, <2>3, <2>5
<1>6. \A i \in 1..Len(B) : x[i] = Space
  <2>1. DOMAIN B = 1..Len(B)
    BY <1>1
  <2> QED BY <1>1, <1>4, <2>1 DEF Spaces
<1>7. /\ x[Len(B) + 1] = k /\ x[Len(B) + 2] = Equals /\ x[a] = Quote /\ x[b] = Quote
      /\ \A i \in 1..Len(v) : x[Len(B) + 3 + i] = v[i]
  <2>1. /\ 1 \in 1..Len(p) /\ 2 \in 1..Len(p) /\ 3 \in 1..Len(p) /\ Len(v) + 4 \in 1..Len(p)
        /\ Len(B) + (Len(v) + 4) = b
    BY <1>2, <1>4
  <2>2. x[Len(B) + 1] = k /\ x[Len(B) + 2] = Equals /\ x[a] = Quote /\ x[b] = Quote
    BY <1>2, <1>4, <2>1
  <2>3. ASSUME NEW i \in 1..Len(v)
        PROVE  x[Len(B) + 3 + i] = v[i]
    <3>1. 3 + i \in 1..Len(p) /\ Len(B) + (3 + i) = Len(B) + 3 + i
      BY <1>2, <1>4
    <3> QED BY <1>2, <1>4, <3>1
  <2> QED BY <2>2, <2>3
<1>8. a \in Nat /\ b \in Nat /\ a \in DOMAIN x /\ b \in DOMAIN x /\ a < b
  BY <1>2, <1>4
<1>9. \A i \in DOMAIN x : \/ i \in 1..Len(B) \/ i = Len(B) + 1 \/ i = Len(B) + 2 \/ i = a \/ i = b
                          \/ i - (Len(B) + 3) \in 1..Len(v)
  <2> DEFINE c == Len(B)
             d == Len(v)
  <2>1. c \in Nat /\ d \in Nat /\ a = c + 3 /\ b = c + d + 4 /\ Len(x) = c + (d + 4)
    BY <1>2, <1>4
  <2>2. DOMAIN x = 1..(c + (d + 4))
    BY <1>4, <2>1
  <2> HIDE DEF c, d, a, b
  <2>3. ASSUME NEW i \in 1..(c + (d + 4))
        PROVE  i \in 1..c \/ i = c + 1 \/ i = c + 2 \/ i = a \/ i = b \/ i - (c + 3) \in 1..d
    BY <2>1
  <2> QED BY <2>2, <2>3 DEF c, d
<1>10. \A i \in DOMAIN x : \/ x[i] \in {Space, k, Equals}
                           \/ x[i] = Quote /\ i \in {a, b}
                           \/ x[i] \notin {RBrace, Quote} /\ a < i /\ i < b
  <2> SUFFICES ASSUME NEW i \in DOMAIN x, x[i] \notin {Space, k, Equals}, i \notin {a, b}
               PROVE  x[i] \notin {RBrace, Quote} /\ a < i /\ i < b
    BY <1>7
  <2>1. i - (Len(B) + 3) \in 1..Len(v)
    BY <1>6, <1>7, <1>9
  <2>2. Len(B) + 3 + (i - (Len(B) + 3)) = i
    BY <1>4
  <2>3. x[i] = v[i - (Len(B) + 3)]
    BY <1>7, <2>1, <2>2
  <2>4. a < i /\ i < b
    BY <1>2, <1>4, <2>1
  <2> QED BY <1>31, <2>1, <2>3, <2>4
<1> HIDE DEF a, b
<1>11. \A i \in DOMAIN x : x[i] # RBrace
  BY <1>10, MarksDiffer DEF Mark
<1>12. At(x, {Quote}) = {a, b}
  BY <1>7, <1>8, <1>10, MarksDiffer DEF Mark, At
<1>13. \A i \in At(x, {Comma}) : a < i /\ i < b
  BY <1>10, MarksDiffer DEF Mark, At
<1> QED BY <1>4, <1>5, <1>8, <1>11, <1>12, <1>13 DEF x, p
-----------------------------------------------------------------------------
(* Two labels. *)

\* Two labels with the comma between them, and what may follow.
Ends == {<<>>, <<Comma>>}
JoinedText(X, Y, E) == X \o <<Comma>> \o Y \o E

\* Where the marks of two labels stand.
LEMMA JoinedPlaces ==
  ASSUME NEW X \in Seq(Token), NEW Y \in Seq(Token), NEW E \in Ends
  PROVE  LET t == JoinedText(X, Y, E)
             d == Len(X) + 1
             e == Len(X) + 1 + Len(Y)
         IN  /\ t \in Seq(Token) /\ DOMAIN t = 1..Len(t)
             /\ Len(X) \in Nat /\ Len(Y) \in Nat /\ Len(t) = e + Len(E)
             /\ Len(E) \in {0, 1} /\ (E = <<>> <=> Len(E) = 0)
             /\ \A i \in 1..Len(X) : t[i] = X[i]
             /\ t[d] = Comma
             /\ \A i \in 1..Len(Y) : t[d + i] = Y[i]
             /\ \A i \in 1..Len(E) : t[e + i] = Comma
             /\ SubSeq(t, 1, d - 1) = X
             /\ SubSeq(t, d + 1, e) = Y
<1> DEFINE C == <<Comma>>
           t == X \o C \o Y \o E
           d == Len(X) + Len(C)
           e == Len(X) + Len(C) + Len(Y)
<1>0. C \in Seq(Token)
  BY MarksAreTokens, One
<1>2. Len(C) = 1 /\ C[1] = Comma
  BY MarksAreTokens, One
<1>3. /\ E \in Seq(Token)
      /\ Len(E) \in {0, 1} /\ (E = <<>> <=> Len(E) = 0)
      /\ \A i \in 1..Len(E) : E[i] = Comma
  <2>1. CASE E = <<>>
    BY <2>1
  <2>2. CASE E = C
    <3> HIDE DEF C
    <3> QED BY <1>0, <1>2, <2>2
  <2> QED BY <2>1, <2>2 DEF Ends
<1>1. C \in Seq(Token) /\ E \in Seq(Token)
  BY <1>0, <1>3
<1> HIDE DEF C
<1>4. t \in Seq(Token) /\ DOMAIN t = 1..Len(t) /\ Len(t) = e + Len(E)
      /\ Len(X) \in Nat /\ Len(Y) \in Nat
  BY <1>1
<1>5. \A i \in 1..Len(X) : t[i] = X[i]
  BY <1>1
<1>6. \A i \in 1..Len(C) : t[Len(X) + i] = C[i]
  BY <1>1
<1>7. \A i \in 1..Len(Y) : t[d + i] = Y[i]
  BY <1>1
<1>8. \A i \in 1..Len(E) : t[e + i] = E[i]
  BY <1>1
<1>9. SubSeq(t, 1, Len(X)) = X
  BY <1>1
<1>10. SubSeq(t, d + 1, e) = Y
  BY <1>1
<1> HIDE DEF t
<1>11. t[Len(X) + 1] = Comma
  BY <1>2, <1>6
<1>12. d = Len(X) + 1 /\ e = Len(X) + 1 + Len(Y) /\ Len(X) = (Len(X) + 1) - 1
  BY <1>2, <1>4
<1>13. \A i \in 1..Len(E) : t[e + i] = Comma
  BY <1>3, <1>8
<1> QED BY <1>3, <1>4, <1>5, <1>7, <1>9, <1>10, <1>11, <1>12, <1>13 DEF t, C, JoinedText

\* A label as the parser may meet it: one quote at each end of its value, and no comma
\* but between them.
Label2(x, a, b) ==
  /\ x \in Seq(Token) /\ a \in DOMAIN x /\ b \in DOMAIN x
  /\ a < b /\ At(x, {Quote}) = {a, b}
  /\ \A i \in At(x, {Comma}) : a < i /\ i < b

\* Where the marks of two labels stand.
LEMMA JoinedMarks ==
  ASSUME NEW X \in Seq(Token), NEW Y \in Seq(Token), NEW E \in Ends,
         NEW a \in Nat, NEW b \in Nat, NEW a2 \in Nat, NEW b2 \in Nat,
         Label2(X, a, b), Label2(Y, a2, b2)
  PROVE  LET t == JoinedText(X, Y, E)
             d == Len(X) + 1
         IN  /\ a < b /\ b < d /\ d < d + a2 /\ d + a2 < d + b2 /\ d + b2 <= d + Len(Y)
             /\ At(t, {Quote}) = {a, b, d + a2, d + b2}
             /\ \A i \in At(t, {Comma}) : \/ a < i /\ i < b
                                          \/ i = d
                                          \/ d + a2 < i /\ i < d + b2
                                          \/ i = Len(t) /\ Len(E) = 1
             /\ d \in At(t, {Comma})
             /\ Len(E) = 1 => Len(t) \in At(t, {Comma})
<1> DEFINE t == JoinedText(X, Y, E)
           d == Len(X) + 1
           e == Len(X) + 1 + Len(Y)
<1>0. /\ t \in Seq(Token) /\ DOMAIN t = 1..Len(t)
      /\ Len(X) \in Nat /\ Len(Y) \in Nat /\ Len(t) = e + Len(E)
      /\ Len(E) \in {0, 1}
  BY JoinedPlaces
<1>1. /\ \A i \in 1..Len(X) : t[i] = X[i]
      /\ t[d] = Comma
      /\ \A i \in 1..Len(Y) : t[d + i] = Y[i]
      /\ \A i \in 1..Len(E) : t[e + i] = Comma
  <2>1. \A i \in 1..Len(X) : t[i] = X[i]
    BY JoinedPlaces
  <2>2. t[d] = Comma
    BY JoinedPlaces
  <2>3. \A i \in 1..Len(Y) : t[d + i] = Y[i]
    BY JoinedPlaces
  <2>4. \A i \in 1..Len(E) : t[e + i] = Comma
    BY JoinedPlaces
  <2> QED BY <2>1, <2>2, <2>3, <2>4
<1>2. DOMAIN X = 1..Len(X) /\ DOMAIN Y = 1..Len(Y)
  OBVIOUS
<1> HIDE DEF t
<1>3. /\ a \in 1..Len(X) /\ b \in 1..Len(X) /\ a < b
      /\ a2 \in 1..Len(Y) /\ b2 \in 1..Len(Y) /\ a2 < b2
      /\ X[a] = Quote /\ X[b] = Quote /\ Y[a2] = Quote /\ Y[b2] = Quote
      /\ \A i \in 1..Len(X) : X[i] = Quote => i \in {a, b}
      /\ \A i \in 1..Len(Y) : Y[i] = Quote => i \in {a2, b2}
      /\ \A i \in 1..Len(X) : X[i] = Comma => a < i /\ i < b
      /\ \A i \in 1..Len(Y) : Y[i] = Comma => a2 < i /\ i < b2
  BY <1>2 DEF Label2, At
<1>4. /\ d \in Nat /\ e \in Nat /\ e = d + Len(Y) /\ d = Len(X) + 1
      /\ Len(t) \in Nat /\ (Len(t) = e \/ (Len(t) = e + 1 /\ Len(E) = 1))
      /\ Len(X) \in Nat /\ Len(Y) \in Nat
  <2>1. Len(X) \in Nat /\ Len(Y) \in Nat
    BY <1>0
  <2>2. d \in Nat /\ e \in Nat /\ e = d + Len(Y)
    BY <2>1
  <2> DEFINE n == Len(E)
             l == Len(t)
  <2>3. n = 0 \/ n = 1
    BY <1>0
  <2>4. l = e + n
    BY <1>0
  <2> HIDE DEF d, e, n, l
  <2>5. l = e \/ (l = e + 1 /\ n = 1)
    BY <2>2, <2>3, <2>4
  <2>6. l \in Nat
    BY <2>2, <2>5
  <2> QED BY <2>1, <2>2, <2>5, <2>6 DEF d, l, n
<1>41. t[d] = Comma
  BY <1>1
<1>5. \A i \in 1..Len(t) : \/ i \in 1..Len(X)
                           \/ i = d
                           \/ i - d \in 1..Len(Y) /\ d + (i - d) = i
                           \/ i = Len(t) /\ Len(E) = 1 /\ i = e + 1
  <2> HIDE DEF d, e
  <2> QED BY <1>4, SMTT(40)
<1>6. Len(E) = 1 => t[e + 1] = Comma /\ Len(t) = e + 1
  BY <1>0, <1>1
<1> HIDE DEF d, e
<1>7. d + a2 \in 1..Len(t) /\ d + b2 \in 1..Len(t) /\ a \in 1..Len(t) /\ b \in 1..Len(t)
      /\ d \in 1..Len(t)
  BY <1>0, <1>1, <1>3, <1>4, SMTT(40)
<1>8. t[a] = Quote /\ t[b] = Quote /\ t[d + a2] = Quote /\ t[d + b2] = Quote
  BY <1>0, <1>1, <1>3
<1>9. ASSUME NEW i \in 1..Len(t)
      PROVE  /\ t[i] = Quote => i \in {a, b, d + a2, d + b2}
             /\ t[i] = Comma => \/ a < i /\ i < b
                                \/ i = d
                                \/ d + a2 < i /\ i < d + b2
                                \/ i = Len(t) /\ Len(E) = 1
  <2>1. CASE i \in 1..Len(X)
    BY <1>0, <1>1, <1>3, <2>1
  <2>2. CASE i = d
    BY <1>41, <2>2, MarksDiffer
  <2>3. CASE i - d \in 1..Len(Y) /\ d + (i - d) = i
    <3> DEFINE j == i - d
    <3>1. j \in 1..Len(Y) /\ i = d + j /\ t[d + j] = Y[j]
      BY <1>0, <1>1, <2>3
    <3> HIDE DEF j
    <3>2. t[i] = Quote => j \in {a2, b2}
      BY <1>3, <3>1
    <3>3. t[i] = Comma => a2 < j /\ j < b2
      BY <1>3, <3>1
    <3>4. j \in Nat /\ d \in Nat
      BY <1>4, <3>1, SMTT(40)
    <3>5. t[i] = Quote => i \in {d + a2, d + b2}
      BY <3>1, <3>2
    <3>6. a2 < j /\ j < b2 => d + a2 < d + j /\ d + j < d + b2
      BY <3>4
    <3> QED BY <3>1, <3>3, <3>5, <3>6
  <2>4. CASE i = Len(t) /\ Len(E) = 1 /\ i = e + 1
    BY <1>6, <2>4, MarksDiffer
  <2> QED BY <1>5, <2>1, <2>2, <2>3, <2>4
<1>10. At(t, {Quote}) = {a, b, d + a2, d + b2}
  BY <1>0, <1>1, <1>7, <1>8, <1>9 DEF At
<1>11. d \in At(t, {Comma})
  BY <1>0, <1>1, <1>41, <1>7 DEF At
<1>12. Len(E) = 1 => Len(t) \in At(t, {Comma})
  BY <1>0, <1>1, <1>4, <1>6 DEF At
<1>13. \A i \in At(t, {Comma}) : \/ a < i /\ i < b
                                 \/ i = d
                                 \/ d + a2 < i /\ i < d + b2
                                 \/ i = Len(t) /\ Len(E) = 1
  BY <1>0, <1>1, <1>9 DEF At
<1>14. a < b /\ b < d /\ d < d + a2 /\ d + a2 < d + b2 /\ d + b2 <= d + Len(Y)
  BY <1>0, <1>1, <1>3, <1>4
<1> QED BY <1>10, <1>11, <1>12, <1>13, <1>14 DEF t, d

\* The comma between two labels separates them, and so does the one after them; a comma
\* inside of a value does not.
LEMMA TopLevelIs ==
  ASSUME NEW X \in Seq(Token), NEW Y \in Seq(Token), NEW E \in Ends,
         NEW a \in Nat, NEW b \in Nat, NEW a2 \in Nat, NEW b2 \in Nat,
         Label2(X, a, b), Label2(Y, a2, b2)
  PROVE  LET t == JoinedText(X, Y, E)
         IN  TopLevel(t) = {Len(X) + 1} \cup (IF E = <<>> THEN {} ELSE {Len(t)})
<1> DEFINE t == JoinedText(X, Y, E)
           d == Len(X) + 1
           p == d + a2
           q == d + b2
           before(i) == {j \in At(t, {Quote}) : j < i}
<1>1. /\ t \in Seq(Token) /\ DOMAIN t = 1..Len(t)
      /\ Len(X) \in Nat /\ Len(Y) \in Nat /\ Len(t) = Len(X) + 1 + Len(Y) + Len(E)
      /\ Len(E) \in {0, 1} /\ (E = <<>> <=> Len(E) = 0)
  BY JoinedPlaces
<1>2. /\ a < b /\ b < d /\ d < p /\ p < q /\ q <= d + Len(Y)
      /\ At(t, {Quote}) = {a, b, p, q}
      /\ \A i \in At(t, {Comma}) : \/ a < i /\ i < b
                                   \/ i = d
                                   \/ p < i /\ i < q
                                   \/ i = Len(t) /\ Len(E) = 1
      /\ d \in At(t, {Comma})
      /\ Len(E) = 1 => Len(t) \in At(t, {Comma})
  BY JoinedMarks
<1> HIDE DEF t
<1>3. /\ d \in Nat /\ p \in Nat /\ q \in Nat /\ Len(t) \in Nat
      /\ a < b /\ b < d /\ d < p /\ b < p /\ p < q
      /\ d < Len(t) /\ (Len(E) = 1 => q < Len(t))
  <2>1. a < b /\ b < d /\ d < p /\ p < q /\ q <= d + Len(Y)
    BY <1>2
  <2>2. Len(X) \in Nat /\ Len(Y) \in Nat /\ Len(t) = Len(X) + 1 + Len(Y) + Len(E)
        /\ Len(E) \in {0, 1}
    BY <1>1
  <2> DEFINE n == Len(E)
             l == Len(t)
             y == Len(Y)
  <2>3. d \in Nat /\ p \in Nat /\ q \in Nat /\ y \in Nat
    BY <2>2
  <2>4. l = d + y + n /\ (n = 0 \/ n = 1) /\ q <= d + y
    BY <2>1, <2>2
  <2> HIDE DEF d, p, q, n, l, y
  <2>5. b < p
    BY <2>1, <2>3
  <2>6. l \in Nat /\ d < l /\ (n = 1 => q < l)
    BY <2>1, <2>3, <2>4
  <2> QED BY <2>1, <2>3, <2>5, <2>6 DEF n, l
<1>31. At(t, {Comma}) \in SUBSET Nat
  BY <1>1 DEF At
<1>32. \A i : before(i) = {j \in {a, b, p, q} : j < i}
  BY <1>2
<1> HIDE DEF d, p, q, before
<1>4. /\ Cardinality({a}) = 1 /\ Cardinality({a, b}) = 2
      /\ Cardinality({a, b, p}) = 3 /\ Cardinality({a, b, p, q}) = 4
  <2>1. IsFiniteSet({a}) /\ Cardinality({a}) = 1
    BY FS_Singleton
  <2>2. {a, b} = {a} \cup {b} /\ b \notin {a}
    BY <1>3
  <2>3. IsFiniteSet({a, b}) /\ Cardinality({a, b}) = 2
    <3>1. IsFiniteSet({a} \cup {b}) /\ Cardinality({a} \cup {b}) = Cardinality({a}) + 1
      BY <2>1, <2>2, FS_AddElement
    <3>2. IsFiniteSet({a, b}) /\ Cardinality({a, b}) = Cardinality({a}) + 1
      BY <2>2, <3>1, Zenon
    <3> QED BY <2>1, <3>2
  <2>4. {a, b, p} = {a, b} \cup {p} /\ p \notin {a, b}
    BY <1>3
  <2>5. IsFiniteSet({a, b, p}) /\ Cardinality({a, b, p}) = 3
    <3>1. IsFiniteSet({a, b} \cup {p}) /\ Cardinality({a, b} \cup {p}) = Cardinality({a, b}) + 1
      BY <2>3, <2>4, FS_AddElement
    <3>2. IsFiniteSet({a, b, p}) /\ Cardinality({a, b, p}) = Cardinality({a, b}) + 1
      BY <2>4, <3>1, Zenon
    <3> QED BY <2>3, <3>2
  <2>6. {a, b, p, q} = {a, b, p} \cup {q} /\ q \notin {a, b, p}
    BY <1>3
  <2>7. IsFiniteSet({a, b, p, q}) /\ Cardinality({a, b, p, q}) = 4
    <3>1. IsFiniteSet({a, b, p} \cup {q}) /\ Cardinality({a, b, p} \cup {q}) = Cardinality({a, b, p}) + 1
      BY <2>5, <2>6, FS_AddElement
    <3>2. IsFiniteSet({a, b, p, q}) /\ Cardinality({a, b, p, q}) = Cardinality({a, b, p}) + 1
      BY <2>6, <3>1, Zenon
    <3> QED BY <2>5, <3>2
  <2> QED BY <2>1, <2>3, <2>5, <2>7
<1>5. ASSUME NEW i \in Nat
      PROVE  /\ a < i /\ i < b => Cardinality(before(i)) = 1
             /\ b < i /\ i < p => Cardinality(before(i)) = 2
             /\ p < i /\ i < q => Cardinality(before(i)) = 3
             /\ q < i => Cardinality(before(i)) = 4
  <2>1. before(i) = {j \in {a, b, p, q} : j < i}
    BY <1>32
  <2>2. a < i /\ i < b => before(i) = {a}
    BY <1>3, <2>1
  <2>3. b < i /\ i < p => before(i) = {a, b}
    BY <1>3, <2>1
  <2>4. p < i /\ i < q => before(i) = {a, b, p}
    BY <1>3, <2>1
  <2>5. q < i => before(i) = {a, b, p, q}
    BY <1>3, <2>1
  <2> QED BY <1>4, <2>2, <2>3, <2>4, <2>5
<1>9. 1 % 2 = 1 /\ 2 % 2 = 0 /\ 3 % 2 = 1 /\ 4 % 2 = 0
  OBVIOUS
<1>10. TopLevel(t) = {i \in At(t, {Comma}) : Cardinality(before(i)) % 2 = 0}
  BY DEF TopLevel, before
<1>11. d \in TopLevel(t)
  BY <1>2, <1>3, <1>5, <1>9, <1>10
<1>12. Len(E) = 1 => Len(t) \in TopLevel(t)
  BY <1>2, <1>3, <1>5, <1>9, <1>10
<1>13. \A i \in TopLevel(t) : i = d \/ (i = Len(t) /\ Len(E) = 1)
  <2> SUFFICES ASSUME NEW i \in TopLevel(t), i # d, ~(i = Len(t) /\ Len(E) = 1)
               PROVE  FALSE
    OBVIOUS
  <2>1. i \in At(t, {Comma}) /\ Cardinality(before(i)) % 2 = 0 /\ i \in Nat
    BY <1>10, <1>31
  <2>2. Cardinality(before(i)) = 1 \/ Cardinality(before(i)) = 3
    BY <1>2, <1>5, <2>1
  <2> QED BY <1>9, <2>1, <2>2
<1>14. CASE Len(E) = 0
  BY <1>1, <1>11, <1>13, <1>14 DEF t, d
<1>15. CASE Len(E) = 1
  BY <1>1, <1>11, <1>12, <1>13, <1>15 DEF t, d
<1> QED BY <1>1, <1>14, <1>15
\* Two labels are split into two pairs.
LEMMA PairsAre ==
  ASSUME NEW X \in Seq(Token), NEW Y \in Seq(Token), NEW E \in Ends,
         NEW a \in Nat, NEW b \in Nat, NEW a2 \in Nat, NEW b2 \in Nat,
         Label2(X, a, b), Label2(Y, a2, b2),
         TrimSpace(X) # <<>>, TrimSpace(Y) # <<>>
  PROVE  Pairs(JoinedText(X, Y, E)) = {TrimSpace(X), TrimSpace(Y)}
<1> DEFINE t == JoinedText(X, Y, E)
           d == Len(X) + 1
           l == Len(t)
           cuts == TopLevel(t) \cup {0, l + 1}
           after(i) == {j \in cuts : j > i}
           part(i) == TrimSpace(SubSeq(t, i + 1, Min(after(i)) - 1))
           P == TrimSpace(X)
           R == TrimSpace(Y)
           e == d + Len(Y)
<1>1. t \in Seq(Token) /\ Len(X) \in Nat /\ Len(Y) \in Nat
  BY JoinedPlaces
<1>2. l = Len(X) + 1 + Len(Y) + Len(E) /\ (E = <<>> <=> Len(E) = 0) /\ Len(E) \in {0, 1}
  BY JoinedPlaces
<1>3. SubSeq(t, 1, d - 1) = X /\ SubSeq(t, d + 1, e) = Y
  <2>1. SubSeq(t, 1, d - 1) = X
    BY JoinedPlaces
  <2>2. SubSeq(t, d + 1, e) = Y
    BY JoinedPlaces
  <2> QED BY <2>1, <2>2
<1>4. TopLevel(t) = {d} \cup (IF E = <<>> THEN {} ELSE {l})
  BY TopLevelIs
<1>5. Pairs(t) = {part(i) : i \in cuts \ {l + 1}} \ {<<>>}
  BY DEF Pairs, SplitTopLevel
<1>6. d \in Nat /\ 0 < d /\ e \in Nat /\ d <= e
  BY <1>1
<1>7. (E = <<>> /\ l = e) \/ (E # <<>> /\ l = e + 1)
  <2> DEFINE n == Len(E)
  <2>1. (E = <<>> /\ n = 0) \/ (E # <<>> /\ n = 1)
    BY <1>2
  <2>2. l = e + n
    BY <1>1, <1>2
  <2> HIDE DEF n, l, e
  <2> QED BY <1>6, <2>1, <2>2
<1> HIDE DEF t, d, l, e, P, R
<1>8. l \in Nat
  BY <1>6, <1>7
<1>9. CASE E = <<>>
  <2>1. cuts = {0, d, l + 1} /\ l = e
    BY <1>4, <1>7, <1>9
  <2>2. after(0) = {d, l + 1} /\ after(d) = {l + 1}
    BY <1>6, <1>8, <2>1
  <2>3. Min(after(0)) = d /\ Min(after(d)) = l + 1
    <3> HIDE DEF after
    <3>1. after(0) \in SUBSET Int /\ d \in after(0) /\ \A y \in after(0) : d <= y
      BY <1>6, <1>8, <2>1, <2>2
    <3>2. after(d) \in SUBSET Int /\ l + 1 \in after(d) /\ \A y \in after(d) : l + 1 <= y
      BY <1>6, <1>8, <2>1, <2>2
    <3>3. Min(after(0)) = d
      BY <3>1, MinIs
    <3>4. Min(after(d)) = l + 1
      BY <3>2, MinIs
    <3> QED BY <3>3, <3>4
  <2>4. part(0) = P
    <3> HIDE DEF after
    <3>1. Min(after(0)) - 1 = d - 1 /\ 0 + 1 = 1
      BY <2>3
    <3>2. part(0) = TrimSpace(SubSeq(t, 1, d - 1))
      BY <3>1
    <3> QED BY <1>3, <3>2 DEF P
  <2>5. part(d) = R
    <3> HIDE DEF after
    <3>1. Min(after(d)) - 1 = e
      BY <1>6, <2>1, <2>3
    <3> QED BY <1>3, <3>1 DEF R
  <2> HIDE DEF part
  <2>6. {part(i) : i \in cuts \ {l + 1}} = {P, R}
    <3>1. cuts \ {l + 1} = {0, d}
      BY <1>6, <2>1
    <3> HIDE DEF cuts
    <3> QED BY <2>4, <2>5, <3>1
  <2> QED BY <1>5, <2>6 DEF P, R, t
<1>10. CASE E # <<>>
  <2>1. cuts = {0, d, l, l + 1} /\ l = e + 1
    BY <1>4, <1>7, <1>10
  <2>2. after(0) = {d, l, l + 1} /\ after(d) = {l, l + 1} /\ after(l) = {l + 1}
    BY <1>6, <1>8, <2>1
  <2>3. Min(after(0)) = d /\ Min(after(d)) = l /\ Min(after(l)) = l + 1
    <3> HIDE DEF after
    <3>1. after(0) \in SUBSET Int /\ d \in after(0) /\ \A y \in after(0) : d <= y
      BY <1>6, <1>8, <2>1, <2>2
    <3>2. after(d) \in SUBSET Int /\ l \in after(d) /\ \A y \in after(d) : l <= y
      BY <1>6, <1>8, <2>1, <2>2
    <3>3. after(l) \in SUBSET Int /\ l + 1 \in after(l) /\ \A y \in after(l) : l + 1 <= y
      BY <1>6, <1>8, <2>1, <2>2
    <3>4. Min(after(0)) = d
      BY <3>1, MinIs
    <3>5. Min(after(d)) = l
      BY <3>2, MinIs
    <3>6. Min(after(l)) = l + 1
      BY <3>3, MinIs
    <3> QED BY <3>4, <3>5, <3>6
  <2>4. part(0) = P
    <3> HIDE DEF after
    <3>1. Min(after(0)) - 1 = d - 1 /\ 0 + 1 = 1
      BY <2>3
    <3>2. part(0) = TrimSpace(SubSeq(t, 1, d - 1))
      BY <3>1
    <3> QED BY <1>3, <3>2 DEF P
  <2>5. part(d) = R
    <3> HIDE DEF after
    <3>1. Min(after(d)) - 1 = e
      BY <1>6, <2>1, <2>3
    <3> QED BY <1>3, <3>1 DEF R
  <2>55. part(l) = <<>>
    <3> HIDE DEF after
    <3>1. Min(after(l)) - 1 = l
      BY <1>8, <2>3
    <3>2. SubSeq(t, l + 1, l) = <<>>
      BY <1>1, <1>8
    <3>3. TrimSpace(<<>>) = <<>>
      BY DEF TrimSpace
    <3> QED BY <3>1, <3>2, <3>3
  <2> HIDE DEF part
  <2>6. {part(i) : i \in cuts \ {l + 1}} = {P, R, <<>>}
    <3>1. cuts \ {l + 1} = {0, d, l}
      BY <1>6, <1>8, <2>1
    <3> HIDE DEF cuts
    <3> QED BY <2>4, <2>5, <2>55, <3>1
  <2> QED BY <1>5, <2>6 DEF P, R, t
<1> QED BY <1>9, <1>10
\* Two labels hold no closing brace.
LEMMA JoinedHasNoBrace ==
  ASSUME NEW X \in Seq(Token), NEW Y \in Seq(Token), NEW E \in Ends,
         \A i \in DOMAIN X : X[i] # RBrace, \A i \in DOMAIN Y : Y[i] # RBrace
  PROVE  LET t == JoinedText(X, Y, E)
         IN  t \in Seq(Token) /\ \A i \in DOMAIN t : t[i] # RBrace
<1> DEFINE t == JoinedText(X, Y, E)
           d == Len(X) + 1
           e == Len(X) + 1 + Len(Y)
<1>1. t \in Seq(Token) /\ DOMAIN t = 1..Len(t)
  BY JoinedPlaces
<1>2. Len(X) \in Nat /\ Len(Y) \in Nat /\ Len(t) = e + Len(E) /\ Len(E) \in {0, 1}
  BY JoinedPlaces
<1>3. \A i \in 1..Len(X) : t[i] = X[i]
  BY JoinedPlaces
<1>4. t[d] = Comma
  BY JoinedPlaces
<1>5. \A i \in 1..Len(Y) : t[d + i] = Y[i]
  BY JoinedPlaces
<1>6. \A i \in 1..Len(E) : t[e + i] = Comma
  BY JoinedPlaces
<1>7. DOMAIN X = 1..Len(X) /\ DOMAIN Y = 1..Len(Y)
  OBVIOUS
<1>8. ASSUME NEW i \in 1..Len(t)
      PROVE  \/ i \in 1..Len(X) \/ i = d
             \/ i - d \in 1..Len(Y) /\ d + (i - d) = i
             \/ 1 \in 1..Len(E) /\ i = e + 1
  <2> DEFINE x == Len(X)
             y == Len(Y)
             n == Len(E)
             l == Len(t)
  <2>1. x \in Nat /\ y \in Nat /\ l = x + 1 + y + n /\ n \in {0, 1} /\ d = x + 1 /\ e = x + 1 + y
        /\ i \in 1..l
    BY <1>2
  <2> HIDE DEF x, y, n, l, d, e
  <2>2. i \in 1..x \/ i = d \/ (i - d \in 1..y /\ d + (i - d) = i) \/ (1 \in 1..n /\ i = e + 1)
    BY <2>1
  <2> QED BY <2>2 DEF x, y, n
<1> HIDE DEF d, e, t
<1>9. ASSUME NEW i \in 1..Len(t)
      PROVE  t[i] # RBrace
  <2>1. CASE i \in 1..Len(X)
    BY <1>3, <1>7, <2>1
  <2>2. CASE i = d
    BY <1>4, <2>2, MarksDiffer
  <2>3. CASE i - d \in 1..Len(Y) /\ d + (i - d) = i
    <3> DEFINE j == i - d
    <3>1. j \in 1..Len(Y) /\ d + j = i
      BY <2>3
    <3> HIDE DEF j
    <3> QED BY <1>5, <1>7, <3>1
  <2>4. CASE 1 \in 1..Len(E) /\ i = e + 1
    BY <1>6, <2>4, MarksDiffer
  <2> QED BY <1>8, <2>1, <2>2, <2>3, <2>4
<1> QED BY <1>1, <1>9 DEF t

\* What two labels stand for.
LabelMap(k1, v1, k2, v2) ==
  [k \in {<<k1>>, <<k2>>} |-> IF k = <<k1>> THEN v1 ELSE v2]

\* Two labels are read as they were written.
LEMMA LabelsAreRead ==
  ASSUME NEW k1 \in Token, k1 \notin Mark, NEW k2 \in Token, k2 \notin Mark, k1 # k2,
         NEW v1 \in Seq(Token), \A i \in DOMAIN v1 : v1[i] \notin {RBrace, Quote},
         NEW v2 \in Seq(Token), \A i \in DOMAIN v2 : v2[i] \notin {RBrace, Quote},
         NEW style \in Style
  PROVE  LET L == RenderLabels(<< <<k1, v1>>, <<k2, v2>> >>, style)
         IN  /\ L \in Seq(Token) /\ \A i \in DOMAIN L : L[i] # RBrace
             /\ \A p \in Pairs(L) : WellFormed(p)
             /\ ParseLabels(L) = LabelMap(k1, v1, k2, v2)
<1> DEFINE X == RenderLabel(<<k1, v1>>, style)
           Y == RenderLabel(<<k2, v2>>, style)
           E == IF style.spaced THEN <<Comma>> ELSE <<>>
           P == PairText(k1, v1)
           R == PairText(k2, v2)
           K1 == <<k1>>
           K2 == <<k2>>
           L == RenderLabels(<< <<k1, v1>>, <<k2, v2>> >>, style)
<1>1. L = JoinedText(X, Y, E)
  BY DEF RenderLabels, JoinedText
<1>2. E \in Ends
  BY DEF Ends
<1>3. /\ X \in Seq(Token) /\ TrimSpace(X) = P /\ \A i \in DOMAIN X : X[i] # RBrace
      /\ \E a, b \in DOMAIN X :
                   /\ a < b /\ At(X, {Quote}) = {a, b}
                   /\ \A i \in At(X, {Comma}) : a < i /\ i < b
  BY LabelPlaces
<1>4. /\ Y \in Seq(Token) /\ TrimSpace(Y) = R /\ \A i \in DOMAIN Y : Y[i] # RBrace
      /\ \E a, b \in DOMAIN Y :
                   /\ a < b /\ At(Y, {Quote}) = {a, b}
                   /\ \A i \in At(Y, {Comma}) : a < i /\ i < b
  BY LabelPlaces
<1>5. P # <<>> /\ WellFormed(P) /\ Key(P) = K1
      /\ SubSeq(Quoted(P), 2, Len(Quoted(P)) - 1) = v1
  BY PairIsRead
<1>6. R # <<>> /\ WellFormed(R) /\ Key(R) = K2
      /\ SubSeq(Quoted(R), 2, Len(Quoted(R)) - 1) = v2
  BY PairIsRead
<1>7. K1 # K2
  BY One
<1> HIDE DEF X, Y, E, P, R, K1, K2, L
<1>8. Pairs(L) = {P, R}
  <2>1. PICK a \in Nat, b \in Nat : Label2(X, a, b)
    BY <1>3 DEF Label2
  <2>2. PICK a2 \in Nat, b2 \in Nat : Label2(Y, a2, b2)
    BY <1>4 DEF Label2
  <2>3. TrimSpace(X) # <<>> /\ TrimSpace(Y) # <<>>
    BY <1>3, <1>4, <1>5, <1>6
  <2>4. Pairs(JoinedText(X, Y, E)) = {TrimSpace(X), TrimSpace(Y)}
    BY <1>2, <1>3, <1>4, <2>1, <2>2, <2>3, PairsAre
  <2> QED BY <1>1, <1>3, <1>4, <2>4
<1>9. L \in Seq(Token) /\ \A i \in DOMAIN L : L[i] # RBrace
  BY <1>1, <1>2, <1>3, <1>4, JoinedHasNoBrace
<1>10. \A p \in Pairs(L) : WellFormed(p)
  BY <1>5, <1>6, <1>8
<1>11. ParseLabels(L) = [k \in {K1, K2} |-> IF k = K1 THEN v1 ELSE v2]
  <2> DEFINE val(k) == Quoted(CHOOSE p \in Pairs(L) : Key(p) = k)
  <2>1. {Key(p) : p \in Pairs(L)} = {K1, K2}
    BY <1>5, <1>6, <1>8
  <2>2. (CHOOSE p \in Pairs(L) : Key(p) = K1) = P
    BY <1>5, <1>6, <1>7, <1>8
  <2>3. (CHOOSE p \in Pairs(L) : Key(p) = K2) = R
    BY <1>5, <1>6, <1>7, <1>8
  <2>4. ParseLabels(L) = [k \in {K1, K2} |-> SubSeq(val(k), 2, Len(val(k)) - 1)]
    BY <2>1 DEF ParseLabels
  <2>5. val(K1) = Quoted(P) /\ val(K2) = Quoted(R)
    BY <2>2, <2>3
  <2> HIDE DEF val
  <2>6. SubSeq(val(K1), 2, Len(val(K1)) - 1) = v1 /\ SubSeq(val(K2), 2, Len(val(K2)) - 1) = v2
    BY <1>5, <1>6, <2>5
  <2> QED BY <1>7, <2>4, <2>6
<1> QED BY <1>9, <1>10, <1>11 DEF L, K1, K2, LabelMap

\* A line without labels has none.
LEMMA NoPairs ==
  Pairs(<<>>) = {} /\ ParseLabels(<<>>) = [k \in {} |-> <<>>]
<1>1. TopLevel(<<>>) = {}
  BY DEF TopLevel, At
<1>2. Len(<<>>) = 0
  OBVIOUS
<1> DEFINE cuts == TopLevel(<<>>) \cup {0, Len(<<>>) + 1}
           after(i) == {j \in cuts : j > i}
           part(i) == TrimSpace(SubSeq(<<>>, i + 1, Min(after(i)) - 1))
<1>3. cuts = {0, 1} /\ cuts \ {Len(<<>>) + 1} = {0} /\ after(0) = {1}
  BY <1>1, <1>2
<1>4. Min(after(0)) = 1
  <2> HIDE DEF after
  <2>1. after(0) \in SUBSET Int /\ 1 \in after(0) /\ \A y \in after(0) : 1 <= y
    BY <1>3
  <2> QED BY <2>1, MinIs
<1>5. part(0) = <<>>
  <2> HIDE DEF after
  <2>1. SubSeq(<<>>, 0 + 1, Min(after(0)) - 1) = <<>>
    BY <1>4
  <2>2. TrimSpace(<<>>) = <<>>
    BY DEF TrimSpace
  <2> QED BY <2>1, <2>2
<1>6. Pairs(<<>>) = {part(i) : i \in cuts \ {Len(<<>>) + 1}} \ {<<>>}
  BY DEF Pairs, SplitTopLevel
<1>7. Pairs(<<>>) = {}
  <2> HIDE DEF cuts, part
  <2> QED BY <1>3, <1>5, <1>6
<1> QED BY <1>7 DEF ParseLabels
-----------------------------------------------------------------------------
(* One line of the exporter. *)

\* The values a label may have.
Text == {v \in Seq(Token) : \A i \in DOMAIN v : v[i] \notin {RBrace, Quote}}

\* The samples an exporter writes: without labels or with two.
IsWritten(s) ==
  /\ s.name \in Token \ Mark /\ s.value \in DOMAIN Number
  /\ \/ s.labels = <<>>
     \/ \E k1, k2 \in Token \ Mark : \E v1, v2 \in Text :
           k1 # k2 /\ s.labels = << <<k1, v1>>, <<k2, v2>> >>

LEMMA EndsWith ==
  ASSUME NEW p \in Seq(Token), NEW q \in Seq(Token), Len(q) > 0
  PROVE  (p \o q)[Len(p \o q)] = q[Len(q)]
OBVIOUS

\* Its text is a name, what is in its braces if there are any, and its fields.
LEMMA TextOfSample ==
  ASSUME NEW s, IsWritten(s), NEW style \in Style
  PROVE  LET F == Fields(s.value, style)
             L == RenderLabels(s.labels, style)
         IN  \/ Render(s, style) = BracedText(s.name, L, F) \o Blank(style)
             \/ Render(s, style) = BareText(s.name, F) \o Blank(style) /\ s.labels = <<>>
<1> DEFINE N == <<s.name>>
           F == Fields(s.value, style)
           L == RenderLabels(s.labels, style)
           S == <<Space>>
<1>1. N \in Seq(Token) /\ N \o <<>> = N
  BY One DEF IsWritten
<1>2. CASE s.labels # <<>> \/ style.braces
  <2>1. Braces(s.labels, style) = <<LBrace>> \o L \o <<RBrace>>
    BY <1>2 DEF Braces
  <2> QED BY <2>1 DEF Render, BracedText
<1>3. CASE ~(s.labels # <<>> \/ style.braces)
  <2>1. Braces(s.labels, style) = <<>> /\ s.labels = <<>>
    BY <1>3 DEF Braces
  <2>2. Render(s, style) = N \o <<>> \o S \o F \o Blank(style)
    BY <2>1 DEF Render
  <2> HIDE DEF N, F, S
  <2>3. Render(s, style) = N \o S \o F \o Blank(style)
    BY <1>1, <2>2
  <2> QED BY <2>1, <2>3 DEF N, F, S, BareText
<1> QED BY <1>2, <1>3

\* The labels that are meant, as a map.
LEMMA MeantLabels ==
  ASSUME NEW k1 \in Token, NEW k2 \in Token, k1 # k2, NEW v1, NEW v2, NEW s,
         s.labels = << <<k1, v1>>, <<k2, v2>> >>
  PROVE  Meant(s).labels = LabelMap(k1, v1, k2, v2)
<1> DEFINE l == << <<k1, v1>>, <<k2, v2>> >>
           K1 == <<k1>>
           K2 == <<k2>>
<1>1. DOMAIN l = {1, 2} /\ l[1][1] = k1 /\ l[1][2] = v1 /\ l[2][1] = k2 /\ l[2][2] = v2
  OBVIOUS
<1>2. K1 # K2
  BY One
<1>3. Meant(s).labels = [k \in {<<l[i][1]>> : i \in DOMAIN l} |->
                            l[CHOOSE i \in DOMAIN l : <<l[i][1]>> = k][2]]
  BY DEF Meant
<1>4. <<l[1][1]>> = K1 /\ <<l[2][1]>> = K2
  BY <1>1
<1> HIDE DEF l, K1, K2
<1>5. {<<l[i][1]>> : i \in DOMAIN l} = {K1, K2}
  BY <1>1, <1>4
<1>6. (CHOOSE i \in DOMAIN l : <<l[i][1]>> = K1) = 1
  BY <1>1, <1>2, <1>4
<1>7. (CHOOSE i \in DOMAIN l : <<l[i][1]>> = K2) = 2
  BY <1>1, <1>2, <1>4
<1>8. Meant(s).labels = [k \in {K1, K2} |-> IF k = K1 THEN v1 ELSE v2]
  BY <1>1, <1>2, <1>3, <1>5, <1>6, <1>7
<1> QED BY <1>8 DEF LabelMap, K1, K2

\* What is in the braces, and what the parser makes of it.
LEMMA LabelsOfSample ==
  ASSUME NEW s, IsWritten(s), NEW style \in Style
  PROVE  LET L == RenderLabels(s.labels, style)
         IN  /\ L \in Seq(Token) /\ \A i \in DOMAIN L : L[i] # RBrace
             /\ \A p \in Pairs(L) : WellFormed(p)
             /\ ParseLabels(L) = Meant(s).labels
<1>1. CASE s.labels = <<>>
  <2> DEFINE L == RenderLabels(s.labels, style)
  <2>1. L = <<>>
    BY <1>1 DEF RenderLabels
  <2>2. Meant(s).labels = [k \in {} |-> <<>>]
    BY <1>1 DEF Meant
  <2>3. /\ <<>> \in Seq(Token) /\ \A i \in DOMAIN <<>> : <<>>[i] # RBrace
    OBVIOUS
  <2> HIDE DEF L
  <2> QED BY <2>1, <2>2, <2>3, NoPairs DEF L
<1>2. CASE \E k1, k2 \in Token \ Mark : \E v1, v2 \in Text :
              k1 # k2 /\ s.labels = << <<k1, v1>>, <<k2, v2>> >>
  <2>1. PICK k1 \in Token \ Mark, k2 \in Token \ Mark : \E v1, v2 \in Text :
              k1 # k2 /\ s.labels = << <<k1, v1>>, <<k2, v2>> >>
    BY <1>2
  <2>2. PICK v1 \in Text, v2 \in Text :
              k1 # k2 /\ s.labels = << <<k1, v1>>, <<k2, v2>> >>
    BY <2>1
  <2> DEFINE l == << <<k1, v1>>, <<k2, v2>> >>
             L == RenderLabels(l, style)
             K1 == <<k1>>
             K2 == <<k2>>
  <2>3. /\ L \in Seq(Token) /\ \A i \in DOMAIN L : L[i] # RBrace
        /\ \A p \in Pairs(L) : WellFormed(p)
        /\ ParseLabels(L) = LabelMap(k1, v1, k2, v2)
    <3>1. k1 \in Token /\ k1 \notin Mark /\ k2 \in Token /\ k2 \notin Mark /\ k1 # k2
      BY <2>2
    <3>2. /\ v1 \in Seq(Token) /\ \A i \in DOMAIN v1 : v1[i] \notin {RBrace, Quote}
          /\ v2 \in Seq(Token) /\ \A i \in DOMAIN v2 : v2[i] \notin {RBrace, Quote}
      BY DEF Text
    <3>3. /\ L \in Seq(Token) /\ \A i \in DOMAIN L : L[i] # RBrace
          /\ \A p \in Pairs(L) : WellFormed(p)
      BY <3>1, <3>2, LabelsAreRead
    <3>4. ParseLabels(L) = LabelMap(k1, v1, k2, v2)
      BY <3>1, <3>2, LabelsAreRead
    <3> QED BY <3>3, <3>4
  <2>4. s.labels = l
    BY <2>2
  <2>5. Meant(s).labels = LabelMap(k1, v1, k2, v2)
    BY <2>1, <2>4, <2>2, MeantLabels
  <2> HIDE DEF l
  <2> QED BY <2>3, <2>4, <2>5
<1> QED BY <1>1, <1>2 DEF IsWritten

\* A sample is read as it was written, in whatever style.
LEMMA SampleIsRead ==
  ASSUME NEW s, IsWritten(s), NEW style \in Style
  PROVE  LET line == TrimSpace(Render(s, style))
         IN  ~Skipped(line) /\ IsSample(line) /\ ParseLine(line) = Meant(s)
<1> DEFINE n == s.name
           v == s.value
           F == Fields(v, style)
           L == RenderLabels(s.labels, style)
           N == <<n>>
           V == <<v>>
           B == Blank(style)
<1>1. /\ n \in Token /\ n \notin Mark /\ v \in Token /\ v # Space /\ v \in DOMAIN Number
      /\ n \notin {Space, LBrace} /\ n # Hash
  BY NumberAssumption DEF IsWritten, Mark
<1>2. /\ F \in Seq(Token) /\ Len(F) > 0 /\ F[1] # Space /\ F[Len(F)] # Space
      /\ Before(F, Min(At(F, {Space}) \cup {Len(F) + 1})) = V
  BY <1>1, FieldsAre
<1>3. /\ L \in Seq(Token) /\ \A i \in DOMAIN L : L[i] # RBrace
      /\ \A p \in Pairs(L) : WellFormed(p)
      /\ ParseLabels(L) = Meant(s).labels
  BY LabelsOfSample
<1>4. Len(V) = 1 /\ V[1] = v
  BY <1>1, One
<1>5. Meant(s) = [name |-> N, labels |-> Meant(s).labels, value |-> Number[v]]
  BY DEF Meant
<1>6. \/ Render(s, style) = BracedText(n, L, F) \o B
      \/ Render(s, style) = BareText(n, F) \o B /\ s.labels = <<>>
  BY TextOfSample
<1>7. B = <<>> \/ B = <<Space>>
  BY BlankIs
<1>8. ASSUME NEW G \in Seq(Token), Render(s, style) = G \o B,
             Len(G) > 0, G[1] = n, G[Len(G)] # Space,
             At(G, {LBrace, Space}) # {}, Labelled(G) => Closing(G) # {},
             Before(G, NameEnd(G)) = N, LabelStr(G) = L, Rest(G) = F
      PROVE  LET line == TrimSpace(Render(s, style))
             IN  ~Skipped(line) /\ IsSample(line) /\ ParseLine(line) = Meant(s)
  <2>1. G \o <<>> = G /\ TrimSpace(G) = G /\ TrimSpace(G \o <<Space>>) = G
    BY <1>1, <1>8, TrimOfText
  <2>2. TrimSpace(Render(s, style)) = G
    BY <1>7, <1>8, <2>1
  <2>3. ~Skipped(G)
    BY <1>1, <1>8 DEF Skipped
  <2> HIDE DEF F, L, N, V, n, v
  <2>4. ValueField(G) = V
    BY <1>2, <1>8 DEF ValueField
  <2>5. IsSample(G)
    BY <1>1, <1>3, <1>4, <1>8, <2>4 DEF IsSample
  <2>6. ParseLine(G) = Meant(s)
    BY <1>3, <1>4, <1>5, <1>8, <2>4 DEF ParseLine
  <2> QED BY <2>2, <2>3, <2>5, <2>6
<1>9. CASE Render(s, style) = BracedText(n, L, F) \o B
  <2> DEFINE G == BracedText(n, L, F)
             P == N \o (<<LBrace>> \o L \o <<RBrace>>) \o <<Space>>
  <2>1. /\ At(G, {LBrace, Space}) # {}
        /\ Labelled(G) /\ Closing(G) # {}
        /\ Before(G, NameEnd(G)) = <<n>>
        /\ LabelStr(G) = L /\ Rest(G) = F
    BY <1>1, <1>2, <1>3, PartsOfLine
  <2>2. G \in Seq(Token) /\ G[1] = n /\ Len(G) \in Nat /\ Len(L) \in Nat /\ Len(L) + 3 \in 1..Len(G)
    BY <1>1, <1>2, <1>3, BracedLine
  <2>3. P \in Seq(Token)
    <3> DEFINE O == <<LBrace>>
               C == <<RBrace>>
               S == <<Space>>
    <3>1. N \in Seq(Token) /\ O \in Seq(Token) /\ C \in Seq(Token) /\ S \in Seq(Token)
      BY <1>1, MarksAreTokens, One
    <3> HIDE DEF N, O, C, S, L
    <3>2. N \o (O \o L \o C) \o S \in Seq(Token)
      BY <1>3, <3>1
    <3> QED BY <3>2 DEF O, C, S
  <2>4. G = P \o F
    BY DEF BracedText
  <2> HIDE DEF G, P, F, L
  <2>5. G[Len(G)] # Space
    BY <1>2, <2>3, <2>4, EndsWith
  <2>6. Len(G) > 0
    BY <2>2
  <2>7. Render(s, style) = G \o B
    BY <1>9 DEF G
  <2> QED BY <1>8, <2>1, <2>2, <2>5, <2>6, <2>7
<1>10. CASE Render(s, style) = BareText(n, F) \o B /\ s.labels = <<>>
  <2> DEFINE G == BareText(n, F)
             P == N \o <<Space>>
  <2>1. /\ At(G, {LBrace, Space}) # {}
        /\ ~Labelled(G)
        /\ Before(G, NameEnd(G)) = <<n>>
        /\ LabelStr(G) = <<>> /\ Rest(G) = F
    BY <1>1, <1>2, PartsOfBareLine
  <2>2. G \in Seq(Token) /\ G[1] = n /\ Len(G) \in Nat /\ Len(G) >= 2
    BY <1>1, <1>2, BareLine
  <2>3. P \in Seq(Token)
    <3> DEFINE S == <<Space>>
    <3>1. N \in Seq(Token) /\ S \in Seq(Token)
      BY <1>1, MarksAreTokens, One
    <3> HIDE DEF N, S
    <3>2. N \o S \in Seq(Token)
      BY <3>1
    <3> QED BY <3>2 DEF S
  <2>4. G = P \o F
    BY DEF BareText
  <2>5. L = <<>>
    BY <1>10 DEF RenderLabels
  <2> HIDE DEF G, P, F, L
  <2>6. G[Len(G)] # Space
    BY <1>2, <2>3, <2>4, EndsWith
  <2>7. Len(G) > 0
    BY <2>2
  <2>8. Render(s, style) = G \o B
    BY <1>10 DEF G
  <2> QED BY <1>8, <2>1, <2>2, <2>5, <2>6, <2>7, <2>8
<1> QED BY <1>6, <1>9, <1>10
-----------------------------------------------------------------------------
(* What an exporter writes. *)

Core == [id : Values, seconds : [ToSet(Mode) -> DOMAIN Number]]
Filesystem == [device : Values, mount : Values, size : DOMAIN Number, avail : DOMAIN Number]
Family == [name : Plain, value : DOMAIN Number]

Pair(k1, v1, k2, v2) == << <<k1, v1>>, <<k2, v2>> >>

Sample == {s \in [name : Token \ Mark,
                  labels : {<<>>} \cup {Pair(l[1], l[2], l[3], l[4]) :
                                           l \in (Token \ Mark) \X Text \X (Token \ Mark) \X Text},
                  value : DOMAIN Number] : IsWritten(s)}

\* The measures of a machine, and of none.
LEMMA FactsAre ==
  ASSUME NEW f \in Machines \cup {NoFacts}
  PROVE  /\ f.cpu \in Seq(Core) /\ f.fs \in Seq(Filesystem) /\ f.plain \in Seq(Family)
         /\ \A i, j \in DOMAIN f.cpu : f.cpu[i].id = f.cpu[j].id => i = j
         /\ \A i, j \in DOMAIN f.plain : f.plain[i].name = f.plain[j].name => i = j
<1>1. CASE f \in Machines
  <2>1. f \in [cpu : Seq(Core), fs : Seq(Filesystem), plain : Seq(Family)]
    BY <1>1, MachineAssumption DEF Core, Filesystem, Family
  <2>2. /\ \A i, j \in DOMAIN f.cpu : f.cpu[i].id = f.cpu[j].id => i = j
        /\ \A i, j \in DOMAIN f.plain : f.plain[i].name = f.plain[j].name => i = j
    BY <1>1, MachineAssumption
  <2> QED BY <2>1, <2>2
<1>2. CASE f = NoFacts
  <2>1. f.cpu = <<>> /\ f.fs = <<>> /\ f.plain = <<>>
    BY <1>2 DEF NoFacts
  <2> QED BY <2>1
<1> QED BY <1>1, <1>2

\* Label values are texts.
LEMMA ValuesAreTexts ==
  /\ \A v \in Values : v \in Text
  /\ \A w \in Word : <<w>> \in Text
<1>1. ASSUME NEW v \in Values
      PROVE  v \in Text
  <2>1. v \in Seq(Token) /\ ToSet(v) \cap {RBrace, Quote} = {}
    BY ValueAssumption
  <2>2. \A i \in DOMAIN v : v[i] \in ToSet(v)
    BY DEF ToSet
  <2> QED BY <2>1, <2>2 DEF Text
<1>2. ASSUME NEW w \in Word
      PROVE  <<w>> \in Text
  <2>1. w \in Token /\ w \notin {RBrace, Quote}
    BY WordsAreTokens, WordsAreNoMarks DEF Mark
  <2>2. <<w>> \in Seq(Token) /\ DOMAIN <<w>> = {1} /\ <<w>>[1] = w
    BY <2>1
  <2> QED BY <2>1, <2>2 DEF Text
<1> QED BY <1>1, <1>2

\* A sample with two labels and one with none are samples.
LEMMA WrittenWithLabels ==
  ASSUME NEW n \in Word, NEW k1 \in Word, NEW v1 \in Text, NEW k2 \in Word, NEW v2 \in Text,
         k1 # k2, NEW v \in DOMAIN Number
  PROVE  Written(n, << <<k1, v1>>, <<k2, v2>> >>, v) \in Sample
<1> DEFINE s == Written(n, Pair(k1, v1, k2, v2), v)
           l == <<k1, v1, k2, v2>>
           A == Token \ Mark
           ls == {Pair(m[1], m[2], m[3], m[4]) : m \in A \X Text \X A \X Text}
<1>1. n \in A /\ k1 \in A /\ k2 \in A
  BY WordsAreTokens, WordsAreNoMarks
<1>2. Pair(k1, v1, k2, v2) \in ls
  <2>1. l \in A \X Text \X A \X Text
    BY <1>1
  <2>2. l[1] = k1 /\ l[2] = v1 /\ l[3] = k2 /\ l[4] = v2
    OBVIOUS
  <2> HIDE DEF l
  <2> QED BY <2>1, <2>2
<1>3. IsWritten(s)
  <2>1. s.name = n /\ s.value = v /\ s.labels = Pair(k1, v1, k2, v2)
    BY DEF Written
  <2> QED BY <1>1, <2>1 DEF IsWritten, Pair
<1>4. s \in [name : Token \ Mark, labels : {<<>>} \cup ls, value : DOMAIN Number]
  <2> HIDE DEF ls
  <2> QED BY <1>1, <1>2 DEF Written
<1>5. s \in Sample
  BY <1>3, <1>4 DEF Sample
<1> QED BY <1>5 DEF Pair

LEMMA WrittenBare ==
  ASSUME NEW n \in Word, NEW v \in DOMAIN Number
  PROVE  Written(n, <<>>, v) \in Sample
<1> DEFINE s == Written(n, <<>>, v)
<1>1. n \in Token \ Mark
  BY WordsAreTokens, WordsAreNoMarks
<1>2. IsWritten(s)
  BY <1>1 DEF IsWritten, Written
<1> QED BY <1>1, <1>2 DEF Sample, Written

\* The words of the format are words.
LEMMA WordsAre ==
  /\ {"node_cpu_seconds_total", "cpu", "mode",
      "node_filesystem_avail_bytes", "node_filesystem_size_bytes",
      "device", "mountpoint"} \subseteq Word
  /\ Plain \subseteq Word /\ ToSet(Mode) \subseteq Word /\ Slash \in Word
BY DEF Word

\* The core and the mode of the k-th sample of the processors.
LEMMA CoreAndMode ==
  ASSUME NEW n \in Nat, NEW k \in 1..(n * 3)
  PROVE  (k - 1) \div 3 + 1 \in 1..n /\ ((k - 1) % 3) + 1 \in 1..3
OBVIOUS

\* Each family is a sequence of samples, and so is the whole answer.
LEMMA CpuSamplesAre ==
  ASSUME NEW f \in Machines \cup {NoFacts}
  PROVE  CpuSamples(f) \in Seq(Sample)
<1> DEFINE n == Len(f.cpu)
           core(k) == f.cpu[(k - 1) \div Len(Mode) + 1]
           mode(k) == Mode[((k - 1) % Len(Mode)) + 1]
           e(k) == Written("node_cpu_seconds_total",
                      << <<"cpu", core(k).id>>, <<"mode", <<mode(k)>>>> >>,
                      core(k).seconds[mode(k)])
<1>1. f.cpu \in Seq(Core) /\ n \in Nat
  BY FactsAre
<1>2. ASSUME NEW k \in 1..(n * 3)
      PROVE  e(k) \in Sample
  <2>1. (k - 1) \div 3 + 1 \in 1..n /\ ((k - 1) % 3) + 1 \in 1..3
    BY <1>1, CoreAndMode
  <2>2. core(k) \in Core
    BY <1>1, <2>1, ModesAre
  <2>3. mode(k) \in ToSet(Mode)
    <3>1. DOMAIN Mode = 1..3
      BY DEF Mode
    <3> QED BY <2>1, <3>1, ModesAre DEF ToSet
  <2> HIDE DEF core, mode
  <2>4. core(k).id \in Text /\ <<mode(k)>> \in Text
    BY <2>2, <2>3, ValuesAreTexts, WordsAre DEF Core
  <2>5. core(k).seconds[mode(k)] \in DOMAIN Number
    BY <2>2, <2>3 DEF Core
  <2> QED BY <2>4, <2>5, WordsAre, WrittenWithLabels
<1>3. CpuSamples(f) = [k \in 1..(n * 3) |-> e(k)]
  BY ModesAre DEF CpuSamples
<1> HIDE DEF n, e
<1>4. n * 3 \in Nat
  BY <1>1
<1> QED BY <1>2, <1>3, <1>4

LEMMA FsSamplesAre ==
  ASSUME NEW f \in Machines \cup {NoFacts}, NEW field \in {"avail", "size"},
         NEW name \in {"node_filesystem_avail_bytes", "node_filesystem_size_bytes"}
  PROVE  FsSamples(f, name, field) \in Seq(Sample)
<1> DEFINE n == Len(f.fs)
           e(i) == Written(name,
                      << <<"device", f.fs[i].device>>, <<"mountpoint", f.fs[i].mount>> >>,
                      f.fs[i][field])
<1>1. f.fs \in Seq(Filesystem) /\ n \in Nat /\ DOMAIN f.fs = 1..n
  BY FactsAre
<1>2. ASSUME NEW i \in 1..n
      PROVE  e(i) \in Sample
  <2>1. f.fs[i] \in Filesystem
    BY <1>1
  <2>2. f.fs[i].device \in Text /\ f.fs[i].mount \in Text /\ f.fs[i][field] \in DOMAIN Number
    BY <2>1, ValuesAreTexts DEF Filesystem
  <2> QED BY <2>2, WordsAre, WrittenWithLabels
<1>3. FsSamples(f, name, field) = [i \in 1..n |-> e(i)]
  BY <1>1 DEF FsSamples
<1> HIDE DEF n, e
<1> QED BY <1>1, <1>2, <1>3

LEMMA PlainSamplesAre ==
  ASSUME NEW f \in Machines \cup {NoFacts}
  PROVE  PlainSamples(f) \in Seq(Sample)
<1> DEFINE n == Len(f.plain)
           e(i) == Written(f.plain[i].name, <<>>, f.plain[i].value)
<1>1. f.plain \in Seq(Family) /\ n \in Nat /\ DOMAIN f.plain = 1..n
  BY FactsAre
<1>2. ASSUME NEW i \in 1..n
      PROVE  e(i) \in Sample
  <2>1. f.plain[i].name \in Word /\ f.plain[i].value \in DOMAIN Number
    <3>1. f.plain[i] \in Family
      BY <1>1
    <3> QED BY <3>1, WordsAre DEF Family
  <2> QED BY <2>1, WrittenBare
<1>3. PlainSamples(f) = [i \in 1..n |-> e(i)]
  BY <1>1 DEF PlainSamples
<1> HIDE DEF n, e
<1> QED BY <1>1, <1>2, <1>3

LEMMA ExportedIsWritten ==
  ASSUME NEW f \in Machines \cup {NoFacts}
  PROVE  /\ Exported(f) \in Seq(Sample)
         /\ \A i \in 1..Len(Exported(f)) : IsWritten(Exported(f)[i])
<1> DEFINE c == CpuSamples(f)
           a == FsSamples(f, "node_filesystem_avail_bytes", "avail")
           z == FsSamples(f, "node_filesystem_size_bytes", "size")
           p == PlainSamples(f)
<1>1. c \in Seq(Sample) /\ a \in Seq(Sample) /\ z \in Seq(Sample) /\ p \in Seq(Sample)
  BY CpuSamplesAre, FsSamplesAre, PlainSamplesAre
<1>2. Exported(f) = c \o a \o z \o p
  BY DEF Exported
<1> HIDE DEF c, a, z, p
<1>3. Exported(f) \in Seq(Sample)
  BY <1>1, <1>2
<1>4. \A s \in Sample : IsWritten(s)
  BY DEF Sample
<1> QED BY <1>3, <1>4
-----------------------------------------------------------------------------
(* First and last places. *)

\* A set of naturals has a least member, and a bounded one a greatest.
LEMMA Least ==
  ASSUME NEW S \in SUBSET Nat, S # {}
  PROVE  \E n \in S : \A m \in S : n <= m
<1>1. PICK n \in S : \A m \in S : ~(<<m, n>> \in OpToRel(<, Nat))
  BY NatLessThanWellFounded, WFMin
<1>2. \A m \in S : ~(m < n)
  BY <1>1 DEF OpToRel
<1> QED BY <1>2

LEMMA MinOf ==
  ASSUME NEW S \in SUBSET Nat, S # {}
  PROVE  Min(S) \in S /\ \A m \in S : Min(S) <= m
BY Least DEF Min

LEMMA MaxOf ==
  ASSUME NEW n \in Nat, NEW S \in SUBSET (0..n), S # {}
  PROVE  Max(S) \in S /\ \A m \in S : Max(S) >= m
<1> DEFINE R == {n - m : m \in S}
<1>1. R \in SUBSET Nat /\ R # {}
  <2>1. \A m \in S : n - m \in Nat
    OBVIOUS
  <2> QED BY <2>1
<1>2. PICK r \in R : \A m \in R : r <= m
  BY <1>1, Least
<1>3. PICK x \in S : r = n - x
  BY <1>2
<1>4. \A m \in S : x >= m
  BY <1>2, <1>3
<1> QED BY <1>4 DEF Max

\* A text that stands in another one.
Within(p, s) ==
  /\ p \in Seq(Token) /\ s \in Seq(Token)
  /\ \E c \in Nat : c + Len(p) <= Len(s) /\ \A i \in 1..Len(p) : p[i] = s[c + i]

\* A part of a part is a part.
LEMMA WithinTwice ==
  ASSUME NEW p, NEW s, NEW t, Within(p, s), Within(s, t)
  PROVE  Within(p, t)
<1>1. p \in Seq(Token) /\ s \in Seq(Token) /\ t \in Seq(Token)
  BY DEF Within
<1>2. PICK c \in Nat : c + Len(p) <= Len(s) /\ \A i \in 1..Len(p) : p[i] = s[c + i]
  BY DEF Within
<1>3. PICK d \in Nat : d + Len(s) <= Len(t) /\ \A i \in 1..Len(s) : s[i] = t[d + i]
  BY DEF Within
<1>4. Len(p) \in Nat /\ Len(s) \in Nat /\ Len(t) \in Nat
  BY <1>1
<1>5. (d + c) \in Nat /\ (d + c) + Len(p) <= Len(t)
  BY <1>2, <1>3, <1>4
<1>6. ASSUME NEW i \in 1..Len(p)
      PROVE  p[i] = t[(d + c) + i]
  <2>1. c + i \in 1..Len(s) /\ d + (c + i) = (d + c) + i
    BY <1>2, <1>4
  <2> QED BY <1>2, <1>3, <2>1
<1> QED BY <1>1, <1>5, <1>6 DEF Within

LEMMA WithinSub ==
  ASSUME NEW s \in Seq(Token), NEW a \in Nat, a >= 1, NEW b \in Int, b <= Len(s)
  PROVE  Within(SubSeq(s, a, b), s)
<1> DEFINE p == SubSeq(s, a, b)
<1>1. CASE a <= b
  <2>1. p \in Seq(Token) /\ Len(p) = b - a + 1 /\ \A i \in 1..Len(p) : p[i] = s[(a - 1) + i]
    BY <1>1
  <2> DEFINE c == a - 1
  <2>2. c \in Nat /\ c + Len(p) <= Len(s) /\ \A i \in 1..Len(p) : p[i] = s[c + i]
    BY <1>1, <2>1
  <2> HIDE DEF p, c
  <2>3. Within(p, s)
    BY <2>1, <2>2 DEF Within
  <2> QED BY <2>3 DEF p
<1>2. CASE ~(a <= b)
  <2>1. p = <<>>
    BY <1>2
  <2>2. p \in Seq(Token) /\ Len(p) = 0
    BY <2>1
  <2> DEFINE c == 0
  <2> HIDE DEF p
  <2>3. c \in Nat /\ c + Len(p) <= Len(s) /\ \A i \in 1..Len(p) : p[i] = s[c + i]
    BY <2>2
  <2> HIDE DEF c
  <2>4. Within(p, s)
    BY <2>2, <2>3 DEF Within
  <2> QED BY <2>4 DEF p
<1> QED BY <1>1, <1>2

\* What is left of a text without the spaces around it.
LEMMA TrimIsPart ==
  ASSUME NEW s \in Seq(Token), \E i \in DOMAIN s : s[i] # Space
  PROVE  \E a, b \in DOMAIN s :
            /\ a <= b /\ TrimSpace(s) = SubSeq(s, a, b)
            /\ s[a] # Space /\ s[b] # Space
            /\ \A j \in DOMAIN s : s[j] # Space => a <= j /\ j <= b
<1> DEFINE words == {i \in DOMAIN s : s[i] # Space}
<1>1. DOMAIN s = 1..Len(s) /\ Len(s) \in Nat
  OBVIOUS
<1>2. words # {} /\ words \in SUBSET Nat /\ words \in SUBSET (0..Len(s))
  BY <1>1
<1>3. /\ Min(words) \in words /\ \A m \in words : Min(words) <= m
      /\ Max(words) \in words /\ \A m \in words : Max(words) >= m
  <2> HIDE DEF words
  <2> QED BY <1>1, <1>2, MinOf, MaxOf
<1>4. TrimSpace(s) = SubSeq(s, Min(words), Max(words))
  BY <1>2 DEF TrimSpace
<1> DEFINE a == Min(words)
           b == Max(words)
<1>5. a \in DOMAIN s /\ b \in DOMAIN s /\ s[a] # Space /\ s[b] # Space
  BY <1>3
<1>6. a <= b
  BY <1>1, <1>3
<1>7. \A j \in DOMAIN s : s[j] # Space => a <= j /\ j <= b
  <2> SUFFICES ASSUME NEW j \in DOMAIN s, s[j] # Space
               PROVE  a <= j /\ j <= b
    OBVIOUS
  <2>1. j \in words
    OBVIOUS
  <2> HIDE DEF words
  <2>2. a <= j /\ b >= j
    BY <1>3, <2>1
  <2> QED BY <1>1, <1>5, <2>2
<1> HIDE DEF words
<1> QED BY <1>4, <1>5, <1>6, <1>7

LEMMA TrimWithin ==
  ASSUME NEW s \in Seq(Token)
  PROVE  Within(TrimSpace(s), s)
<1>1. CASE \E i \in DOMAIN s : s[i] # Space
  <2>1. PICK a \in DOMAIN s, b \in DOMAIN s : TrimSpace(s) = SubSeq(s, a, b)
    BY <1>1, TrimIsPart
  <2>2. a \in Nat /\ a >= 1 /\ b \in Int /\ b <= Len(s)
    OBVIOUS
  <2> QED BY <2>1, <2>2, WithinSub
<1>2. CASE ~\E i \in DOMAIN s : s[i] # Space
  <2>1. TrimSpace(s) = <<>>
    BY <1>2, TrimBlank DEF Spaces
  <2>2. <<>> = SubSeq(s, 1, 0)
    OBVIOUS
  <2>3. Within(SubSeq(s, 1, 0), s)
    <3>1. 1 \in Nat /\ 1 >= 1 /\ 0 \in Int /\ 0 <= Len(s)
      OBVIOUS
    <3> QED BY <3>1, WithinSub
  <2> QED BY <2>1, <2>2, <2>3
<1> QED BY <1>1, <1>2

\* The first character of a line that is not blank.
LEMMA TrimBegins ==
  ASSUME NEW s \in Seq(Token), NEW i, Begins(s, i)
  PROVE  TrimSpace(s) \in Seq(Token) /\ TrimSpace(s) # <<>> /\ TrimSpace(s)[1] = s[i]
<1>1. i \in DOMAIN s /\ s[i] # Space /\ \A j \in 1..(i - 1) : s[j] = Space
  BY DEF Begins
<1>2. PICK a \in DOMAIN s, b \in DOMAIN s :
            /\ a <= b /\ TrimSpace(s) = SubSeq(s, a, b) /\ s[a] # Space
            /\ \A j \in DOMAIN s : s[j] # Space => a <= j /\ j <= b
  BY <1>1, TrimIsPart
<1>3. DOMAIN s = 1..Len(s)
  OBVIOUS
<1>4. a = i
  <2>1. a <= i /\ a \in Nat /\ i \in Nat /\ a >= 1
    BY <1>1, <1>2, <1>3
  <2>2. ~(a < i)
    BY <1>1, <1>2, <2>1
  <2> QED BY <2>1, <2>2
<1>5. SubSeq(s, a, b) \in Seq(Token) /\ Len(SubSeq(s, a, b)) = b - a + 1 /\ SubSeq(s, a, b)[1] = s[a]
  BY <1>2
<1>6. b - a + 1 > 0
  BY <1>2, <1>3
<1> QED BY <1>2, <1>4, <1>5, <1>6, SMTT(40)

\* A comment is passed over.
LEMMA CommentIsSkipped ==
  ASSUME NEW line \in Comments
  PROVE  Skipped(TrimSpace(line))
<1>1. line \in Seq(Token) /\ \A i \in DOMAIN line : Begins(line, i) => line[i] = Hash
  BY CommentsAssumption
<1>2. CASE \E i \in DOMAIN line : line[i] # Space
  <2>1. PICK a \in DOMAIN line, b \in DOMAIN line :
              /\ line[a] # Space
              /\ \A j \in DOMAIN line : line[j] # Space => a <= j /\ j <= b
    BY <1>1, <1>2, TrimIsPart
  <2>2. DOMAIN line = 1..Len(line)
    BY <1>1
  <2>3. Begins(line, a)
    BY <2>1, <2>2 DEF Begins
  <2> QED BY <1>1, <2>3, TrimBegins DEF Skipped
<1>3. CASE ~\E i \in DOMAIN line : line[i] # Space
  <2>1. TrimSpace(line) = <<>>
    BY <1>1, <1>3, TrimBlank DEF Spaces
  <2> QED BY <2>1 DEF Skipped
<1> QED BY <1>2, <1>3
-----------------------------------------------------------------------------
(* Damaged lines. *)

\* The value of a sample is one of the tokens of its line.
LEMMA SampleHasNumber ==
  ASSUME NEW t \in Seq(Token), IsSample(t)
  PROVE  \E i \in DOMAIN t : t[i] \in DOMAIN Number
<1> DEFINE n == NameEnd(t)
           from == IF Labelled(t) THEN Close(t) + 1 ELSE n
           R == Rest(t)
           ends == At(R, {Space}) \cup {Len(R) + 1}
           F == ValueField(t)
<1>1. /\ At(t, {LBrace, Space}) # {} /\ (Labelled(t) => Closing(t) # {})
      /\ Len(F) = 1 /\ F[1] \in DOMAIN Number
  BY DEF IsSample
<1>2. DOMAIN t = 1..Len(t) /\ Len(t) \in Nat
  OBVIOUS
<1>3. n \in DOMAIN t
  <2> DEFINE marks == At(t, {LBrace, Space})
  <2>1. marks \in SUBSET Nat /\ marks \in SUBSET DOMAIN t /\ marks # {}
    BY <1>1, <1>2 DEF At
  <2> HIDE DEF marks
  <2>2. Min(marks) \in marks
    BY <2>1, MinOf
  <2> QED BY <2>1, <2>2 DEF marks, NameEnd
<1>4. Labelled(t) => Close(t) \in DOMAIN t
  <2> SUFFICES ASSUME Labelled(t)
               PROVE  Close(t) \in DOMAIN t
    OBVIOUS
  <2>1. Closing(t) \in SUBSET Nat /\ Closing(t) \in SUBSET DOMAIN t /\ Closing(t) # {}
    BY <1>1, <1>2 DEF Closing, At
  <2>2. Min(Closing(t)) \in Closing(t)
    BY <2>1, MinOf
  <2> QED BY <2>1, <2>2 DEF Close
<1>5. from \in Nat /\ from >= 1
  BY <1>2, <1>3, <1>4
<1> HIDE DEF n
<1>6. R = TrimSpace(SubSeq(t, from, Len(t)))
  BY DEF Rest, From, n
<1> HIDE DEF from
<1>7. Within(R, t)
  <2> DEFINE z == SubSeq(t, from, Len(t))
  <2>1. Within(z, t)
    BY <1>2, <1>5, WithinSub
  <2>2. z \in Seq(Token)
    BY <2>1 DEF Within
  <2> HIDE DEF z
  <2>3. Within(TrimSpace(z), z)
    BY <2>2, TrimWithin
  <2>4. Within(TrimSpace(z), t)
    BY <2>1, <2>3, WithinTwice
  <2> QED BY <1>6, <2>4 DEF z
<1>8. R \in Seq(Token)
  BY <1>7 DEF Within
<1> HIDE DEF R
<1>9. Within(F, R)
  <2>1. DOMAIN R = 1..Len(R) /\ Len(R) \in Nat
    BY <1>8
  <2>2. ends \in SUBSET Nat /\ ends # {} /\ \A m \in ends : 1 <= m /\ m <= Len(R) + 1
    BY <2>1 DEF At
  <2>3. F = SubSeq(R, 1, Min(ends) - 1)
    BY DEF ValueField, Before, R
  <2> HIDE DEF ends, F
  <2>4. Min(ends) \in ends
    BY <2>2, MinOf
  <2>5. Min(ends) - 1 \in Int /\ Min(ends) - 1 <= Len(R)
    <3> DEFINE m == Min(ends)
               l == Len(R)
    <3>1. m \in Nat /\ m <= l + 1 /\ l \in Nat
      BY <2>1, <2>2, <2>4
    <3> HIDE DEF m, l
    <3>2. m - 1 \in Int /\ m - 1 <= l
      BY <3>1
    <3> QED BY <3>2 DEF m, l
  <2>6. 1 \in Nat /\ 1 >= 1
    OBVIOUS
  <2> QED BY <1>8, <2>3, <2>5, <2>6, WithinSub
<1> HIDE DEF F
<1>10. Within(F, t)
  BY <1>7, <1>9, WithinTwice
<1>11. PICK c \in Nat : c + Len(F) <= Len(t) /\ \A i \in 1..Len(F) : F[i] = t[c + i]
  BY <1>10 DEF Within
<1>12. c + 1 \in DOMAIN t /\ F[1] = t[c + 1]
  BY <1>1, <1>2, <1>11
<1> QED BY <1>1, <1>12

\* Each kind of damage is refused: a line without a number,
LEMMA NoNumberIsRefused ==
  ASSUME NEW line \in Seq(Token), NoNumber(line)
  PROVE  ~IsSample(TrimSpace(line))
<1> DEFINE t == TrimSpace(line)
<1> SUFFICES ASSUME IsSample(t)
             PROVE  FALSE
  OBVIOUS
<1>1. Within(t, line)
  BY TrimWithin
<1> HIDE DEF t
<1>2. t \in Seq(Token)
  BY <1>1 DEF Within
<1>3. PICK i \in DOMAIN t : t[i] \in DOMAIN Number
  BY <1>2, SampleHasNumber
<1>4. PICK c \in Nat : c + Len(t) <= Len(line) /\ \A j \in 1..Len(t) : t[j] = line[c + j]
  BY <1>1 DEF Within
<1>5. DOMAIN t = 1..Len(t) /\ DOMAIN line = 1..Len(line) /\ Len(t) \in Nat /\ Len(line) \in Nat
  BY <1>2
<1>6. c + i \in DOMAIN line /\ line[c + i] = t[i]
  BY <1>4, <1>5
<1>7. line[c + i] \in ToSet(line)
  BY <1>6 DEF ToSet
<1> QED BY <1>3, <1>6, <1>7 DEF NoNumber

\* A line that has a brace right after its name, without the spaces at its end.
LEMMA LabelledLine ==
  ASSUME NEW line \in Seq(Token), NEW i \in DOMAIN line, LabelsFrom(line, i)
  PROVE  \E b \in DOMAIN line :
            LET t == TrimSpace(line)
            IN  /\ t \in Seq(Token) /\ Len(t) = b /\ DOMAIN t = 1..b
                /\ \A j \in 1..b : t[j] = line[j]
                /\ t = SubSeq(line, 1, b)
                /\ \A j \in DOMAIN line : line[j] # Space => j <= b
                /\ i <= b /\ NameEnd(t) = i /\ Labelled(t)
<1>1. /\ DOMAIN line = 1..Len(line) /\ line[i] = LBrace /\ i \in 1..Len(line)
      /\ \A j \in 1..(i - 1) : line[j] \notin {LBrace, Space}
  BY DEF LabelsFrom
<1>2. PICK a \in DOMAIN line, b \in DOMAIN line :
            /\ a <= b /\ TrimSpace(line) = SubSeq(line, a, b) /\ line[a] # Space
            /\ \A j \in DOMAIN line : line[j] # Space => a <= j /\ j <= b
  BY <1>1, TrimIsPart, MarksDiffer
<1>3. a = 1
  <2>1. 1 \in DOMAIN line /\ line[1] # Space
    BY <1>1, MarksDiffer
  <2>2. a <= 1
    BY <1>2, <2>1
  <2> QED BY <1>1, <2>2
<1>4. i <= b
  BY <1>1, <1>2, MarksDiffer
<1> DEFINE t == SubSeq(line, 1, b)
<1>5. /\ t \in Seq(Token) /\ Len(t) = b /\ DOMAIN t = 1..b
      /\ \A j \in 1..b : t[j] = line[j]
  BY <1>1, <1>2
<1> HIDE DEF t
<1>6. NameEnd(t) = i
  <2> DEFINE marks == At(t, {LBrace, Space})
  <2>1. \A j \in 1..b : j < i => t[j] \notin {LBrace, Space}
    BY <1>1, <1>5
  <2>2. i \in 1..b /\ t[i] = LBrace
    BY <1>1, <1>4, <1>5
  <2>3. marks \in SUBSET Int /\ i \in marks /\ \A j \in marks : i <= j
    BY <1>5, <2>1, <2>2 DEF At
  <2> HIDE DEF marks
  <2> QED BY <2>3, MinIs DEF NameEnd, marks
<1>7. Labelled(t)
  BY <1>1, <1>4, <1>5, <1>6 DEF Labelled
<1>8. TrimSpace(line) = t
  BY <1>2, <1>3 DEF t
<1> QED BY <1>2, <1>4, <1>5, <1>6, <1>7, <1>8 DEF t

\* one whose labels have no end,
LEMMA NotClosedIsRefused ==
  ASSUME NEW line \in Seq(Token), NEW i \in DOMAIN line, LabelsFrom(line, i), NotClosed(line, i)
  PROVE  ~IsSample(TrimSpace(line))
<1> DEFINE t == TrimSpace(line)
<1>1. PICK b \in DOMAIN line :
            /\ t \in Seq(Token) /\ Len(t) = b /\ DOMAIN t = 1..b
            /\ \A j \in 1..b : t[j] = line[j]
            /\ i <= b /\ NameEnd(t) = i /\ Labelled(t)
  BY LabelledLine
<1>2. DOMAIN line = 1..Len(line)
  OBVIOUS
<1> HIDE DEF t
<1>3. ASSUME Closing(t) # {}
      PROVE  FALSE
  <2>1. Closing(t) \in SUBSET Nat /\ \A k \in Closing(t) : k \in 1..b /\ k > i /\ t[k] = RBrace
    BY <1>1 DEF Closing, At
  <2>2. PICK k \in Closing(t) : \A m \in Closing(t) : k <= m
    BY <1>3, <2>1, Least
  <2>3. k \in (i + 1)..Len(line) /\ line[k] = RBrace /\ k \in DOMAIN line
    BY <1>1, <1>2, <2>1, <2>2
  <2>4. ASSUME NEW j \in (i + 1)..(k - 1)
        PROVE  line[j] # RBrace
    <3>1. j \in 1..b /\ j > i /\ ~(k <= j) /\ t[j] = line[j]
      BY <1>1, <1>2, <2>1
    <3>2. j \notin Closing(t)
      BY <2>2, <3>1
    <3> QED BY <1>1, <3>1, <3>2 DEF Closing, At
  <2>5. LabelsEnd(line, i, k)
    BY <2>3, <2>4 DEF LabelsEnd
  <2> QED BY <2>3, <2>5 DEF NotClosed
<1> QED BY <1>1, <1>3 DEF IsSample, t

\* Where the labels of a line end.
LEMMA ClosedLine ==
  ASSUME NEW line \in Seq(Token), NEW i \in DOMAIN line, LabelsFrom(line, i),
         NEW k \in DOMAIN line, LabelsEnd(line, i, k)
  PROVE  LET t == TrimSpace(line)
         IN  /\ t \in Seq(Token) /\ DOMAIN t = 1..Len(t) /\ Len(t) \in Nat
             /\ k \in 1..Len(t) /\ Len(t) <= Len(line)
             /\ \A j \in 1..Len(t) : t[j] = line[j]
             /\ NameEnd(t) = i /\ Labelled(t) /\ Close(t) = k
<1> DEFINE t == TrimSpace(line)
<1>1. PICK b \in DOMAIN line :
            /\ t \in Seq(Token) /\ Len(t) = b /\ DOMAIN t = 1..b
            /\ \A j \in 1..b : t[j] = line[j]
            /\ \A j \in DOMAIN line : line[j] # Space => j <= b
            /\ i <= b /\ NameEnd(t) = i /\ Labelled(t)
  BY LabelledLine
<1>2. DOMAIN line = 1..Len(line)
  OBVIOUS
<1> HIDE DEF t
<1>3. /\ k \in (i + 1)..Len(line) /\ line[k] = RBrace
      /\ \A j \in (i + 1)..(k - 1) : line[j] # RBrace
  BY DEF LabelsEnd
<1>4. k \in 1..b
  BY <1>1, <1>2, <1>3, MarksDiffer
<1>5. Close(t) = k
  <2>1. Closing(t) \in SUBSET Int /\ k \in Closing(t)
    BY <1>1, <1>2, <1>3, <1>4 DEF Closing, At
  <2>2. ASSUME NEW j \in Closing(t)
        PROVE  k <= j
    <3>1. j \in 1..b /\ j > i /\ line[j] = RBrace
      BY <1>1 DEF Closing, At
    <3>2. ASSUME j < k
          PROVE  FALSE
      <4>1. j \in (i + 1)..(k - 1)
        BY <1>2, <1>4, <3>1, <3>2
      <4> QED BY <1>3, <3>1, <4>1
    <3> QED BY <1>2, <1>4, <3>1, <3>2
  <2> QED BY <2>1, <2>2, MinIs DEF Close
<1> QED BY <1>1, <1>2, <1>4, <1>5 DEF t

\* one that ends with its labels,
LEMMA NothingAfterIsRefused ==
  ASSUME NEW line \in Seq(Token), NEW i \in DOMAIN line, LabelsFrom(line, i),
         LabelsEnd(line, i, Len(line))
  PROVE  ~IsSample(TrimSpace(line))
<1> DEFINE t == TrimSpace(line)
           l == Len(line)
<1>1. l \in DOMAIN line /\ l \in Nat
  BY DEF LabelsEnd
<1>2. /\ t \in Seq(Token) /\ Len(t) \in Nat
      /\ l \in 1..Len(t) /\ Len(t) <= l
      /\ Labelled(t) /\ Close(t) = l
  BY <1>1, ClosedLine
<1> HIDE DEF t, l
<1>3. Len(t) = l
  BY <1>1, <1>2
<1>4. Rest(t) = <<>>
  <2>1. SubSeq(t, l + 1, l) = <<>>
    BY <1>1, <1>2
  <2>2. TrimSpace(<<>>) = <<>>
    BY DEF TrimSpace
  <2> QED BY <1>2, <1>3, <2>1, <2>2 DEF Rest, From
<1>5. ValueField(t) = <<>>
  <2> DEFINE ends == At(<<>>, {Space}) \cup {Len(<<>>) + 1}
  <2>1. ends = {1}
    BY DEF At
  <2>2. ValueField(t) = SubSeq(<<>>, 1, Min(ends) - 1)
    BY <1>4 DEF ValueField, Before
  <2> HIDE DEF ends
  <2>3. 1 \in ends /\ ends \in SUBSET Int /\ \A m \in ends : 1 <= m
    BY <2>1
  <2>4. Min(ends) = 1
    BY <2>3, MinIs
  <2>5. SubSeq(<<>>, 1, 0) = <<>>
    OBVIOUS
  <2> QED BY <2>2, <2>4, <2>5
<1>6. Len(ValueField(t)) = 0
  BY <1>5
<1> QED BY <1>6 DEF IsSample, t
\* Between separators there is a pair, wherever a character stands that is none of them.
LEMMA SomePair ==
  ASSUME NEW L \in Seq(Token), NEW j \in DOMAIN L, L[j] \notin {Space, Comma}
  PROVE  \E p \in Pairs(L) : Within(p, L)
<1> DEFINE n == Len(L)
           cuts == TopLevel(L) \cup {0, n + 1}
           after(i) == {c \in cuts : c > i}
           below == {c \in cuts : c < j}
           x == Max(below)
           m == Min(after(x))
           part == SubSeq(L, x + 1, m - 1)
           p == TrimSpace(part)
<1>1. DOMAIN L = 1..n /\ n \in Nat /\ j \in 1..n
  OBVIOUS
<1>2. \A c \in TopLevel(L) : c \in 1..n /\ L[c] = Comma
  BY <1>1 DEF TopLevel, At
<1> HIDE DEF n
<1>3. /\ \A c \in cuts : c \in 0..(n + 1) /\ c # j
      /\ 0 \in cuts /\ n + 1 \in cuts
  BY <1>1, <1>2
<1>4. SplitTopLevel(L) = {TrimSpace(SubSeq(L, i + 1, Min(after(i)) - 1)) : i \in cuts \ {n + 1}}
  BY DEF SplitTopLevel, n
<1> HIDE DEF cuts
<1>5. below \in SUBSET (0..n) /\ below # {}
  BY <1>1, <1>3
<1>6. x \in below /\ \A c \in below : x >= c
  <2> HIDE DEF below
  <2> QED BY <1>1, <1>5, MaxOf
<1>7. x \in cuts /\ x \in 0..n /\ x < j /\ \A c \in cuts : c < j => x >= c
  BY <1>1, <1>3, <1>6
<1> HIDE DEF x, below
<1>8. after(x) \in SUBSET Nat /\ after(x) # {}
  <2>1. \A c \in cuts : c \in Nat
    BY <1>3
  <2>2. n + 1 > x
    BY <1>1, <1>7
  <2>3. n + 1 \in after(x)
    BY <1>3, <2>2
  <2> QED BY <2>1, <2>3
<1>9. m \in after(x)
  <2> HIDE DEF after
  <2> QED BY <1>8, MinOf
<1>10. m \in cuts /\ m \in 0..(n + 1) /\ m > x
  BY <1>3, <1>9
<1>11. m > j
  <2>1. ~(m < j) /\ m # j
    BY <1>1, <1>3, <1>7, <1>10
  <2> QED BY <1>1, <1>10, <2>1
<1>12. p \in SplitTopLevel(L)
  <2>1. x \in cuts \ {n + 1}
    BY <1>1, <1>7
  <2> HIDE DEF after
  <2> QED BY <1>4, <2>1
<1> HIDE DEF m
<1>13. /\ x + 1 \in Nat /\ x + 1 >= 1 /\ m - 1 \in Int /\ m - 1 <= n
       /\ x + 1 <= m - 1 /\ j - x \in 1..((m - 1) - (x + 1) + 1) /\ (x + 1) + (j - x) - 1 = j
  BY <1>1, <1>7, <1>10, <1>11
<1>14. Within(part, L)
  BY <1>13, WithinSub DEF n
<1>15. part \in Seq(Token) /\ j - x \in DOMAIN part /\ part[j - x] = L[j]
  BY <1>1, <1>13 DEF n
<1> HIDE DEF part
<1>16. p # <<>>
  <2>1. PICK a \in DOMAIN part, b \in DOMAIN part : a <= b /\ p = SubSeq(part, a, b)
    BY <1>15, TrimIsPart
  <2>2. Len(p) = b - a + 1 /\ b - a + 1 > 0
    BY <1>15, <2>1
  <2> QED BY <2>2
<1>17. Within(p, L)
  BY <1>14, <1>15, TrimWithin, WithinTwice
<1> QED BY <1>12, <1>16, <1>17 DEF Pairs

\* A pair needs an equals sign and two quotes.
LEMMA WellFormedNeeds ==
  ASSUME NEW L \in Seq(Token), NEW p, Within(p, L), WellFormed(p)
  PROVE  /\ \E j \in DOMAIN L : L[j] = Equals
         /\ \E j, l \in DOMAIN L : L[j] = Quote /\ L[l] = Quote /\ j # l
<1> DEFINE marks == At(p, {Equals})
           e == Min(marks)
           q == Quoted(p)
<1>1. /\ marks # {} /\ Len(q) >= 2 /\ q[1] = Quote /\ q[Len(q)] = Quote
  BY DEF WellFormed, Last
<1>2. p \in Seq(Token) /\ DOMAIN p = 1..Len(p) /\ DOMAIN L = 1..Len(L) /\ Len(p) \in Nat /\ Len(L) \in Nat
  BY DEF Within
<1>3. e \in DOMAIN p /\ p[e] = Equals
  <2>1. marks \in SUBSET Nat /\ \A m \in marks : m \in DOMAIN p /\ p[m] = Equals
    BY <1>2 DEF At
  <2> HIDE DEF marks
  <2> QED BY <1>1, <2>1, MinOf
<1>4. PICK c \in Nat : c + Len(p) <= Len(L) /\ \A i \in 1..Len(p) : p[i] = L[c + i]
  BY DEF Within
<1>5. Within(q, L)
  <2> DEFINE z == SubSeq(p, e + 1, Len(p))
  <2>1. q = TrimSpace(z)
    BY DEF Quoted, From
  <2> HIDE DEF e
  <2>2. Within(z, p)
    BY <1>2, <1>3, WithinSub
  <2>3. z \in Seq(Token)
    BY <2>2 DEF Within
  <2> HIDE DEF z, q
  <2>4. Within(q, z)
    BY <2>1, <2>3, TrimWithin
  <2> QED BY <2>2, <2>4, WithinTwice
<1> HIDE DEF e, q, marks
<1>6. c + e \in DOMAIN L /\ L[c + e] = Equals
  BY <1>2, <1>3, <1>4
<1>7. PICK d \in Nat : d + Len(q) <= Len(L) /\ \A i \in 1..Len(q) : q[i] = L[d + i]
  BY <1>5 DEF Within
<1>8. q \in Seq(Token) /\ Len(q) \in Nat
  BY <1>5 DEF Within
<1>9. /\ d + 1 \in DOMAIN L /\ d + Len(q) \in DOMAIN L /\ d + 1 # d + Len(q)
      /\ 1 \in 1..Len(q) /\ Len(q) \in 1..Len(q)
  BY <1>1, <1>2, <1>7, <1>8
<1>10. L[d + 1] = Quote /\ L[d + Len(q)] = Quote
  BY <1>1, <1>7, <1>9
<1> QED BY <1>6, <1>9, <1>10

\* one whose labels are not text = "text".
LEMMA NotQuotedIsRefused ==
  ASSUME NEW line \in Seq(Token), NEW i \in DOMAIN line, LabelsFrom(line, i),
         NEW k \in DOMAIN line, LabelsEnd(line, i, k), NotQuoted(line, i, k)
  PROVE  ~IsSample(TrimSpace(line))
<1> DEFINE t == TrimSpace(line)
           L == SubSeq(t, i + 1, k - 1)
<1>1. /\ t \in Seq(Token) /\ DOMAIN t = 1..Len(t) /\ Len(t) \in Nat
      /\ k \in 1..Len(t) /\ Len(t) <= Len(line)
      /\ \A j \in 1..Len(t) : t[j] = line[j]
      /\ NameEnd(t) = i /\ Labelled(t) /\ Close(t) = k
  BY ClosedLine
<1>2. i \in Nat /\ i >= 1 /\ k >= i + 1
  BY DEF LabelsEnd
<1> HIDE DEF t
<1>3. LabelStr(t) = L
  BY <1>1 DEF LabelStr
<1>4. L \in Seq(Token) /\ DOMAIN L = 1..(k - 1 - i) /\ \A j \in DOMAIN L : L[j] = t[i + j]
  <2> DEFINE b == k - 1
  <2>1. b \in Nat /\ b <= Len(t) /\ i <= b
    BY <1>1, <1>2
  <2> HIDE DEF b
  <2>2. /\ SubSeq(t, i + 1, b) \in Seq(Token) /\ DOMAIN SubSeq(t, i + 1, b) = 1..(b - i)
    BY <1>1, <1>2, <2>1
  <2>3. \A j \in 1..(b - i) : SubSeq(t, i + 1, b)[j] = t[i + j]
    BY <1>1, <1>2, <2>1, SMTT(40)
  <2> QED BY <2>2, <2>3 DEF b
<1> HIDE DEF L
<1>5. \A j \in DOMAIN L : L[j] = line[i + j] /\ i + j \in (i + 1)..(k - 1)
  BY <1>1, <1>2, <1>4, SMTT(40)
<1>6. PICK p \in Pairs(L) : Within(p, L)
  <2>1. PICK j \in (i + 1)..(k - 1) : line[j] \notin {Space, Comma}
    BY DEF NotQuoted
  <2>2. j - i \in DOMAIN L /\ i + (j - i) = j
    BY <1>1, <1>2, <1>4, <2>1
  <2>3. L[j - i] \notin {Space, Comma}
    BY <1>5, <2>1, <2>2
  <2> QED BY <1>4, <2>2, <2>3, SomePair
<1>7. ~WellFormed(p)
  <2> SUFFICES ASSUME WellFormed(p)
               PROVE  FALSE
    OBVIOUS
  <2>1. PICK e \in DOMAIN L : L[e] = Equals
    BY <1>4, <1>6, WellFormedNeeds
  <2>2. PICK a \in DOMAIN L, b \in DOMAIN L : L[a] = Quote /\ L[b] = Quote /\ a # b
    BY <1>4, <1>6, WellFormedNeeds
  <2>3. i + e \in (i + 1)..(k - 1) /\ line[i + e] = Equals
    BY <1>5, <2>1
  <2>4. /\ i + a \in (i + 1)..(k - 1) /\ line[i + a] = Quote
        /\ i + b \in (i + 1)..(k - 1) /\ line[i + b] = Quote
    BY <1>5, <2>2
  <2>5. i + a # i + b
    BY <1>2, <1>4, <2>2
  <2> QED BY <2>3, <2>4, <2>5 DEF NotQuoted
<1> QED BY <1>3, <1>6, <1>7 DEF IsSample, t

\* A damaged line is noticed.
LEMMA DamageIsNoticed ==
  ASSUME NEW line \in Garbage
  PROVE  ~Skipped(TrimSpace(line)) /\ ~IsSample(TrimSpace(line))
<1>1. /\ line \in Seq(Token) /\ Damaged(line)
      /\ \E i \in DOMAIN line : Begins(line, i) /\ line[i] # Hash
  BY GarbageAssumption
<1>2. ~Skipped(TrimSpace(line))
  BY <1>1, TrimBegins DEF Skipped
<1>3. CASE NoNumber(line)
  BY <1>1, <1>2, <1>3, NoNumberIsRefused
<1>4. ASSUME NEW i \in DOMAIN line, LabelsFrom(line, i),
             \/ NotClosed(line, i)
             \/ LabelsEnd(line, i, Len(line))
             \/ \E k \in DOMAIN line : LabelsEnd(line, i, k) /\ NotQuoted(line, i, k)
      PROVE  ~IsSample(TrimSpace(line))
  BY <1>1, <1>4, NotClosedIsRefused, NothingAfterIsRefused, NotQuotedIsRefused
<1> QED BY <1>1, <1>2, <1>3, <1>4 DEF Damaged
-----------------------------------------------------------------------------
(* The collection. *)

\* What has been read is the beginning of what the exporter writes; a fault has ended
\* the collection; and only a collection that is done has metrics.
ReadInv ==
  /\ facts \in Machines \cup {NoFacts}
  /\ pc \in {"idle", "request", "scan", "done", "failed"}
  /\ fault \in BOOLEAN
  /\ \E n \in 0..Len(Exported(facts)) :
        samples = [i \in 1..n |-> Meant(Exported(facts)[i])]
  /\ fault <=> pc = "failed"
  /\ pc # "done" => data = {}

\* What has been collected, without the bound variable.
LEMMA SamplesAre ==
  ASSUME ReadInv
  PROVE  /\ Len(Exported(facts)) \in Nat /\ Len(samples) \in 0..Len(Exported(facts))
         /\ DOMAIN samples = 1..Len(samples)
         /\ samples = [i \in 1..Len(samples) |-> Meant(Exported(facts)[i])]
<1>1. Len(Exported(facts)) \in Nat
  BY ExportedIsWritten DEF ReadInv
<1>2. PICK n \in 0..Len(Exported(facts)) :
          samples = [i \in 1..n |-> Meant(Exported(facts)[i])]
  BY DEF ReadInv
<1>3. Len(samples) = n
  BY <1>1, <1>2
<1> QED BY <1>1, <1>2, <1>3

LEMMA ReadInit == Init => ReadInv
<1> SUFFICES ASSUME Init
             PROVE  ReadInv
  OBVIOUS
<1>1. facts = NoFacts /\ pc = "idle" /\ samples = <<>> /\ data = {} /\ fault = FALSE
  BY DEF Init
<1>2. Len(Exported(facts)) \in Nat
  BY <1>1, ExportedIsWritten
<1>3. 0 \in 0..Len(Exported(facts)) /\ samples = [i \in 1..0 |-> Meant(Exported(facts)[i])]
  BY <1>1, <1>2
<1> QED BY <1>1, <1>3 DEF ReadInv

\* Every line leaves the samples a beginning of the answer, or ends the collection.
LEMMA ReadStep ==
  ASSUME ReadInv, [Next]_vars
  PROVE  ReadInv'
<1> DEFINE X == Exported(facts)
           n == Len(samples)
<1>1. /\ Len(X) \in Nat /\ n \in 0..Len(X)
      /\ DOMAIN samples = 1..n
      /\ samples = [i \in 1..n |-> Meant(X[i])]
  BY SamplesAre
<1>2. facts \in Machines \cup {NoFacts} /\ fault \in BOOLEAN /\ (fault <=> pc = "failed")
      /\ (pc # "done" => data = {})
      /\ pc \in {"idle", "request", "scan", "done", "failed"}
  BY DEF ReadInv
<1>3. ASSUME samples' = samples, facts' = facts, data' = data, pc # "done", pc' # "done",
             pc' \in {"request", "scan", "failed", "idle"}, fault' \in BOOLEAN, (fault' <=> pc' = "failed")
      PROVE  ReadInv'
  <2>1. n \in 0..Len(Exported(facts')) /\ samples' = [i \in 1..n |-> Meant(Exported(facts')[i])]
    BY <1>1, <1>3
  <2> HIDE DEF n
  <2> QED BY <1>2, <1>3, <2>1 DEF ReadInv
<1>4. ASSUME NEW f \in Machines, Begin(f)
      PROVE  ReadInv'
  <2>1. facts' = f /\ pc' = "request" /\ samples' = <<>> /\ data' = {} /\ fault' = FALSE
    BY <1>4 DEF Begin
  <2>2. Len(Exported(facts')) \in Nat
    BY <2>1, ExportedIsWritten
  <2>3. 0 \in 0..Len(Exported(facts')) /\ samples' = [i \in 1..0 |-> Meant(Exported(facts')[i])]
    BY <2>1, <2>2
  <2> QED BY <2>1, <2>3 DEF ReadInv
<1>5. CASE RequestFails
  BY <1>3, <1>5 DEF RequestFails, Fail
<1>6. CASE RequestAnswered
  BY <1>2, <1>3, <1>6 DEF RequestAnswered
<1>7. CASE SampleComes
  <2> DEFINE s == X[n + 1]
  <2>1. PICK style \in Style : Scan(Render(s, style))
    BY <1>7 DEF SampleComes
  <2>2. pc = "scan" /\ n < Len(X) /\ fault' = fault
    BY <1>7 DEF SampleComes, ToCome
  <2>3. IsWritten(s)
    <3>1. n + 1 \in 1..Len(X)
      BY <1>1, <2>2
    <3> QED BY <1>2, <3>1, ExportedIsWritten
  <2> DEFINE line == TrimSpace(Render(s, style))
  <2>4. ~Skipped(line) /\ IsSample(line) /\ ParseLine(line) = Meant(s)
    BY <2>3, SampleIsRead
  <2>5. samples' = Append(samples, Meant(s)) /\ facts' = facts /\ pc' = pc /\ data' = data
    BY <2>1, <2>4 DEF Scan
  <2>6. samples' = [i \in 1..(n + 1) |-> Meant(X[i])]
    <3> DEFINE T == {Meant(X[i]) : i \in 1..(n + 1)}
    <3>1. samples \in Seq(T) /\ Meant(s) \in T
      <4>1. n \in Nat /\ n + 1 \in 1..(n + 1) /\ \A i \in 1..n : i \in 1..(n + 1)
        BY <1>1
      <4>2. \A i \in 1..n : samples[i] \in T
        BY <1>1, <4>1
      <4> HIDE DEF n, T
      <4>3. samples \in [1..n -> T]
        BY <1>1, <4>2
      <4>4. samples \in Seq(T)
        BY <4>1, <4>3
      <4> QED BY <4>1, <4>4 DEF T
    <3> DEFINE w == Append(samples, Meant(s))
    <3> HIDE DEF T
    <3>2. DOMAIN w = 1..(n + 1) /\ w[n + 1] = Meant(s) /\ \A i \in 1..n : w[i] = samples[i]
      BY <3>1
    <3>3. w = [i \in DOMAIN w |-> w[i]]
      BY <3>1
    <3> HIDE DEF w
    <3>4. \A i \in 1..(n + 1) : w[i] = Meant(X[i])
      <4> SUFFICES ASSUME NEW i \in 1..(n + 1)
                   PROVE  w[i] = Meant(X[i])
        OBVIOUS
      <4>1. i \in 1..n \/ i = n + 1
        BY <1>1
      <4> HIDE DEF n
      <4> QED BY <1>1, <3>2, <4>1
    <3>5. w = [i \in 1..(n + 1) |-> Meant(X[i])]
      BY <3>2, <3>3, <3>4
    <3> QED BY <2>5, <3>5 DEF w
  <2>7. n + 1 \in 0..Len(Exported(facts')) /\ samples' = [i \in 1..(n + 1) |-> Meant(Exported(facts')[i])]
    BY <1>1, <2>2, <2>5, <2>6
  <2> HIDE DEF n
  <2> QED BY <1>2, <2>2, <2>5, <2>7 DEF ReadInv
<1>8. CASE CommentComes
  <2>1. PICK line \in Comments : Scan(line)
    BY <1>8 DEF CommentComes
  <2>2. Skipped(TrimSpace(line))
    BY CommentIsSkipped
  <2>3. UNCHANGED <<facts, pc, samples, data>> /\ pc = "scan" /\ fault' = fault
    BY <1>8, <2>1, <2>2 DEF Scan, CommentComes
  <2> QED BY <1>2, <1>3, <2>3
<1>9. CASE GarbageComes
  <2>1. PICK line \in Garbage : Scan(line)
    BY <1>9 DEF GarbageComes
  <2>2. ~Skipped(TrimSpace(line)) /\ ~IsSample(TrimSpace(line))
    BY DamageIsNoticed
  <2>3. Fail /\ pc = "scan" /\ fault' = TRUE
    BY <1>9, <2>1, <2>2 DEF Scan, GarbageComes
  <2> QED BY <1>3, <2>3 DEF Fail
<1>10. CASE BodyBreaks
  BY <1>3, <1>10 DEF BodyBreaks, Fail
<1>11. CASE BodyEnds
  <2>1. pc = "scan" /\ pc' = "done" /\ UNCHANGED <<facts, samples, fault>>
    BY <1>11 DEF BodyEnds
  <2>2. n \in 0..Len(Exported(facts')) /\ samples' = [i \in 1..n |-> Meant(Exported(facts')[i])]
    BY <1>1, <2>1
  <2> HIDE DEF n
  <2> QED BY <1>2, <2>1, <2>2 DEF ReadInv
<1>12. CASE UNCHANGED vars
  <2>1. UNCHANGED <<facts, pc, samples, data, fault>>
    BY <1>12 DEF vars
  <2>2. n \in 0..Len(Exported(facts')) /\ samples' = [i \in 1..n |-> Meant(Exported(facts')[i])]
    BY <1>1, <2>1
  <2> HIDE DEF n
  <2> QED BY <1>2, <2>1, <2>2 DEF ReadInv
<1> QED BY <1>4, <1>5, <1>6, <1>7, <1>8, <1>9, <1>10, <1>11, <1>12 DEF Next

\* In every state, what has been collected is the beginning of what the exporter
\* writes, and a fault has ended the collection (Parse and Collect).
THEOREM Read == Spec => []ReadInv
BY ReadInit, ReadStep, PTL DEF Spec

\* What the parser has read is what the exporter wrote, sample by sample and label by
\* label, in whatever style and with whatever marks inside label values
\* (promparse.go:53-158).
THEOREM EveryLineIsRead == Spec => []ReadsEveryLine
<1>1. ReadInv => ReadsEveryLine
  BY SamplesAre DEF ReadsEveryLine
<1> QED BY <1>1, Read, PTL

\* A scrape is reported whole or not at all: a damaged or cut answer gives no data and
\* an undamaged one always does (promparse.go:39-48, system.go:77-82).
THEOREM ScrapeIsWholeOrNothing == Spec => []WholeOrNothing
<1>1. ReadInv => WholeOrNothing
  BY DEF ReadInv, WholeOrNothing
<1> QED BY <1>1, Read, PTL
-----------------------------------------------------------------------------
(* Sums. *)

\* The partial sums of a sequence.
Sums(v, g) ==
  /\ DOMAIN g = 0..Len(v) /\ g[0] = 0
  /\ \A n \in 1..Len(v) : g[n] = g[n - 1] + v[n]

SumsTo(v, m, g) == g = [n \in 0..m |-> IF n = 0 THEN 0 ELSE g[n - 1] + v[n]]

\* The function of the partial sums exists, by the least counterexample.
LEMMA SumsExist ==
  ASSUME NEW v, NEW l \in Nat
  PROVE  \E g : SumsTo(v, l, g)
<1> DEFINE bad == {m \in Nat : ~\E g : SumsTo(v, m, g)}
<1> SUFFICES ASSUME bad # {}
             PROVE  FALSE
  OBVIOUS
<1>1. PICK m \in bad : \A k \in bad : m <= k
  <2>1. bad \in SUBSET Nat
    OBVIOUS
  <2> HIDE DEF bad
  <2> QED BY <2>1, Least
<1>2. m # 0
  <2> DEFINE g == [n \in 0..0 |-> 0]
  <2>1. g = [n \in 0..0 |-> IF n = 0 THEN 0 ELSE g[n - 1] + v[n]]
    OBVIOUS
  <2>2. SumsTo(v, 0, g)
    BY <2>1 DEF SumsTo
  <2> QED BY <1>1, <2>2
<1>3. m \in Nat /\ m - 1 \in Nat /\ m - 1 \notin bad
  BY <1>1, <1>2
<1>4. PICK g : SumsTo(v, m - 1, g)
  BY <1>3
<1> DEFINE h == [n \in 0..m |-> IF n = m THEN g[m - 1] + v[m] ELSE g[n]]
<1>5. g = [n \in 0..(m - 1) |-> IF n = 0 THEN 0 ELSE g[n - 1] + v[n]]
  BY <1>4 DEF SumsTo
<1>6. ASSUME NEW n \in 0..m
      PROVE  h[n] = IF n = 0 THEN 0 ELSE h[n - 1] + v[n]
  <2>1. CASE n = 0
    BY <1>2, <1>3, <1>5, <2>1
  <2>2. CASE n = m
    <3>1. h[n - 1] = g[m - 1]
      BY <1>3, <2>2
    <3> QED BY <1>2, <2>2, <3>1
  <2>3. CASE n # 0 /\ n # m
    <3>1. n \in 0..(m - 1) /\ n - 1 \in 0..m /\ n - 1 # m
      BY <1>3, <2>3
    <3>2. h[n] = g[n] /\ h[n - 1] = g[n - 1]
      BY <2>3, <3>1
    <3>3. g[n] = g[n - 1] + v[n]
      BY <1>5, <2>3, <3>1
    <3> QED BY <2>3, <3>2, <3>3
  <2> QED BY <2>1, <2>2, <2>3
<1>7. DOMAIN h = 0..m /\ h = [n \in DOMAIN h |-> h[n]]
  OBVIOUS
<1> HIDE DEF h
<1>8. h = [n \in 0..m |-> IF n = 0 THEN 0 ELSE h[n - 1] + v[n]]
  BY <1>6, <1>7
<1>9. SumsTo(v, m, h)
  BY <1>8 DEF SumsTo
<1> QED BY <1>1, <1>9

\* A total is the last partial sum.
LEMMA TotalIs ==
  ASSUME NEW v, Len(v) \in Nat
  PROVE  \E g : Sums(v, g) /\ Total(v) = g[Len(v)]
<1> DEFINE sum == CHOOSE g : g = [n \in 0..Len(v) |-> IF n = 0 THEN 0 ELSE g[n - 1] + v[n]]
<1>1. Total(v) = sum[Len(v)]
  BY DEF Total
<1>2. PICK g : g = [n \in 0..Len(v) |-> IF n = 0 THEN 0 ELSE g[n - 1] + v[n]]
  BY SumsExist DEF SumsTo
<1>3. sum = [n \in 0..Len(v) |-> IF n = 0 THEN 0 ELSE sum[n - 1] + v[n]]
  BY <1>2
<1> HIDE DEF sum
<1>4. Sums(v, sum)
  BY <1>3 DEF Sums
<1> QED BY <1>1, <1>4

\* Partial sums of numbers are numbers.
LEMMA SumsAreNumbers ==
  ASSUME NEW v, Len(v) \in Nat, \A n \in 1..Len(v) : v[n] \in Nat, NEW g, Sums(v, g)
  PROVE  \A n \in 0..Len(v) : g[n] \in Nat
<1> DEFINE bad == {n \in 0..Len(v) : g[n] \notin Nat}
<1> SUFFICES ASSUME bad # {}
             PROVE  FALSE
  OBVIOUS
<1>1. PICK m \in bad : \A k \in bad : m <= k
  <2>1. bad \in SUBSET Nat
    OBVIOUS
  <2> HIDE DEF bad
  <2> QED BY <2>1, Least
<1>2. m \in 0..Len(v) /\ g[m] \notin Nat
  OBVIOUS
<1>3. m # 0
  BY <1>2 DEF Sums
<1>4. m \in 1..Len(v) /\ m - 1 \in 0..Len(v) /\ ~(m <= m - 1)
  BY <1>2, <1>3
<1>5. g[m - 1] \in Nat
  BY <1>1, <1>4
<1>6. g[m] = g[m - 1] + v[m] /\ v[m] \in Nat
  BY <1>4 DEF Sums
<1> QED BY <1>2, <1>5, <1>6

\* A total of naturals is a natural.
LEMMA TotalIsNumber ==
  ASSUME NEW v, Len(v) \in Nat, \A n \in 1..Len(v) : v[n] \in Nat
  PROVE  Total(v) \in Nat
<1>1. PICK g : Sums(v, g) /\ Total(v) = g[Len(v)]
  BY TotalIs
<1>2. \A n \in 0..Len(v) : g[n] \in Nat
  BY <1>1, SumsAreNumbers
<1> QED BY <1>1, <1>2

\* A sequence whose sums grow once in each round of three sums up to what is added in
\* the rounds.
LEMMA RoundsAddUp ==
  ASSUME NEW v, Len(v) \in Nat, NEW u, Len(u) \in Nat, 3 * Len(u) <= Len(v),
         NEW r \in 1..3,
         \A n \in 1..Len(u) : u[n] \in Nat,
         \A n \in 1..Len(u) : v[3 * (n - 1) + r] = u[n],
         \A n \in 1..Len(u) : \A o \in 1..3 : o # r => v[3 * (n - 1) + o] = 0,
         \A k \in 1..Len(v) : k > 3 * Len(u) => v[k] = 0
  PROVE  Total(v) = Total(u)
<1>1. PICK g : Sums(v, g) /\ Total(v) = g[Len(v)]
  BY TotalIs
<1>2. PICK h : Sums(u, h) /\ Total(u) = h[Len(u)]
  BY TotalIs
<1>3. \A n \in 0..Len(u) : h[n] \in Nat
  BY <1>2, SumsAreNumbers
<1> DEFINE l == Len(v)
           m == Len(u)
<1>4. /\ g[0] = 0 /\ \A k \in 1..l : g[k] = g[k - 1] + v[k]
      /\ h[0] = 0 /\ \A n \in 1..m : h[n] = h[n - 1] + u[n]
      /\ l \in Nat /\ m \in Nat /\ 3 * m <= l
  BY <1>1, <1>2 DEF Sums
<1>5. \A n \in 1..m : u[n] \in Nat
  OBVIOUS
<1>6. /\ \A n \in 1..m : v[3 * (n - 1) + r] = u[n]
      /\ \A n \in 1..m : \A o \in 1..3 : o # r => v[3 * (n - 1) + o] = 0
      /\ \A k \in 1..l : k > 3 * m => v[k] = 0
  OBVIOUS
<1>7. \A n \in 0..m : h[n] \in Nat
  BY <1>3
<1> HIDE DEF l, m
<1>8. \A n \in 0..m : g[3 * n] = h[n]
  <2> DEFINE bad == {n \in 0..m : g[3 * n] # h[n]}
  <2> SUFFICES ASSUME bad # {}
               PROVE  FALSE
    OBVIOUS
  <2>1. PICK n \in bad : \A k \in bad : n <= k
    <3>1. bad \in SUBSET Nat
      OBVIOUS
    <3> HIDE DEF bad
    <3> QED BY <3>1, Least
  <2>2. n \in 0..m /\ g[3 * n] # h[n]
    OBVIOUS
  <2>3. n # 0
    BY <1>4, <2>2
  <2>4. n \in 1..m /\ n - 1 \in 0..m /\ ~(n <= n - 1)
    BY <1>4, <2>2, <2>3
  <2>5. g[3 * (n - 1)] = h[n - 1]
    BY <2>1, <2>4
  <2> DEFINE a == 3 * (n - 1)
             x == h[n - 1]
             y == u[n]
  <2>6. /\ a \in Nat /\ a + 1 \in 1..l /\ a + 2 \in 1..l /\ a + 3 \in 1..l
        /\ (a + 1) - 1 = a /\ (a + 2) - 1 = a + 1 /\ (a + 3) - 1 = a + 2 /\ 3 * n = a + 3
    BY <1>4, <2>4
  <2>7. /\ x \in Nat /\ y \in Nat /\ h[n] = x + y /\ g[a] = x
    BY <1>4, <1>5, <1>7, <2>4, <2>5
  <2>8. /\ v[a + 1] = IF r = 1 THEN y ELSE 0
        /\ v[a + 2] = IF r = 2 THEN y ELSE 0
        /\ v[a + 3] = IF r = 3 THEN y ELSE 0
    <3>1. v[a + r] = y
      BY <1>6, <2>4
    <3>2. \A o \in 1..3 : o # r => v[a + o] = 0
      BY <1>6, <2>4
    <3> HIDE DEF a, y
    <3> QED BY <3>1, <3>2
  <2> HIDE DEF a, x, y
  <2>9. g[a + 1] = x + v[a + 1] /\ g[a + 2] = g[a + 1] + v[a + 2] /\ g[a + 3] = g[a + 2] + v[a + 3]
    BY <1>4, <2>6, <2>7
  <2>10. g[a + 3] = x + y
    BY <2>7, <2>8, <2>9, SMTT(40)
  <2> QED BY <2>2, <2>6, <2>7, <2>10
<1>9. \A k \in (3 * m)..l : g[k] = h[m]
  <2> DEFINE bad == {k \in (3 * m)..l : g[k] # h[m]}
  <2> SUFFICES ASSUME bad # {}
               PROVE  FALSE
    OBVIOUS
  <2>1. PICK k \in bad : \A j \in bad : k <= j
    <3>1. bad \in SUBSET Nat
      BY <1>4
    <3> HIDE DEF bad
    <3> QED BY <3>1, Least
  <2>2. k \in (3 * m)..l /\ g[k] # h[m]
    OBVIOUS
  <2>3. k # 3 * m
    <3>1. m \in 0..m
      BY <1>4
    <3>2. g[3 * m] = h[m]
      BY <1>8, <3>1
    <3> QED BY <2>2, <3>2
  <2>4. k \in 1..l /\ k > 3 * m /\ k - 1 \in (3 * m)..l /\ ~(k <= k - 1)
    BY <1>4, <2>2, <2>3
  <2>5. g[k - 1] = h[m]
    BY <2>1, <2>4
  <2>6. g[k] = g[k - 1] + v[k] /\ v[k] = 0
    BY <1>4, <1>6, <2>4
  <2>7. h[m] \in Nat
    BY <1>4, <1>7
  <2> QED BY <2>2, <2>5, <2>6, <2>7
<1> QED BY <1>1, <1>2, <1>4, <1>9 DEF l, m
-----------------------------------------------------------------------------
(* Where the samples of a machine stand. *)

CpuAt(c, o) == 3 * (c - 1) + o
AvailAt(n, i) == 3 * n + i
SizeAt(n, q, i) == 3 * n + q + i
PlainAt(n, q, i) == 3 * n + 2 * q + i

CpuSample(f, c, o) ==
  Written("node_cpu_seconds_total", << <<"cpu", f.cpu[c].id>>, <<"mode", <<Mode[o]>>>> >>,
          f.cpu[c].seconds[Mode[o]])
FsSample(f, name, field, i) ==
  Written(name, << <<"device", f.fs[i].device>>, <<"mountpoint", f.fs[i].mount>> >>,
          f.fs[i][field])
PlainSample(f, i) == Written(f.plain[i].name, <<>>, f.plain[i].value)

\* A place of the processors' samples belongs to one core and one mode.
LEMMA CpuPlaces ==
  ASSUME NEW n \in Nat
  PROVE  /\ \A c \in 1..n : \A o \in 1..3 :
               /\ CpuAt(c, o) \in 1..(3 * n)
               /\ (CpuAt(c, o) - 1) \div 3 + 1 = c /\ ((CpuAt(c, o) - 1) % 3) + 1 = o
         /\ \A k \in 1..(3 * n) : \E c \in 1..n : \E o \in 1..3 : k = CpuAt(c, o)
<1>1. ASSUME NEW c \in 1..n, NEW o \in 1..3
      PROVE  /\ CpuAt(c, o) \in 1..(3 * n)
             /\ (CpuAt(c, o) - 1) \div 3 + 1 = c /\ ((CpuAt(c, o) - 1) % 3) + 1 = o
  BY DEF CpuAt
<1>2. ASSUME NEW k \in 1..(3 * n)
      PROVE  \E c \in 1..n : \E o \in 1..3 : k = CpuAt(c, o)
  <2> DEFINE c == (k - 1) \div 3 + 1
             o == ((k - 1) % 3) + 1
  <2>1. c \in 1..n /\ o \in 1..3
    BY CoreAndMode
  <2>2. k = CpuAt(c, o)
    BY DEF CpuAt
  <2> QED BY <2>1, <2>2
<1> QED BY <1>1, <1>2

\* The sample at each place of the answer.
LEMMA ExportedAt ==
  ASSUME NEW f \in Machines \cup {NoFacts}
  PROVE  LET X == Exported(f)
             n == Len(f.cpu)
             q == Len(f.fs)
             p == Len(f.plain)
         IN  /\ n \in Nat /\ q \in Nat /\ p \in Nat /\ Len(X) = 3 * n + 2 * q + p
             /\ \A c \in 1..n : \A o \in 1..3 : X[CpuAt(c, o)] = CpuSample(f, c, o)
             /\ \A i \in 1..q : X[AvailAt(n, i)] =
                                   FsSample(f, "node_filesystem_avail_bytes", "avail", i)
             /\ \A i \in 1..q : X[SizeAt(n, q, i)] =
                                   FsSample(f, "node_filesystem_size_bytes", "size", i)
             /\ \A i \in 1..p : X[PlainAt(n, q, i)] = PlainSample(f, i)
<1> DEFINE X == Exported(f)
           n == Len(f.cpu)
           q == Len(f.fs)
           p == Len(f.plain)
           C == CpuSamples(f)
           A == FsSamples(f, "node_filesystem_avail_bytes", "avail")
           Z == FsSamples(f, "node_filesystem_size_bytes", "size")
           P == PlainSamples(f)
<1>1. C \in Seq(Sample) /\ A \in Seq(Sample) /\ Z \in Seq(Sample) /\ P \in Seq(Sample)
  BY CpuSamplesAre, FsSamplesAre, PlainSamplesAre
<1>2. /\ f.cpu \in Seq(Core) /\ f.fs \in Seq(Filesystem) /\ f.plain \in Seq(Family)
      /\ n \in Nat /\ q \in Nat /\ p \in Nat
      /\ DOMAIN f.cpu = 1..n /\ DOMAIN f.fs = 1..q /\ DOMAIN f.plain = 1..p
  BY FactsAre
<1>3. Len(C) = 3 * n /\ Len(A) = q /\ Len(Z) = q /\ Len(P) = p
  <2>1. DOMAIN C = 1..(n * 3)
    BY ModesAre DEF CpuSamples
  <2>2. DOMAIN A = 1..q /\ DOMAIN Z = 1..q /\ DOMAIN P = 1..p
    BY <1>2 DEF FsSamples, PlainSamples
  <2> HIDE DEF C, A, Z, P, n, q, p
  <2>3. n * 3 \in Nat /\ n * 3 = 3 * n
    BY <1>2
  <2>4. Len(C) = n * 3
    BY <1>1, <2>1, <2>3
  <2> QED BY <1>1, <1>2, <2>2, <2>3, <2>4
<1> DEFINE t == C \o A \o Z \o P
<1>4. X = t
  BY DEF Exported
<1>5. ASSUME NEW c \in 1..n, NEW o \in 1..3
      PROVE  CpuAt(c, o) \in 1..Len(C) /\ C[CpuAt(c, o)] = CpuSample(f, c, o)
  <2> DEFINE k == CpuAt(c, o)
  <2>1. k \in 1..(3 * n) /\ (k - 1) \div 3 + 1 = c /\ ((k - 1) % 3) + 1 = o
    BY <1>2, CpuPlaces, ZenonT(60)
  <2> HIDE DEF k
  <2>2. k \in 1..(Len(f.cpu) * Len(Mode))
    BY <1>2, <2>1, ModesAre
  <2>3. C[k] = LET core == f.cpu[(k - 1) \div Len(Mode) + 1]
                   mode == Mode[((k - 1) % Len(Mode)) + 1]
               IN  Written("node_cpu_seconds_total",
                    << <<"cpu", core.id>>, <<"mode", <<mode>>>> >>, core.seconds[mode])
    BY <2>2 DEF CpuSamples
  <2>4. C[k] = CpuSample(f, c, o)
    BY <2>1, <2>3, ModesAre DEF CpuSample
  <2> QED BY <1>3, <2>1, <2>4 DEF k
<1>6. \A i \in 1..q : /\ A[i] = FsSample(f, "node_filesystem_avail_bytes", "avail", i)
                      /\ Z[i] = FsSample(f, "node_filesystem_size_bytes", "size", i)
  BY <1>2 DEF FsSamples, FsSample
<1>7. \A i \in 1..p : P[i] = PlainSample(f, i)
  BY <1>2 DEF PlainSamples, PlainSample
<1> HIDE DEF C, A, Z, P, X
<1>8. Len(t) = Len(C) + Len(A) + Len(Z) + Len(P)
  BY <1>1
<1>81. \A i \in 1..Len(C) : t[i] = C[i]
  BY <1>1
<1>82. \A i \in 1..Len(A) : t[Len(C) + i] = A[i]
  BY <1>1
<1>83. \A i \in 1..Len(Z) : t[Len(C) + Len(A) + i] = Z[i]
  BY <1>1
<1>84. \A i \in 1..Len(P) : t[Len(C) + Len(A) + Len(Z) + i] = P[i]
  BY <1>1
<1> HIDE DEF t
<1>10. Len(X) = 3 * n + 2 * q + p
  <2> HIDE DEF n, q, p
  <2> QED BY <1>2, <1>3, <1>4, <1>8
<1>11. \A c \in 1..n : \A o \in 1..3 : X[CpuAt(c, o)] = CpuSample(f, c, o)
  BY <1>4, <1>5, <1>81
<1>12. \A i \in 1..q : X[AvailAt(n, i)] = FsSample(f, "node_filesystem_avail_bytes", "avail", i)
  BY <1>3, <1>4, <1>6, <1>82 DEF AvailAt
<1>13. \A i \in 1..q : X[SizeAt(n, q, i)] = FsSample(f, "node_filesystem_size_bytes", "size", i)
  BY <1>3, <1>4, <1>6, <1>83 DEF SizeAt
<1>14. \A i \in 1..p : X[PlainAt(n, q, i)] = PlainSample(f, i)
  <2> SUFFICES ASSUME NEW i \in 1..p
               PROVE  X[PlainAt(n, q, i)] = PlainSample(f, i)
    OBVIOUS
  <2> HIDE DEF n, q, p
  <2>1. PlainAt(n, q, i) = 3 * n + q + q + i
    BY <1>2 DEF PlainAt
  <2>2. X[3 * n + q + q + i] = P[i]
    BY <1>3, <1>4, <1>84
  <2> QED BY <1>7, <2>1, <2>2
<1> QED BY <1>2, <1>10, <1>11, <1>12, <1>13, <1>14 DEF X

\* Every place belongs to one of the four kinds, and to one of its members.
LEMMA PlacesAre ==
  ASSUME NEW n \in Nat, NEW q \in Nat, NEW p \in Nat
  PROVE  LET N == 3 * n + 2 * q + p
         IN  /\ N \in Nat
             /\ \A c \in 1..n : \A o \in 1..3 : CpuAt(c, o) \in 1..N
             /\ \A i \in 1..q : AvailAt(n, i) \in 1..N /\ SizeAt(n, q, i) \in 1..N
             /\ \A i \in 1..p : PlainAt(n, q, i) \in 1..N
             /\ \A k \in 1..N : \/ \E c \in 1..n : \E o \in 1..3 : k = CpuAt(c, o)
                                \/ \E i \in 1..q : k = AvailAt(n, i)
                                \/ \E i \in 1..q : k = SizeAt(n, q, i)
                                \/ \E i \in 1..p : k = PlainAt(n, q, i)
<1> DEFINE N == 3 * n + 2 * q + p
<1>1. N \in Nat
  OBVIOUS
<1>2. \A c \in 1..n : \A o \in 1..3 : CpuAt(c, o) \in 1..N
  <2> SUFFICES ASSUME NEW c \in 1..n, NEW o \in 1..3
               PROVE  CpuAt(c, o) \in 1..N
    OBVIOUS
  <2>1. CpuAt(c, o) \in 1..(3 * n)
    BY CpuPlaces
  <2> QED BY <2>1
<1>3. \A i \in 1..q : AvailAt(n, i) \in 1..N /\ SizeAt(n, q, i) \in 1..N
  BY DEF AvailAt, SizeAt
<1>4. \A i \in 1..p : PlainAt(n, q, i) \in 1..N
  BY DEF PlainAt
<1>5. ASSUME NEW k \in 1..N
      PROVE  \/ \E c \in 1..n : \E o \in 1..3 : k = CpuAt(c, o)
             \/ \E i \in 1..q : k = AvailAt(n, i)
             \/ \E i \in 1..q : k = SizeAt(n, q, i)
             \/ \E i \in 1..p : k = PlainAt(n, q, i)
  <2>1. CASE k <= 3 * n
    <3>1. k \in 1..(3 * n)
      BY <2>1
    <3> QED BY <3>1, CpuPlaces
  <2>2. CASE 3 * n < k /\ k <= 3 * n + q
    <3>1. k - 3 * n \in 1..q /\ k = AvailAt(n, k - 3 * n)
      BY <2>2 DEF AvailAt
    <3> QED BY <3>1
  <2>3. CASE 3 * n + q < k /\ k <= 3 * n + 2 * q
    <3>1. k - (3 * n + q) \in 1..q /\ k = SizeAt(n, q, k - (3 * n + q))
      BY <2>3 DEF SizeAt
    <3> QED BY <3>1
  <2>4. CASE 3 * n + 2 * q < k
    <3>1. k - (3 * n + 2 * q) \in 1..p /\ k = PlainAt(n, q, k - (3 * n + 2 * q))
      BY <2>4 DEF PlainAt
    <3> QED BY <3>1
  <2> QED BY <2>1, <2>2, <2>3, <2>4
<1> QED BY <1>1, <1>2, <1>3, <1>4, <1>5

\* Everything has been read.
Whole == ReadInv /\ ~ToCome

\* A label of a sample with two labels.
LEMMA LabelRead ==
  ASSUME NEW k1 \in Token, NEW k2 \in Token, k1 # k2, NEW v1, NEW v2, NEW i,
         samples[i].labels = LabelMap(k1, v1, k2, v2)
  PROVE  Label(i, k1) = v1 /\ Label(i, k2) = v2
<1> DEFINE K1 == <<k1>>
           K2 == <<k2>>
<1>1. K1 # K2
  BY One
<1>2. samples[i].labels = [k \in {K1, K2} |-> IF k = K1 THEN v1 ELSE v2]
  BY DEF LabelMap
<1> HIDE DEF K1, K2
<1>3. /\ K1 \in DOMAIN samples[i].labels /\ samples[i].labels[K1] = v1
      /\ K2 \in DOMAIN samples[i].labels /\ samples[i].labels[K2] = v2
  BY <1>1, <1>2
<1> QED BY <1>3 DEF Label, K1, K2

\* What is read of a sample with two labels, and of one without.
LEMMA MeantIs ==
  ASSUME NEW w \in Word, NEW k1 \in Word, NEW k2 \in Word, k1 # k2, NEW v1, NEW v2, NEW v
  PROVE  LET s == Written(w, << <<k1, v1>>, <<k2, v2>> >>, v)
         IN  /\ Meant(s).name = <<w>> /\ Meant(s).value = Number[v]
             /\ Meant(s).labels = LabelMap(k1, v1, k2, v2)
<1> DEFINE l == << <<k1, v1>>, <<k2, v2>> >>
           s == Written(w, l, v)
<1>1. s.name = w /\ s.labels = l /\ s.value = v
  BY DEF Written
<1>2. k1 \in Token /\ k2 \in Token
  BY WordsAreTokens
<1>3. Meant(s).labels = LabelMap(k1, v1, k2, v2)
  <2> HIDE DEF s
  <2> QED BY <1>1, <1>2, MeantLabels
<1>4. Meant(s).name = <<w>> /\ Meant(s).value = Number[v]
  <2> HIDE DEF s
  <2> QED BY <1>1 DEF Meant
<1> QED BY <1>3, <1>4

\* What has been read at each place.
LEMMA SamplesByKind ==
  ASSUME Whole
  PROVE  LET n == Len(facts.cpu)
             q == Len(facts.fs)
             p == Len(facts.plain)
         IN  /\ n \in Nat /\ q \in Nat /\ p \in Nat
             /\ DOMAIN samples = 1..(3 * n + 2 * q + p) /\ Len(samples) = 3 * n + 2 * q + p
             /\ \A c \in 1..n : \A o \in 1..3 :
                   LET s == samples[CpuAt(c, o)]
                   IN  /\ s.name = <<"node_cpu_seconds_total">>
                       /\ s.labels = LabelMap("cpu", facts.cpu[c].id, "mode", <<Mode[o]>>)
                       /\ s.value = Number[facts.cpu[c].seconds[Mode[o]]]
             /\ \A i \in 1..q :
                   LET s == samples[AvailAt(n, i)]
                   IN  /\ s.name = <<"node_filesystem_avail_bytes">>
                       /\ s.labels = LabelMap("device", facts.fs[i].device,
                                              "mountpoint", facts.fs[i].mount)
                       /\ s.value = Number[facts.fs[i].avail]
             /\ \A i \in 1..q :
                   LET s == samples[SizeAt(n, q, i)]
                   IN  /\ s.name = <<"node_filesystem_size_bytes">>
                       /\ s.labels = LabelMap("device", facts.fs[i].device,
                                              "mountpoint", facts.fs[i].mount)
                       /\ s.value = Number[facts.fs[i].size]
             /\ \A i \in 1..p :
                   LET s == samples[PlainAt(n, q, i)]
                   IN  /\ s.name = <<facts.plain[i].name>>
                       /\ s.value = Number[facts.plain[i].value]
<1> DEFINE X == Exported(facts)
           n == Len(facts.cpu)
           q == Len(facts.fs)
           p == Len(facts.plain)
           N == 3 * n + 2 * q + p
<1>1. facts \in Machines \cup {NoFacts}
  BY DEF Whole, ReadInv
<1>2. Len(samples) = Len(X) /\ samples = [i \in 1..Len(X) |-> Meant(X[i])]
      /\ DOMAIN samples = 1..Len(X)
  <2>1. /\ Len(X) \in Nat /\ Len(samples) \in 0..Len(X)
        /\ samples = [i \in 1..Len(samples) |-> Meant(X[i])]
        /\ DOMAIN samples = 1..Len(samples)
    BY SamplesAre DEF Whole
  <2>2. ~(Len(samples) < Len(X))
    BY DEF Whole, ToCome
  <2> HIDE DEF X
  <2>3. Len(samples) = Len(X)
    BY <2>1, <2>2
  <2> QED BY <2>1, <2>3
<1>3. /\ n \in Nat /\ q \in Nat /\ p \in Nat /\ Len(X) = N
      /\ \A c \in 1..n : \A o \in 1..3 : X[CpuAt(c, o)] = CpuSample(facts, c, o)
  BY <1>1, ExportedAt
<1>4. /\ \A i \in 1..q : X[AvailAt(n, i)] =
                            FsSample(facts, "node_filesystem_avail_bytes", "avail", i)
      /\ \A i \in 1..q : X[SizeAt(n, q, i)] =
                            FsSample(facts, "node_filesystem_size_bytes", "size", i)
  BY <1>1, ExportedAt
<1>5. \A i \in 1..p : X[PlainAt(n, q, i)] = PlainSample(facts, i)
  BY <1>1, ExportedAt
<1> HIDE DEF X, n, q, p
<1>6. /\ \A c \in 1..n : \A o \in 1..3 : CpuAt(c, o) \in 1..N
      /\ \A i \in 1..q : AvailAt(n, i) \in 1..N /\ SizeAt(n, q, i) \in 1..N
      /\ \A i \in 1..p : PlainAt(n, q, i) \in 1..N
  BY <1>3, PlacesAre
<1> HIDE DEF N
<1>7. \A k \in 1..N : samples[k] = Meant(X[k])
  BY <1>2, <1>3
<1>8. ASSUME NEW c \in 1..n, NEW o \in 1..3
      PROVE  LET s == samples[CpuAt(c, o)]
             IN  /\ s.name = <<"node_cpu_seconds_total">>
                 /\ s.labels = LabelMap("cpu", facts.cpu[c].id, "mode", <<Mode[o]>>)
                 /\ s.value = Number[facts.cpu[c].seconds[Mode[o]]]
  <2>1. samples[CpuAt(c, o)] = Meant(CpuSample(facts, c, o))
    BY <1>3, <1>6, <1>7
  <2> DEFINE v1 == facts.cpu[c].id
             v2 == <<Mode[o]>>
             v == facts.cpu[c].seconds[Mode[o]]
             s == Written("node_cpu_seconds_total", << <<"cpu", v1>>, <<"mode", v2>> >>, v)
  <2>2. samples[CpuAt(c, o)] = Meant(s)
    BY <2>1 DEF CpuSample
  <2> HIDE DEF v1, v2, v
  <2>3. /\ "node_cpu_seconds_total" \in Word /\ "cpu" \in Word /\ "mode" \in Word
        /\ "cpu" # "mode"
    BY WordsAre
  <2>4. /\ Meant(s).name = <<"node_cpu_seconds_total">> /\ Meant(s).value = Number[v]
        /\ Meant(s).labels = LabelMap("cpu", v1, "mode", v2)
    BY <2>3, MeantIs
  <2> HIDE DEF s
  <2> QED BY <2>2, <2>4 DEF v1, v2, v
<1>9. ASSUME NEW i \in 1..q
      PROVE  LET s == samples[AvailAt(n, i)]
             IN  /\ s.name = <<"node_filesystem_avail_bytes">>
                 /\ s.labels = LabelMap("device", facts.fs[i].device,
                                        "mountpoint", facts.fs[i].mount)
                 /\ s.value = Number[facts.fs[i].avail]
  <2>1. samples[AvailAt(n, i)] =
           Meant(FsSample(facts, "node_filesystem_avail_bytes", "avail", i))
    BY <1>4, <1>6, <1>7
  <2>2. facts.fs[i]["avail"] = facts.fs[i].avail /\ "device" # "mountpoint"
    OBVIOUS
  <2> QED BY <2>1, <2>2, MeantIs, WordsAre DEF FsSample
<1>10. ASSUME NEW i \in 1..q
       PROVE  LET s == samples[SizeAt(n, q, i)]
              IN  /\ s.name = <<"node_filesystem_size_bytes">>
                  /\ s.labels = LabelMap("device", facts.fs[i].device,
                                         "mountpoint", facts.fs[i].mount)
                  /\ s.value = Number[facts.fs[i].size]
  <2>1. samples[SizeAt(n, q, i)] =
           Meant(FsSample(facts, "node_filesystem_size_bytes", "size", i))
    BY <1>4, <1>6, <1>7
  <2>2. facts.fs[i]["size"] = facts.fs[i].size /\ "device" # "mountpoint"
    OBVIOUS
  <2> QED BY <2>1, <2>2, MeantIs, WordsAre DEF FsSample
<1>11. ASSUME NEW i \in 1..p
       PROVE  LET s == samples[PlainAt(n, q, i)]
              IN  /\ s.name = <<facts.plain[i].name>>
                  /\ s.value = Number[facts.plain[i].value]
  <2>1. samples[PlainAt(n, q, i)] = Meant(PlainSample(facts, i))
    BY <1>5, <1>6, <1>7
  <2> QED BY <2>1 DEF PlainSample, Written, Meant
<1>12. DOMAIN samples = 1..N /\ Len(samples) = N
  BY <1>2, <1>3
<1> QED BY <1>3, <1>8, <1>9, <1>10, <1>11, <1>12 DEF N, n, q, p

\* The samples of each family.
LEMMA NamedAre ==
  ASSUME Whole
  PROVE  LET n == Len(facts.cpu)
             q == Len(facts.fs)
             p == Len(facts.plain)
         IN  /\ \A k : k \in Named("node_cpu_seconds_total")
                          <=> \E c \in 1..n : \E o \in 1..3 : k = CpuAt(c, o)
             /\ \A k : k \in Named("node_filesystem_avail_bytes")
                          <=> \E i \in 1..q : k = AvailAt(n, i)
             /\ \A k : k \in Named("node_filesystem_size_bytes")
                          <=> \E i \in 1..q : k = SizeAt(n, q, i)
             /\ \A w \in Plain : \A k :
                   k \in Named(w)
                      <=> \E i \in 1..p : k = PlainAt(n, q, i) /\ facts.plain[i].name = w
<1> DEFINE n == Len(facts.cpu)
           q == Len(facts.fs)
           p == Len(facts.plain)
           N == 3 * n + 2 * q + p
           cpu == "node_cpu_seconds_total"
           avail == "node_filesystem_avail_bytes"
           size == "node_filesystem_size_bytes"
<1>1. /\ n \in Nat /\ q \in Nat /\ p \in Nat
      /\ DOMAIN samples = 1..N
  BY SamplesByKind
<1>2. \A c \in 1..n : \A o \in 1..3 : samples[CpuAt(c, o)].name = <<cpu>>
  BY SamplesByKind
<1>3. \A i \in 1..q : samples[AvailAt(n, i)].name = <<avail>>
  BY SamplesByKind
<1>4. \A i \in 1..q : samples[SizeAt(n, q, i)].name = <<size>>
  BY SamplesByKind
<1>5. \A i \in 1..p : samples[PlainAt(n, q, i)].name = <<facts.plain[i].name>>
  BY SamplesByKind
<1>6. \A i \in 1..p : facts.plain[i].name \in Plain
  <2>1. facts.plain \in Seq(Family)
    BY FactsAre DEF Whole, ReadInv
  <2>2. \A i \in 1..p : facts.plain[i] \in Family
    BY <2>1
  <2> QED BY <2>2 DEF Family
<1>7. /\ cpu # avail /\ cpu # size /\ avail # size
      /\ cpu \notin Plain /\ avail \notin Plain /\ size \notin Plain
  BY DEF Plain
<1> HIDE DEF n, q, p, cpu, avail, size
<1>8. /\ \A c \in 1..n : \A o \in 1..3 : CpuAt(c, o) \in 1..N
      /\ \A i \in 1..q : AvailAt(n, i) \in 1..N /\ SizeAt(n, q, i) \in 1..N
      /\ \A i \in 1..p : PlainAt(n, q, i) \in 1..N
      /\ \A k \in 1..N : \/ \E c \in 1..n : \E o \in 1..3 : k = CpuAt(c, o)
                         \/ \E i \in 1..q : k = AvailAt(n, i)
                         \/ \E i \in 1..q : k = SizeAt(n, q, i)
                         \/ \E i \in 1..p : k = PlainAt(n, q, i)
  BY <1>1, PlacesAre
<1>9. \A v, w : <<v>> = <<w>> <=> v = w
  OBVIOUS
<1> HIDE DEF N
<1>10. \A w, k : k \in Named(w) <=> k \in 1..N /\ samples[k].name = <<w>>
  BY <1>1 DEF Named
<1>11. \A k : k \in Named(cpu) <=> \E c \in 1..n : \E o \in 1..3 : k = CpuAt(c, o)
  BY <1>2, <1>3, <1>4, <1>5, <1>6, <1>7, <1>8, <1>9, <1>10
<1>12. \A k : k \in Named(avail) <=> \E i \in 1..q : k = AvailAt(n, i)
  BY <1>2, <1>3, <1>4, <1>5, <1>6, <1>7, <1>8, <1>9, <1>10
<1>13. \A k : k \in Named(size) <=> \E i \in 1..q : k = SizeAt(n, q, i)
  BY <1>2, <1>3, <1>4, <1>5, <1>6, <1>7, <1>8, <1>9, <1>10
<1>14. \A w \in Plain : \A k :
          k \in Named(w) <=> \E i \in 1..p : k = PlainAt(n, q, i) /\ facts.plain[i].name = w
  BY <1>2, <1>3, <1>4, <1>5, <1>6, <1>7, <1>8, <1>9, <1>10
<1> QED BY <1>11, <1>12, <1>13, <1>14 DEF n, q, p, cpu, avail, size

\* The samples of the root filesystems.
LEMMA RootSamples ==
  ASSUME Whole
  PROVE  LET n == Len(facts.cpu)
             q == Len(facts.fs)
         IN  /\ n \in Nat /\ q \in Nat /\ Roots \in SUBSET (1..q)
             /\ \A k : k \in With("node_filesystem_avail_bytes", "mountpoint", Slash)
                          <=> \E i \in Roots : k = AvailAt(n, i)
             /\ \A k : k \in With("node_filesystem_size_bytes", "mountpoint", Slash)
                          <=> \E i \in Roots : k = SizeAt(n, q, i)
<1> DEFINE n == Len(facts.cpu)
           q == Len(facts.fs)
<1>1. n \in Nat /\ q \in Nat /\ DOMAIN facts.fs = 1..q
  <2>1. facts \in Machines \cup {NoFacts}
    BY DEF Whole, ReadInv
  <2>2. facts.fs \in Seq(Filesystem)
    BY <2>1, FactsAre
  <2>3. n \in Nat /\ q \in Nat
    BY SamplesByKind
  <2> QED BY <2>2, <2>3
<1>2. /\ \A k : k \in Named("node_filesystem_avail_bytes")
                   <=> \E i \in 1..q : k = AvailAt(n, i)
      /\ \A k : k \in Named("node_filesystem_size_bytes")
                   <=> \E i \in 1..q : k = SizeAt(n, q, i)
  BY NamedAre
<1>3. \A i \in 1..q : /\ samples[AvailAt(n, i)].labels =
                            LabelMap("device", facts.fs[i].device, "mountpoint", facts.fs[i].mount)
                      /\ samples[SizeAt(n, q, i)].labels =
                            LabelMap("device", facts.fs[i].device, "mountpoint", facts.fs[i].mount)
  BY SamplesByKind
<1> HIDE DEF n, q
<1>4. "device" \in Token /\ "mountpoint" \in Token /\ "device" # "mountpoint"
  BY WordsAre, WordsAreTokens
<1>5. \A i \in 1..q : /\ Label(AvailAt(n, i), "mountpoint") = facts.fs[i].mount
                      /\ Label(SizeAt(n, q, i), "mountpoint") = facts.fs[i].mount
  BY <1>3, <1>4, LabelRead
<1>6. \A i : i \in Roots <=> i \in 1..q /\ facts.fs[i].mount = <<Slash>>
  BY <1>1 DEF Roots
<1>7. \A k : k \in With("node_filesystem_avail_bytes", "mountpoint", Slash)
                <=> \E i \in Roots : k = AvailAt(n, i)
  BY <1>2, <1>5, <1>6 DEF With
<1>8. \A k : k \in With("node_filesystem_size_bytes", "mountpoint", Slash)
                <=> \E i \in Roots : k = SizeAt(n, q, i)
  BY <1>2, <1>5, <1>6 DEF With
<1> QED BY <1>1, <1>6, <1>7, <1>8 DEF n, q

\* The samples of a mode.
LEMMA ModeSamples ==
  ASSUME Whole
  PROVE  LET n == Len(facts.cpu)
         IN  /\ \A mode, k : k \in Cpu(mode)
                   <=> \E c \in 1..n : \E o \in 1..3 : Mode[o] = mode /\ k = CpuAt(c, o)
             /\ \A c \in 1..n : \A o \in 1..3 : Label(CpuAt(c, o), "cpu") = facts.cpu[c].id
<1> DEFINE n == Len(facts.cpu)
<1>1. \A k : k \in Named("node_cpu_seconds_total")
                <=> \E c \in 1..n : \E o \in 1..3 : k = CpuAt(c, o)
  BY NamedAre
<1>2. \A c \in 1..n : \A o \in 1..3 :
         samples[CpuAt(c, o)].labels = LabelMap("cpu", facts.cpu[c].id, "mode", <<Mode[o]>>)
  BY SamplesByKind
<1> HIDE DEF n
<1>3. "cpu" \in Token /\ "mode" \in Token /\ "cpu" # "mode"
  BY WordsAre, WordsAreTokens
<1>4. \A c \in 1..n : \A o \in 1..3 : /\ Label(CpuAt(c, o), "cpu") = facts.cpu[c].id
                                      /\ Label(CpuAt(c, o), "mode") = <<Mode[o]>>
  BY <1>2, <1>3, LabelRead
<1>5. \A v, w : <<v>> = <<w>> <=> v = w
  OBVIOUS
<1>6. \A mode, k : k \in Cpu(mode)
         <=> \E c \in 1..n : \E o \in 1..3 : Mode[o] = mode /\ k = CpuAt(c, o)
  BY <1>1, <1>4, <1>5 DEF Cpu, With
<1> QED BY <1>4, <1>6 DEF n
-----------------------------------------------------------------------------
(* What is reported of a machine. *)

\* The first of some samples is the one at the lowest place.
LEMMA FirstOfIs ==
  ASSUME NEW rows \in SUBSET Int, NEW x \in rows, \A y \in rows : x <= y, NEW name
  PROVE  FirstOf(name, rows) = {Metric(name, samples[x].value)}
<1>1. Min(rows) = x /\ rows # {}
  BY MinIs
<1> QED BY <1>1 DEF FirstOf

\* Size and available space are those of the first root filesystem.
LEMMA DiskIs ==
  ASSUME Whole
  PROVE  LET size == FirstOf("filesystem_size_bytes",
                             With("node_filesystem_size_bytes", "mountpoint", Slash))
             avail == FirstOf("filesystem_avail_bytes",
                              With("node_filesystem_avail_bytes", "mountpoint", Slash))
         IN  /\ Roots = {} => size = {} /\ avail = {}
             /\ Roots # {} =>
                   \E i \in Roots :
                      /\ size = {Metric("filesystem_size_bytes", Number[facts.fs[i].size])}
                      /\ avail = {Metric("filesystem_avail_bytes", Number[facts.fs[i].avail])}
<1> DEFINE n == Len(facts.cpu)
           q == Len(facts.fs)
           A == With("node_filesystem_avail_bytes", "mountpoint", Slash)
           Z == With("node_filesystem_size_bytes", "mountpoint", Slash)
<1>1. /\ n \in Nat /\ q \in Nat /\ Roots \in SUBSET (1..q)
      /\ \A k : k \in A <=> \E i \in Roots : k = AvailAt(n, i)
      /\ \A k : k \in Z <=> \E i \in Roots : k = SizeAt(n, q, i)
  BY RootSamples
<1>2. /\ \A i \in 1..q : samples[AvailAt(n, i)].value = Number[facts.fs[i].avail]
      /\ \A i \in 1..q : samples[SizeAt(n, q, i)].value = Number[facts.fs[i].size]
  BY SamplesByKind
<1> HIDE DEF n, q, A, Z
<1>3. CASE Roots = {}
  <2>1. A = {} /\ Z = {}
    BY <1>1, <1>3
  <2> QED BY <1>3, <2>1 DEF FirstOf, A, Z
<1>4. CASE Roots # {}
  <2>1. PICK i \in Roots : \A j \in Roots : i <= j
    <3>1. Roots \in SUBSET Nat
      BY <1>1
    <3> QED BY <1>4, <3>1, Least
  <2> DEFINE a == AvailAt(n, i)
             z == SizeAt(n, q, i)
  <2>2. i \in 1..q /\ a \in A /\ z \in Z
    BY <1>1, <2>1
  <2>3. \A j \in 1..q : i <= j => a <= AvailAt(n, j) /\ z <= SizeAt(n, q, j)
    BY <1>1, <2>2 DEF AvailAt, SizeAt
  <2>4. A \in SUBSET Int /\ Z \in SUBSET Int
    <3>1. \A j \in 1..q : AvailAt(n, j) \in Int /\ SizeAt(n, q, j) \in Int
      BY <1>1 DEF AvailAt, SizeAt
    <3> QED BY <1>1, <3>1
  <2> HIDE DEF a, z
  <2>5. (\A k \in A : a <= k) /\ (\A k \in Z : z <= k)
    BY <1>1, <2>1, <2>3
  <2>6. /\ FirstOf("filesystem_size_bytes", Z) = {Metric("filesystem_size_bytes", samples[z].value)}
        /\ FirstOf("filesystem_avail_bytes", A) = {Metric("filesystem_avail_bytes", samples[a].value)}
    BY <2>2, <2>4, <2>5, FirstOfIs
  <2>7. samples[a].value = Number[facts.fs[i].avail] /\ samples[z].value = Number[facts.fs[i].size]
    BY <1>2, <2>2 DEF a, z
  <2> QED BY <1>4, <2>6, <2>7 DEF A, Z
<1> QED BY <1>3, <1>4 DEF A, Z

\* An unlabelled family has one sample.
LEMMA PlainIs ==
  ASSUME Whole, NEW i \in DOMAIN facts.plain, NEW name
  PROVE  /\ facts.plain[i].name \in Plain /\ Number[facts.plain[i].value] \in Nat
         /\ FirstOf(name, Named(facts.plain[i].name)) =
               {Metric(name, Number[facts.plain[i].value])}
<1> DEFINE n == Len(facts.cpu)
           q == Len(facts.fs)
           p == Len(facts.plain)
           w == facts.plain[i].name
           x == PlainAt(n, q, i)
<1>1. /\ facts.plain \in Seq(Family) /\ DOMAIN facts.plain = 1..p
      /\ \A j \in 1..p : facts.plain[j].name = w => j = i
  BY FactsAre DEF Whole, ReadInv
<1>2. facts.plain[i] \in Family
  BY <1>1
<1>3. w \in Plain /\ Number[facts.plain[i].value] \in Nat
  BY <1>2, NumberAssumption DEF Family
<1>4. n \in Nat /\ q \in Nat /\ p \in Nat
  BY SamplesByKind
<1>5. \A k : k \in Named(w) <=> \E j \in 1..p : k = PlainAt(n, q, j) /\ facts.plain[j].name = w
  BY <1>3, NamedAre
<1>6. samples[x].value = Number[facts.plain[i].value]
  BY <1>1, SamplesByKind
<1> HIDE DEF n, q, p, w
<1>7. Named(w) = {x} /\ x \in Int
  <2>1. x \in Int
    BY <1>1, <1>4 DEF PlainAt
  <2> HIDE DEF x
  <2>2. \A k : k \in Named(w) <=> k = x
    BY <1>1, <1>5 DEF x, w
  <2> QED BY <2>1, <2>2
<1> HIDE DEF x
<1>8. FirstOf(name, Named(w)) = {Metric(name, samples[x].value)}
  <2>1. Named(w) \in SUBSET Int /\ x \in Named(w) /\ \A y \in Named(w) : x <= y
    BY <1>7
  <2> QED BY <2>1, FirstOfIs
<1> QED BY <1>3, <1>6, <1>8 DEF w

\* The seconds of a mode are added up over the cores.
LEMMA SecondsAre ==
  ASSUME Whole, NEW r \in 1..3
  PROVE  Total(Seconds(Mode[r])) =
            Total([i \in DOMAIN facts.cpu |-> Number[facts.cpu[i].seconds[Mode[r]]]])
<1> DEFINE n == Len(facts.cpu)
           N == 3 * n + 2 * Len(facts.fs) + Len(facts.plain)
           mode == Mode[r]
           v == Seconds(mode)
           u == [i \in DOMAIN facts.cpu |-> Number[facts.cpu[i].seconds[mode]]]
<1>1. /\ n \in Nat /\ N \in Nat /\ DOMAIN samples = 1..N /\ 3 * n <= N
  <2>1. /\ n \in Nat /\ Len(facts.fs) \in Nat /\ Len(facts.plain) \in Nat
        /\ DOMAIN samples = 1..N
    BY SamplesByKind
  <2> DEFINE q == Len(facts.fs)
             p == Len(facts.plain)
  <2>2. n \in Nat /\ q \in Nat /\ p \in Nat
    BY <2>1
  <2> HIDE DEF n, q, p
  <2>3. 3 * n + 2 * q + p \in Nat /\ 3 * n <= 3 * n + 2 * q + p
    BY <2>2
  <2> QED BY <2>1, <2>3 DEF q, p
<1>2. facts.cpu \in Seq(Core) /\ DOMAIN facts.cpu = 1..n
  BY FactsAre DEF Whole, ReadInv
<1>3. \A c \in 1..n : \A o \in 1..3 :
         samples[CpuAt(c, o)].value = Number[facts.cpu[c].seconds[Mode[o]]]
  BY SamplesByKind
<1>4. \A k : k \in Cpu(mode) <=> \E c \in 1..n : \E o \in 1..3 : Mode[o] = mode /\ k = CpuAt(c, o)
  BY ModeSamples
<1>17. \A c \in 1..n : facts.cpu[c] \in Core
  BY <1>2
<1> HIDE DEF n, N
<1>5. \A o \in 1..3 : Mode[o] = mode <=> o = r
  BY DEF Mode
<1>6. mode \in ToSet(Mode)
  <2>1. DOMAIN Mode = 1..3
    BY DEF Mode
  <2> QED BY <2>1 DEF ToSet
<1> HIDE DEF mode
<1>7. \A c \in 1..n : u[c] = Number[facts.cpu[c].seconds[mode]] /\ u[c] \in Nat
  <2> SUFFICES ASSUME NEW c \in 1..n
               PROVE  u[c] = Number[facts.cpu[c].seconds[mode]] /\ u[c] \in Nat
    OBVIOUS
  <2>1. facts.cpu[c] \in Core
    BY <1>17
  <2>2. facts.cpu[c].seconds[mode] \in DOMAIN Number
    BY <1>6, <2>1 DEF Core
  <2> QED BY <1>2, <2>2, NumberAssumption
<1>8. DOMAIN u = 1..n /\ u \in Seq(Nat) /\ Len(u) = n
  <2>1. u \in [1..n -> Nat]
    BY <1>2, <1>7
  <2> HIDE DEF u
  <2> QED BY <1>1, <2>1
<1>9. \A k \in 1..N : v[k] = IF k \in Cpu(mode) THEN samples[k].value ELSE 0
  BY <1>1 DEF Seconds
<1>10. \A c \in 1..n : \A o \in 1..3 : CpuAt(c, o) \in 1..N /\ CpuAt(c, o) <= 3 * n
  <2>1. \A c \in 1..n : \A o \in 1..3 : CpuAt(c, o) \in 1..(3 * n)
    BY <1>1, CpuPlaces
  <2> QED BY <1>1, <2>1
<1>11. \A c \in 1..n : \A o \in 1..3 : CpuAt(c, o) \in Cpu(mode) <=> o = r
  <2>1. ASSUME NEW c \in 1..n, NEW o \in 1..3, CpuAt(c, o) \in Cpu(mode)
        PROVE  o = r
    <3>1. PICK d \in 1..n : CpuAt(c, o) = CpuAt(d, r)
      BY <1>4, <1>5, <2>1
    <3> QED BY <1>1, <3>1 DEF CpuAt
  <2>2. \A c \in 1..n : CpuAt(c, r) \in Cpu(mode)
    BY <1>4, <1>5
  <2> QED BY <2>1, <2>2
<1>12. \A c \in 1..n : v[CpuAt(c, r)] = u[c]
  <2> HIDE DEF v, u
  <2> SUFFICES ASSUME NEW c \in 1..n
               PROVE  v[CpuAt(c, r)] = u[c]
    OBVIOUS
  <2>1. v[CpuAt(c, r)] = samples[CpuAt(c, r)].value
    BY <1>9, <1>10, <1>11
  <2>2. samples[CpuAt(c, r)].value = Number[facts.cpu[c].seconds[mode]]
    BY <1>3 DEF mode
  <2> QED BY <1>7, <2>1, <2>2
<1>13. \A c \in 1..n : \A o \in 1..3 : o # r => v[CpuAt(c, o)] = 0
  BY <1>9, <1>10, <1>11
<1>14. \A k \in 1..N : k > 3 * n => v[k] = 0
  <2> HIDE DEF v
  <2> SUFFICES ASSUME NEW k \in 1..N, k > 3 * n
               PROVE  v[k] = 0
    OBVIOUS
  <2>1. k \notin Cpu(mode)
    BY <1>1, <1>4, <1>10
  <2> QED BY <1>9, <2>1
<1>15. Len(v) = N
  <2>1. DOMAIN v = 1..N
    BY <1>1 DEF Seconds
  <2> HIDE DEF v
  <2> QED BY <1>1, <2>1
<1> HIDE DEF v, u
<1>16. Total(v) = Total(u)
  <2>1. /\ Len(v) \in Nat /\ Len(u) \in Nat /\ 3 * Len(u) <= Len(v)
        /\ \A c \in 1..Len(u) : u[c] \in Nat
    BY <1>1, <1>7, <1>8, <1>15
  <2>2. \A c \in 1..Len(u) : v[3 * (c - 1) + r] = u[c]
    BY <1>8, <1>12 DEF CpuAt
  <2>3. \A c \in 1..Len(u) : \A o \in 1..3 : o # r => v[3 * (c - 1) + o] = 0
    BY <1>8, <1>13 DEF CpuAt
  <2>4. \A k \in 1..Len(v) : k > 3 * Len(u) => v[k] = 0
    BY <1>8, <1>14, <1>15
  <2> QED BY <2>1, <2>2, <2>3, <2>4, RoundsAddUp
<1> QED BY <1>16 DEF v, u, mode
\* Every sample has a number.
LEMMA ValuesAreNumbers ==
  ASSUME Whole
  PROVE  \A k \in DOMAIN samples : samples[k].value \in Nat
<1> DEFINE X == Exported(facts)
<1>1. DOMAIN samples = 1..Len(samples) /\ Len(samples) \in 0..Len(X) /\ Len(X) \in Nat
      /\ samples = [k \in 1..Len(samples) |-> Meant(X[k])]
  BY SamplesAre DEF Whole
<1>2. X \in Seq(Sample)
  BY ExportedIsWritten DEF Whole, ReadInv
<1> HIDE DEF X
<1>3. ASSUME NEW k \in DOMAIN samples
      PROVE  samples[k].value \in Nat
  <2>1. k \in 1..Len(X) /\ k \in 1..Len(samples)
    BY <1>1
  <2>2. X[k] \in Sample
    BY <1>2, <2>1
  <2>3. Number[X[k].value] \in Nat
    BY <2>2, NumberAssumption DEF Sample
  <2>4. samples[k] = Meant(X[k])
    BY <1>1, <2>1
  <2> QED BY <2>3, <2>4 DEF Meant
<1> QED BY <1>3

\* FirstOf gives one metric at most, and a natural number.
LEMMA FirstOfShape ==
  ASSUME NEW name, NEW rows
  PROVE  \A m, d \in FirstOf(name, rows) : m.name = name /\ m = d
BY DEF FirstOf, Metric

LEMMA FirstOfNumber ==
  ASSUME Whole, NEW name, NEW rows \in SUBSET DOMAIN samples
  PROVE  \A m \in FirstOf(name, rows) : m.value \in Nat
<1> SUFFICES ASSUME NEW m \in FirstOf(name, rows)
             PROVE  m.value \in Nat
  OBVIOUS
<1>1. rows # {} /\ m = Metric(name, samples[Min(rows)].value)
  BY DEF FirstOf
<1>2. rows \in SUBSET Nat
  BY SamplesAre DEF Whole
<1>3. Min(rows) \in rows
  BY <1>1, <1>2, MinOf
<1> QED BY <1>1, <1>3, ValuesAreNumbers DEF Metric

\* The total of a mode is a natural number.
LEMMA TotalsAreNumbers ==
  ASSUME Whole, NEW mode
  PROVE  Total(Seconds(mode)) \in Nat
<1> DEFINE v == Seconds(mode)
           N == Len(samples)
<1>1. DOMAIN samples = 1..N /\ N \in Nat
  BY SamplesAre DEF Whole
<1>2. DOMAIN v = 1..N /\ \A k \in 1..N : v[k] \in Nat
  BY <1>1, ValuesAreNumbers DEF Seconds
<1> HIDE DEF v, N
<1>3. v \in [1..N -> Nat] \/ v # [k \in 1..N |-> v[k]]
  BY <1>2
<1>4. v = [k \in 1..N |-> v[k]]
  BY <1>1 DEF v, Seconds
<1>5. Len(v) = N
  BY <1>1, <1>3, <1>4
<1>6. Total(v) \in Nat
  BY <1>1, <1>2, <1>5, TotalIsNumber
<1> QED BY <1>6 DEF v

\* The cores are counted by their names.
LEMMA CoresAre ==
  ASSUME Whole
  PROVE  CoreMetrics = IF facts.cpu = <<>> THEN {} ELSE {Metric("cpu_cores", Len(facts.cpu))}
<1> DEFINE n == Len(facts.cpu)
           ids == {Label(i, "cpu") : i \in Cpu("idle")}
           f == [c \in 1..n |-> facts.cpu[c].id]
<1>1. /\ facts.cpu \in Seq(Core) /\ DOMAIN facts.cpu = 1..n /\ n \in Nat
      /\ \A c, d \in 1..n : facts.cpu[c].id = facts.cpu[d].id => c = d
      /\ facts.cpu = <<>> <=> n = 0
  BY FactsAre DEF Whole, ReadInv
<1>2. \A k : k \in Cpu("idle")
         <=> \E c \in 1..n : \E o \in 1..3 : Mode[o] = "idle" /\ k = CpuAt(c, o)
  BY ModeSamples
<1>3. \A c \in 1..n : \A o \in 1..3 : Label(CpuAt(c, o), "cpu") = facts.cpu[c].id
  BY ModeSamples
<1>4. 1 \in 1..3 /\ Mode[1] = "idle"
  BY DEF Mode
<1> HIDE DEF n
<1>5. \A x : x \in ids <=> \E c \in 1..n : x = facts.cpu[c].id
  BY <1>2, <1>3, <1>4
<1> HIDE DEF ids
<1>6. f \in Bijection(1..n, ids)
  <2>1. f \in [1..n -> ids] /\ \A c \in 1..n : f[c] = facts.cpu[c].id
    BY <1>5
  <2>2. DOMAIN f = 1..n
    OBVIOUS
  <2> HIDE DEF f
  <2>3. f \in Injection(1..n, ids)
    BY <1>1, <2>1 DEF Injection, IsInjective
  <2>4. \A x \in ids : \E c \in 1..n : f[c] = x
    BY <1>5, <2>1
  <2>5. f \in Surjection(1..n, ids)
    BY <2>1, <2>4 DEF Surjection
  <2> QED BY <2>3, <2>5 DEF Bijection
<1>7. IsFiniteSet(1..n) /\ Cardinality(1..n) = n
  BY <1>1, FS_Interval
<1>8. Cardinality(ids) = n
  BY <1>6, <1>7, FS_Bijection DEF ExistsBijection
<1>9. ids = {} <=> n = 0
  <2>1. CASE n = 0
    <3>1. 1..n = {}
      BY <2>1
    <3> QED BY <1>5, <2>1, <3>1
  <2>2. CASE n # 0
    <3>1. 1 \in 1..n
      BY <1>1, <2>2
    <3> QED BY <1>5, <2>2, <3>1
  <2> QED BY <2>1, <2>2
<1>10. CoreMetrics = IF ids = {} THEN {} ELSE {Metric("cpu_cores", Cardinality(ids))}
  BY DEF CoreMetrics, ids
<1> QED BY <1>1, <1>8, <1>9, <1>10 DEF n

\* A machine with cores has samples of its modes.
LEMMA CpuIs ==
  ASSUME Whole, facts.cpu # <<>>, NEW mode \in {"idle", "user"}
  PROVE  /\ Cpu(mode) # {}
         /\ Total(Seconds(mode)) =
               Total([i \in DOMAIN facts.cpu |-> Number[facts.cpu[i].seconds[mode]]])
<1>1. PICK r \in 1..3 : Mode[r] = mode
  BY DEF Mode
<1>2. 1 \in 1..Len(facts.cpu)
  BY FactsAre DEF Whole, ReadInv
<1>3. Cpu(mode) # {}
  <2> DEFINE n == Len(facts.cpu)
  <2>1. \A k : k \in Cpu(mode)
           <=> \E c \in 1..n : \E o \in 1..3 : Mode[o] = mode /\ k = CpuAt(c, o)
    BY ModeSamples
  <2>2. 1 \in 1..n
    BY <1>2
  <2> HIDE DEF n
  <2>3. CpuAt(1, r) \in Cpu(mode)
    BY <1>1, <2>1, <2>2
  <2> QED BY <2>3
<1>4. Total(Seconds(Mode[r])) =
         Total([i \in DOMAIN facts.cpu |-> Number[facts.cpu[i].seconds[Mode[r]]]])
  BY SecondsAre
<1> QED BY <1>1, <1>3, <1>4-----------------------------------------------------------------------------
(* Extract, metric by metric. *)

LoadMetric == FirstOf("load_average_1m", Named("node_load1"))
MemoryMetric == FirstOf("memory_total_bytes", Named("node_memory_MemTotal_bytes"))
SizeMetric ==
  FirstOf("filesystem_size_bytes", With("node_filesystem_size_bytes", "mountpoint", Slash))
AvailMetric ==
  FirstOf("filesystem_avail_bytes", With("node_filesystem_avail_bytes", "mountpoint", Slash))

CpuNames == {"cpu_user_seconds_total", "cpu_system_seconds_total",
             "cpu_idle_seconds_total", "cpu_iowait_seconds_total"}

\* One metric for each mode that has samples, each with a name of its own.
LEMMA CpuMetricsAre ==
  /\ \A m : m \in CpuMetrics <=>
        \E mode \in {"user", "system", "idle", "iowait"} :
           Cpu(mode) # {} /\ m = Metric(CpuMetric[mode], Total(Seconds(mode)))
  /\ \A mode, mood \in {"user", "system", "idle", "iowait"} :
        CpuMetric[mode] \in CpuNames /\ (CpuMetric[mode] = CpuMetric[mood] => mode = mood)
<1>1. DOMAIN CpuMetric = {"user", "system", "idle", "iowait"}
  BY DEF CpuMetric
<1>2. /\ CpuMetric["user"] = "cpu_user_seconds_total"
      /\ CpuMetric["system"] = "cpu_system_seconds_total"
      /\ CpuMetric["idle"] = "cpu_idle_seconds_total"
      /\ CpuMetric["iowait"] = "cpu_iowait_seconds_total"
  BY DEF CpuMetric
<1>3. \A m : m \in CpuMetrics <=>
         \E mode \in {"user", "system", "idle", "iowait"} :
            Cpu(mode) # {} /\ m = Metric(CpuMetric[mode], Total(Seconds(mode)))
  BY <1>1 DEF CpuMetrics
<1>4. \A mode, mood \in {"user", "system", "idle", "iowait"} :
         CpuMetric[mode] \in CpuNames /\ (CpuMetric[mode] = CpuMetric[mood] => mode = mood)
  BY <1>2 DEF CpuNames
<1> QED BY <1>3, <1>4

\* There is one uptime at most.
LEMMA UptimeShape ==
  \A m, d \in UptimeMetrics : m.name = "uptime_seconds" /\ m = d
<1> DEFINE boots == FirstOf("", Named("node_boot_time_seconds"))
<1>1. \A b, c \in boots : b = c
  BY FirstOfShape
<1> HIDE DEF boots
<1>2. \A m \in UptimeMetrics :
         \E b \in boots : Time - b.value > 0 /\ m = Metric("uptime_seconds", Time - b.value)
  BY DEF UptimeMetrics, boots
<1>3. \A v : Metric("uptime_seconds", v).name = "uptime_seconds"
  BY DEF Metric
<1> QED BY <1>1, <1>2, <1>3

\* No two metrics share a name, and a name tells where its metric comes from.
LEMMA ExtractIs ==
  ASSUME Whole
  PROVE  /\ \A m, d \in Extract : m.name = d.name => m = d
         /\ \A m : m \in Extract /\ m.name = "load_average_1m" <=> m \in LoadMetric
         /\ \A m : m \in Extract /\ m.name = "memory_total_bytes" <=> m \in MemoryMetric
         /\ \A m : m \in Extract /\ m.name = "cpu_cores" <=> m \in CoreMetrics
         /\ \A m : m \in Extract /\ m.name = "filesystem_size_bytes" <=> m \in SizeMetric
         /\ \A m : m \in Extract /\ m.name = "filesystem_avail_bytes" <=> m \in AvailMetric
         /\ \A m : m \in Extract /\ m.name = "uptime_seconds" <=> m \in UptimeMetrics
         /\ \A m : m \in Extract /\ m.name \in CpuNames <=> m \in CpuMetrics
<1>1. \A m : m \in Extract <=> \/ m \in LoadMetric \/ m \in MemoryMetric \/ m \in CpuMetrics
                               \/ m \in CoreMetrics \/ m \in SizeMetric \/ m \in AvailMetric
                               \/ m \in UptimeMetrics
  BY DEF Extract, SimpleMetrics, DiskMetrics, LoadMetric, MemoryMetric, SizeMetric, AvailMetric
<1>2. /\ \A m, d \in LoadMetric : m.name = "load_average_1m" /\ m = d
      /\ \A m, d \in MemoryMetric : m.name = "memory_total_bytes" /\ m = d
      /\ \A m, d \in SizeMetric : m.name = "filesystem_size_bytes" /\ m = d
      /\ \A m, d \in AvailMetric : m.name = "filesystem_avail_bytes" /\ m = d
  BY FirstOfShape DEF LoadMetric, MemoryMetric, SizeMetric, AvailMetric
<1>3. \A m, d \in CoreMetrics : m.name = "cpu_cores" /\ m = d
  BY CoresAre DEF Metric
<1>4. \A m, d \in CpuMetrics : m.name \in CpuNames /\ (m.name = d.name => m = d)
  BY CpuMetricsAre DEF Metric
<1>5. \A m, d \in UptimeMetrics : m.name = "uptime_seconds" /\ m = d
  BY UptimeShape
<1>6. /\ \A m : m \in Extract /\ m.name = "load_average_1m" <=> m \in LoadMetric
      /\ \A m : m \in Extract /\ m.name = "memory_total_bytes" <=> m \in MemoryMetric
      /\ \A m : m \in Extract /\ m.name = "cpu_cores" <=> m \in CoreMetrics
      /\ \A m : m \in Extract /\ m.name = "filesystem_size_bytes" <=> m \in SizeMetric
  BY <1>1, <1>2, <1>3, <1>4, <1>5 DEF CpuNames
<1>7. /\ \A m : m \in Extract /\ m.name = "filesystem_avail_bytes" <=> m \in AvailMetric
      /\ \A m : m \in Extract /\ m.name = "uptime_seconds" <=> m \in UptimeMetrics
      /\ \A m : m \in Extract /\ m.name \in CpuNames <=> m \in CpuMetrics
  BY <1>1, <1>2, <1>3, <1>4, <1>5 DEF CpuNames
<1>8. ASSUME NEW m \in Extract, NEW d \in Extract, m.name = d.name
      PROVE  m = d
  BY <1>1, <1>2, <1>3, <1>4, <1>5, <1>6, <1>7, <1>8
<1> QED BY <1>6, <1>7, <1>8

LEMMA Elapsed ==
  ASSUME NEW v \in Nat, Time - v > 0
  PROVE  Time - v \in Nat
<1>1. Time \in Nat
  BY TimeAssumption
<1> QED BY <1>1

\* Every metric is a natural number.
LEMMA MetricsAreNumbers ==
  ASSUME Whole
  PROVE  \A m \in Extract : m.value \in Nat
<1>1. \A m : m \in Extract <=> \/ m \in LoadMetric \/ m \in MemoryMetric \/ m \in CpuMetrics
                               \/ m \in CoreMetrics \/ m \in SizeMetric \/ m \in AvailMetric
                               \/ m \in UptimeMetrics
  BY DEF Extract, SimpleMetrics, DiskMetrics, LoadMetric, MemoryMetric, SizeMetric, AvailMetric
<1>2. /\ \A name : Named(name) \in SUBSET DOMAIN samples
      /\ \A name, k, v : With(name, k, v) \in SUBSET DOMAIN samples
  BY DEF Named, With
<1>3. /\ \A m \in LoadMetric : m.value \in Nat
      /\ \A m \in MemoryMetric : m.value \in Nat
      /\ \A m \in SizeMetric : m.value \in Nat
      /\ \A m \in AvailMetric : m.value \in Nat
  BY <1>2, FirstOfNumber DEF LoadMetric, MemoryMetric, SizeMetric, AvailMetric
<1>4. \A m \in CpuMetrics : m.value \in Nat
  BY CpuMetricsAre, TotalsAreNumbers DEF Metric
<1>5. \A m \in CoreMetrics : m.value \in Nat
  <2>1. Len(facts.cpu) \in Nat
    BY SamplesByKind
  <2>2. \A m \in CoreMetrics : m = Metric("cpu_cores", Len(facts.cpu))
    BY CoresAre
  <2> QED BY <2>1, <2>2 DEF Metric
<1>6. ASSUME NEW m \in UptimeMetrics
      PROVE  m.value \in Nat
  <2> DEFINE boots == FirstOf("", Named("node_boot_time_seconds"))
  <2>1. PICK b \in boots :
           Time - b.value > 0 /\ m = Metric("uptime_seconds", Time - b.value)
    BY DEF UptimeMetrics
  <2>2. b.value \in Nat
    BY <1>2, FirstOfNumber
  <2>3. Time - b.value \in Nat
    BY <2>1, <2>2, Elapsed
  <2> QED BY <2>1, <2>3 DEF Metric
<1> QED BY <1>1, <1>3, <1>4, <1>5, <1>6-----------------------------------------------------------------------------
(* The report. *)

PartOf(D, name) == {d \in D : d.name = name}
ValuesOf(D, name) == {m.value : m \in PartOf(D, name)}

RootsOf(f) == {i \in DOMAIN f.fs : f.fs[i].mount = <<Slash>>}

CoresTrue(f, D) == f.cpu # <<>> => ValuesOf(D, "cpu_cores") = {Len(f.cpu)}

SecondsTrue(f, D) ==
  \A mode \in {"idle", "user"} :
     f.cpu # <<>> => ValuesOf(D, CpuMetric[mode]) =
        {Total([i \in DOMAIN f.cpu |-> Number[f.cpu[i].seconds[mode]]])}

DiskTrue(f, D) ==
  IF RootsOf(f) = {}
  THEN ValuesOf(D, "filesystem_size_bytes") = {} /\ ValuesOf(D, "filesystem_avail_bytes") = {}
  ELSE \E i \in RootsOf(f) :
          /\ ValuesOf(D, "filesystem_size_bytes") = {Number[f.fs[i].size]}
          /\ ValuesOf(D, "filesystem_avail_bytes") = {Number[f.fs[i].avail]}

PlainTrue(f, D) ==
  \A i \in DOMAIN f.plain :
     LET p == f.plain[i].name
         v == Number[f.plain[i].value]
     IN  CASE p = "node_load1" -> ValuesOf(D, "load_average_1m") = {v}
           [] p = "node_memory_MemTotal_bytes" -> ValuesOf(D, "memory_total_bytes") = {v}
           [] p = "node_boot_time_seconds" ->
                 ValuesOf(D, "uptime_seconds") = IF v < Time THEN {Time - v} ELSE {}

NamesOnce(D) == \A m, d \in D : m.name = d.name => m = d

\* A report D is true of a machine f.
TrueOf(f, D) ==
  NamesOnce(D) /\ CoresTrue(f, D) /\ SecondsTrue(f, D) /\ DiskTrue(f, D) /\ PlainTrue(f, D)

\* The property, as a relation between the machine and the metrics.
LEMMA ReportIsTrue == ReportsTheMachine <=> (pc = "done" => TrueOf(facts, data))
<1>1. NoNameTwice <=> NamesOnce(data)
  BY DEF NoNameTwice, NamesOnce
<1>2. \A name : Reported(name) = ValuesOf(data, name)
  BY DEF Reported, ValuesOf, PartOf
<1>3. Roots = RootsOf(facts)
  BY DEF Roots, RootsOf
<1>4. CpuIsTotal <=> CoresTrue(facts, data) /\ SecondsTrue(facts, data)
  BY <1>2 DEF CpuIsTotal, CoresTrue, SecondsTrue
<1>5. DiskIsOneFilesystem <=> DiskTrue(facts, data)
  BY <1>2, <1>3 DEF DiskIsOneFilesystem, DiskTrue
<1>6. PlainIsReported <=> PlainTrue(facts, data)
  BY <1>2 DEF PlainIsReported, PlainTrue
<1> QED BY <1>1, <1>4, <1>5, <1>6 DEF ReportsTheMachine, TrueOf

\* What is reported under a name, when it is one metric or none.
LEMMA OneValue ==
  ASSUME NEW D, NEW name, NEW v, PartOf(D, name) = {Metric(name, v)}
  PROVE  ValuesOf(D, name) = {v}
<1>1. Metric(name, v).value = v
  BY DEF Metric
<1> QED BY <1>1 DEF ValuesOf

LEMMA NoValue ==
  ASSUME NEW D, NEW name, PartOf(D, name) = {}
  PROVE  ValuesOf(D, name) = {}
BY DEF ValuesOf

\* The metric of each name.
LEMMA PartsOfExtract ==
  ASSUME Whole
  PROVE  /\ PartOf(Extract, "load_average_1m") = LoadMetric
         /\ PartOf(Extract, "memory_total_bytes") = MemoryMetric
         /\ PartOf(Extract, "cpu_cores") = CoreMetrics
         /\ PartOf(Extract, "filesystem_size_bytes") = SizeMetric
         /\ PartOf(Extract, "filesystem_avail_bytes") = AvailMetric
         /\ PartOf(Extract, "uptime_seconds") = UptimeMetrics
<1>1. PartOf(Extract, "load_average_1m") = LoadMetric
  <2>1. \A m : m \in Extract /\ m.name = "load_average_1m" <=> m \in LoadMetric
    BY ExtractIs
  <2> QED BY <2>1 DEF PartOf
<1>2. PartOf(Extract, "memory_total_bytes") = MemoryMetric
  <2>1. \A m : m \in Extract /\ m.name = "memory_total_bytes" <=> m \in MemoryMetric
    BY ExtractIs
  <2> QED BY <2>1 DEF PartOf
<1>3. PartOf(Extract, "cpu_cores") = CoreMetrics
  <2>1. \A m : m \in Extract /\ m.name = "cpu_cores" <=> m \in CoreMetrics
    BY ExtractIs
  <2> QED BY <2>1 DEF PartOf
<1>4. PartOf(Extract, "filesystem_size_bytes") = SizeMetric
  <2>1. \A m : m \in Extract /\ m.name = "filesystem_size_bytes" <=> m \in SizeMetric
    BY ExtractIs
  <2> QED BY <2>1 DEF PartOf
<1>5. PartOf(Extract, "filesystem_avail_bytes") = AvailMetric
  <2>1. \A m : m \in Extract /\ m.name = "filesystem_avail_bytes" <=> m \in AvailMetric
    BY ExtractIs
  <2> QED BY <2>1 DEF PartOf
<1>6. PartOf(Extract, "uptime_seconds") = UptimeMetrics
  <2>1. \A m : m \in Extract /\ m.name = "uptime_seconds" <=> m \in UptimeMetrics
    BY ExtractIs
  <2> QED BY <2>1 DEF PartOf
<1> QED BY <1>1, <1>2, <1>3, <1>4, <1>5, <1>6

\* What Extract makes of an answer that was read to its end is true of the machine.
LEMMA ExtractIsTrue ==
  ASSUME Whole
  PROVE  TrueOf(facts, Extract)
<1>1. NamesOnce(Extract)
  BY ExtractIs DEF NamesOnce
<1>2. CoresTrue(facts, Extract)
  <2> SUFFICES ASSUME facts.cpu # <<>>
               PROVE  ValuesOf(Extract, "cpu_cores") = {Len(facts.cpu)}
    BY DEF CoresTrue
  <2>1. CoreMetrics = {Metric("cpu_cores", Len(facts.cpu))}
    BY CoresAre
  <2>2. PartOf(Extract, "cpu_cores") = CoreMetrics
    BY PartsOfExtract
  <2> QED BY <2>1, <2>2, OneValue
<1>3. SecondsTrue(facts, Extract)
  <2> SUFFICES ASSUME NEW mode \in {"idle", "user"}, facts.cpu # <<>>
               PROVE  ValuesOf(Extract, CpuMetric[mode]) =
                        {Total([i \in DOMAIN facts.cpu |-> Number[facts.cpu[i].seconds[mode]]])}
    BY DEF SecondsTrue
  <2> DEFINE t == Total([i \in DOMAIN facts.cpu |-> Number[facts.cpu[i].seconds[mode]]])
             name == CpuMetric[mode]
  <2>1. Cpu(mode) # {} /\ Total(Seconds(mode)) = t
    BY CpuIs
  <2> HIDE DEF t
  <2>2. \A m : m \in Extract /\ m.name \in CpuNames <=> m \in CpuMetrics
    BY ExtractIs
  <2>3. name \in CpuNames
    BY CpuMetricsAre
  <2>4. \A m : m \in CpuMetrics /\ m.name = name <=> m = Metric(name, t)
    <3>1. ASSUME NEW m \in CpuMetrics, m.name = name
          PROVE  m = Metric(name, t)
      <4>1. PICK mood \in {"user", "system", "idle", "iowait"} :
               m = Metric(CpuMetric[mood], Total(Seconds(mood)))
        BY CpuMetricsAre
      <4>2. CpuMetric[mood] = name
        BY <3>1, <4>1 DEF Metric
      <4>3. mood = mode
        BY <4>2, CpuMetricsAre
      <4> QED BY <2>1, <4>1, <4>3
    <3>2. Metric(name, t) \in CpuMetrics
      BY <2>1, CpuMetricsAre
    <3>3. Metric(name, t).name = name
      BY DEF Metric
    <3> QED BY <3>1, <3>2, <3>3
  <2> HIDE DEF name
  <2>5. PartOf(Extract, name) = {Metric(name, t)}
    BY <2>2, <2>3, <2>4 DEF PartOf
  <2>6. ValuesOf(Extract, name) = {t}
    BY <2>5, OneValue
  <2> QED BY <2>6 DEF name, t
<1>4. DiskTrue(facts, Extract)
  <2>1. RootsOf(facts) = Roots
    BY DEF Roots, RootsOf
  <2>2. /\ PartOf(Extract, "filesystem_size_bytes") = SizeMetric
        /\ PartOf(Extract, "filesystem_avail_bytes") = AvailMetric
    BY PartsOfExtract
  <2>3. CASE Roots = {}
    <3>1. SizeMetric = {} /\ AvailMetric = {}
      BY <2>3, DiskIs DEF SizeMetric, AvailMetric
    <3> QED BY <2>1, <2>2, <2>3, <3>1, NoValue DEF DiskTrue
  <2>4. CASE Roots # {}
    <3>1. PICK i \in Roots :
             /\ SizeMetric = {Metric("filesystem_size_bytes", Number[facts.fs[i].size])}
             /\ AvailMetric = {Metric("filesystem_avail_bytes", Number[facts.fs[i].avail])}
      BY <2>4, DiskIs DEF SizeMetric, AvailMetric
    <3>2. /\ ValuesOf(Extract, "filesystem_size_bytes") = {Number[facts.fs[i].size]}
          /\ ValuesOf(Extract, "filesystem_avail_bytes") = {Number[facts.fs[i].avail]}
      BY <2>2, <3>1, OneValue
    <3> QED BY <2>1, <2>4, <3>2 DEF DiskTrue
  <2> QED BY <2>3, <2>4
<1>5. PlainTrue(facts, Extract)
  <2> SUFFICES ASSUME NEW i \in DOMAIN facts.plain
               PROVE  LET p == facts.plain[i].name
                          v == Number[facts.plain[i].value]
                      IN  CASE p = "node_load1" -> ValuesOf(Extract, "load_average_1m") = {v}
                            [] p = "node_memory_MemTotal_bytes" ->
                                  ValuesOf(Extract, "memory_total_bytes") = {v}
                            [] p = "node_boot_time_seconds" ->
                                  ValuesOf(Extract, "uptime_seconds") =
                                     IF v < Time THEN {Time - v} ELSE {}
    BY DEF PlainTrue
  <2> DEFINE p == facts.plain[i].name
             v == Number[facts.plain[i].value]
  <2>1. /\ p \in Plain /\ v \in Nat
        /\ \A name : FirstOf(name, Named(p)) = {Metric(name, v)}
    BY PlainIs
  <2> HIDE DEF p, v
  <2>2. CASE p = "node_load1"
    <3>1. LoadMetric = {Metric("load_average_1m", v)}
      BY <2>1, <2>2 DEF LoadMetric
    <3>2. ValuesOf(Extract, "load_average_1m") = {v}
      BY <3>1, PartsOfExtract, OneValue
    <3> QED BY <2>2, <3>2 DEF p, v
  <2>3. CASE p = "node_memory_MemTotal_bytes"
    <3>1. MemoryMetric = {Metric("memory_total_bytes", v)}
      BY <2>1, <2>3 DEF MemoryMetric
    <3>2. ValuesOf(Extract, "memory_total_bytes") = {v}
      BY <3>1, PartsOfExtract, OneValue
    <3> QED BY <2>3, <3>2 DEF p, v
  <2>4. CASE p = "node_boot_time_seconds"
    <3> DEFINE boots == FirstOf("", Named("node_boot_time_seconds"))
    <3>1. boots = {Metric("", v)} /\ Metric("", v).value = v
      BY <2>1, <2>4 DEF Metric
    <3>2. Time - v > 0 <=> v < Time
      BY <2>1, TimeAssumption
    <3>3. UptimeMetrics = {Metric("uptime_seconds", Time - b.value) :
                              b \in {b \in boots : Time - b.value > 0}}
      BY DEF UptimeMetrics
    <3> HIDE DEF boots
    <3>4. UptimeMetrics = IF v < Time THEN {Metric("uptime_seconds", Time - v)} ELSE {}
      <4>1. {b \in boots : Time - b.value > 0} = IF v < Time THEN {Metric("", v)} ELSE {}
        BY <3>1, <3>2
      <4> QED BY <3>1, <3>3, <4>1
    <3>5. PartOf(Extract, "uptime_seconds") = UptimeMetrics
      BY PartsOfExtract
    <3>6. ValuesOf(Extract, "uptime_seconds") = IF v < Time THEN {Time - v} ELSE {}
      <4>1. CASE v < Time
        <5>1. UptimeMetrics = {Metric("uptime_seconds", Time - v)}
          BY <3>4, <4>1
        <5>2. ValuesOf(Extract, "uptime_seconds") = {Time - v}
          BY <3>5, <5>1, OneValue
        <5> QED BY <4>1, <5>2
      <4>2. CASE ~(v < Time)
        <5>1. PartOf(Extract, "uptime_seconds") = {}
          BY <3>4, <3>5, <4>2
        <5>2. ValuesOf(Extract, "uptime_seconds") = {}
          BY <5>1, NoValue
        <5> QED BY <4>2, <5>2
      <4> QED BY <4>1, <4>2
    <3> QED BY <2>4, <3>6 DEF p, v
  <2> QED BY <2>1, <2>2, <2>3, <2>4 DEF Plain
<1> QED BY <1>1, <1>2, <1>3, <1>4, <1>5 DEF TrueOf

\* What holds of the report in every state.
ReportInv == (\A m \in data : m.value \in Nat) /\ (pc = "done" => TrueOf(facts, data))

\* Only BodyEnds makes a report, and Extract makes it of all samples.
LEMMA ReportStep ==
  ASSUME ReadInv, ReportInv, [Next]_vars
  PROVE  ReportInv'
<1>1. CASE BodyEnds
  <2>1. Whole
    BY <1>1 DEF Whole, BodyEnds
  <2>2. (\A m \in Extract : m.value \in Nat) /\ TrueOf(facts, Extract)
    BY <2>1, MetricsAreNumbers, ExtractIsTrue
  <2>3. data' = Extract /\ facts' = facts
    BY <1>1 DEF BodyEnds
  <2> QED BY <2>2, <2>3 DEF ReportInv
<1>2. ASSUME data' = {} \/ data' = data, pc' # "done"
      PROVE  ReportInv'
  BY <1>2 DEF ReportInv
<1>3. CASE UNCHANGED vars
  BY <1>3 DEF vars, ReportInv
<1>4. ASSUME NEW f \in Machines, Begin(f)
      PROVE  ReportInv'
  BY <1>2, <1>4 DEF Begin
<1>5. CASE RequestFails
  BY <1>2, <1>5 DEF RequestFails, Fail
<1>6. CASE RequestAnswered
  BY <1>2, <1>6 DEF RequestAnswered
<1>7. ASSUME pc = "scan", NEW text, Scan(text)
      PROVE  ReportInv'
  BY <1>2, <1>7 DEF Scan, Fail
<1>8. CASE SampleComes \/ CommentComes \/ GarbageComes
  BY <1>7, <1>8 DEF SampleComes, CommentComes, GarbageComes
<1>9. CASE BodyBreaks
  BY <1>2, <1>9 DEF BodyBreaks, Fail
<1> QED BY <1>1, <1>3, <1>4, <1>5, <1>6, <1>8, <1>9 DEF Next

LEMMA Report == Spec => [](ReadInv /\ ReportInv)
<1>1. Init => ReportInv
  BY DEF Init, ReportInv
<1>2. ReadInv /\ ReportInv /\ [Next]_vars => ReportInv'
  BY ReportStep
<1> QED BY <1>1, <1>2, Read, PTL DEF Spec

\* The collection keeps its types, and every metric is a natural number: in particular
\* no uptime is negative (extract.go:16-93).
THEOREM ScrapeTypes == Spec => []TypeOK
<1>1. ReadInv /\ ReportInv => TypeOK
  BY SamplesAre DEF ReadInv, ReportInv, TypeOK
<1> QED BY <1>1, Report, PTL

\* What Extract reports is true of the machine: each metric once, the seconds of all
\* cores, size and available space of one filesystem, no uptime from a boot time in the
\* future (extract.go:16-93).
THEOREM MachineIsReported == Spec => []ReportsTheMachine
<1>1. ReadInv /\ ReportInv => ReportsTheMachine
  BY ReportIsTrue DEF ReportInv
<1> QED BY <1>1, Report, PTL
=============================================================================
