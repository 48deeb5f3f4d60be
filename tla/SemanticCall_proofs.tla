------------------------ MODULE SemanticCall_proofs -------------------------
(***************************************************************************)
(* A function call from its docstring to its completion chains, for any    *)
(* signature, any docstring and any arguments.                             *)
(*                                                                         *)
(* The state hardly matters here: CallInv says that the function is what a *)
(* decorator makes of an accepted docstring, and that what is on the wire  *)
(* was made of bound arguments.  The rest is about the operators, each of  *)
(* which is a loop over a sequence.  Their recursion (FlattenSeq, Chunks,  *)
(* Conversation) is unfolded once: the function that defines it exists, two*)
(* such functions agree, so appending one element does what one turn of the*)
(* loop does (FlattenAppend, ChunksAppend, ConversationAppend).  Then      *)
(* SeqInduction gives what they mean:                                      *)
(*                                                                         *)
(*   - cutting a template into chunks keeps its tokens (ChunksKeepTokens); *)
(*     ParsedFrom says what the parser's nodes are, ParseTemplateFacts that*)
(*     of a whole prompt;                                                  *)
(*   - a conversation is the body with roles put in (ConversationMeans),   *)
(*     and every output follows the assistant's role, and that the user's  *)
(*     (ConversationAlternates);                                           *)
(*   - a template means its docstring under any texts of the inputs        *)
(*     (TemplateMeans), and ends with an output (TemplateEnds), so there is*)
(*     always a chain (FirstChain).                                        *)
(*                                                                         *)
(* Answered collects the five properties; only the two steps in which the  *)
(* serve layer answers can disturb it.                                     *)
(***************************************************************************)
EXTENDS SemanticCall, FiniteInduction, FiniteSetTheorems, SequenceTheorems,
        TLAPS

-----------------------------------------------------------------------------
(* Flattening *)

\* flatten of FlattenSeq, with its recursion.
IsFlattening(f, s) ==
    f = [i \in 1 .. Len(s) |-> IF i = 1 THEN s[i] ELSE f[i - 1] \o s[i]]

\* What the type of a sequence says of its elements.
LEMMA ElementsOfSeq ==
  ASSUME NEW E, NEW s \in Seq(E)
  PROVE  /\ Len(s) \in Nat /\ DOMAIN s = 1 .. Len(s)
         /\ \A i \in 1 .. Len(s) : s[i] \in E
OBVIOUS

LEMMA FlatteningExists ==
  ASSUME NEW D, NEW s \in Seq(Seq(D))
  PROVE  \E f \in [1 .. Len(s) -> Seq(D)] : IsFlattening(f, s)
<1> DEFINE E == Seq(D)
           n == Len(s)
           F == [i \in 1 .. n |-> [q \in E |-> q \o s[i]]]
<1>1. n \in Nat /\ \A i \in 1 .. n : s[i] \in E
  BY ElementsOfSeq
<1>2. <<>> \in E /\ \A q, r \in E : q \o r \in E /\ <<>> \o q = q
  OBVIOUS
<1> HIDE DEF E, n
<1>3. F \in [1 .. n -> [E -> E]]
  BY <1>1, <1>2
<1>4. PICK g \in [0 .. n -> E] :
           g[0] = <<>> /\ \A i \in 1 .. n : g[i] = F[i][g[i - 1]]
  <2> HIDE DEF F
  <2>1. n \in Nat /\ <<>> \in E
    BY <1>1, <1>2
  <2>2. HasIteration(E, <<>>, n, F)
    BY <1>3, <2>1, IterationExists
  <2> QED
    BY <2>2 DEF HasIteration
<1>5. ASSUME NEW i \in 1 .. n PROVE g[i] = g[i - 1] \o s[i] /\ g[i - 1] \in E
  <2>1. i - 1 \in 0 .. n
    BY <1>1
  <2> QED
    BY <1>4, <2>1
<1> DEFINE f == [i \in 1 .. n |-> g[i]]
<1>6. f \in [1 .. n -> E]
  BY <1>1, <1>4
<1>7. ASSUME NEW i \in 1 .. n
      PROVE  g[i] = IF i = 1 THEN s[i] ELSE f[i - 1] \o s[i]
  <2>1. g[i] = g[i - 1] \o s[i]
    BY <1>5
  <2>2. CASE i = 1
    <3>1. g[i - 1] = <<>>
      BY <1>4, <2>2
    <3>2. <<>> \o s[i] = s[i]
      BY <1>1, <1>2
    <3> QED
      BY <2>1, <2>2, <3>1, <3>2
  <2>3. CASE i # 1
    <3>1. i - 1 \in 1 .. n
      BY <1>1, <2>3
    <3> QED
      BY <2>1, <2>3, <3>1
  <2> QED
    BY <2>2, <2>3
<1>8. f = [i \in 1 .. n |-> IF i = 1 THEN s[i] ELSE f[i - 1] \o s[i]]
  BY <1>7
<1> HIDE DEF f
<1> QED
  BY <1>6, <1>8 DEF IsFlattening, E, n

AgreeUpTo(f, g, n) == \A i \in 1 .. n : f[i] = g[i]

\* Flattenings of a sequence and of one it is a prefix of agree.
LEMMA FlatteningsAgree ==
  ASSUME NEW s, NEW t, Len(s) \in Nat, Len(t) \in Nat, Len(s) <= Len(t),
         \A i \in 1 .. Len(s) : t[i] = s[i],
         NEW f, NEW g, IsFlattening(f, s), IsFlattening(g, t)
  PROVE  AgreeUpTo(f, g, Len(s))
<1> DEFINE P == {k \in Nat : k \in 1 .. Len(s) => f[k] = g[k]}
<1>1. 0 \in P
  OBVIOUS
<1>2. ASSUME NEW k \in Nat, k \in P PROVE k + 1 \in P
  <2> SUFFICES ASSUME k + 1 \in 1 .. Len(s) PROVE f[k + 1] = g[k + 1]
    OBVIOUS
  <2>1. k + 1 \in 1 .. Len(t) /\ t[k + 1] = s[k + 1] /\ (k + 1) - 1 = k
    OBVIOUS
  <2>2. f[k + 1] = IF k + 1 = 1 THEN s[k + 1] ELSE f[k] \o s[k + 1]
    BY <2>1 DEF IsFlattening
  <2>3. g[k + 1] = IF k + 1 = 1 THEN t[k + 1] ELSE g[k] \o t[k + 1]
    BY <2>1 DEF IsFlattening
  <2>4. k + 1 = 1 \/ k \in 1 .. Len(s)
    OBVIOUS
  <2>5. k + 1 # 1 => f[k] = g[k]
    BY <1>2, <2>4
  <2> QED
    BY <2>1, <2>2, <2>3, <2>5
<1> HIDE DEF P
<1>3. Nat \subseteq P
  BY <1>1, <1>2, SetInduction
<1> QED
  BY <1>3 DEF P, AgreeUpTo

LEMMA FlattenValue ==
  ASSUME NEW D, NEW s \in Seq(Seq(D)), s # <<>>
  PROVE  \E f \in [1 .. Len(s) -> Seq(D)] :
            IsFlattening(f, s) /\ FlattenSeq(s) = f[Len(s)]
<1> DEFINE h == CHOOSE f : IsFlattening(f, s)
<1>1. PICK f \in [1 .. Len(s) -> Seq(D)] : IsFlattening(f, s)
  BY FlatteningExists
<1>2. IsFlattening(h, s)
  BY <1>1
<1>3. Len(s) \in Nat /\ Len(s) # 0
  OBVIOUS
<1>4. FlattenSeq(s) = h[Len(s)]
  BY <1>3 DEF FlattenSeq, IsFlattening
<1> HIDE DEF h
<1>5. h[Len(s)] = f[Len(s)]
  <2>1. AgreeUpTo(h, f, Len(s))
    BY <1>1, <1>2, <1>3, FlatteningsAgree
  <2> QED
    BY <1>3, <2>1 DEF AgreeUpTo
<1> QED
  BY <1>1, <1>4, <1>5

LEMMA FlattenEmpty ==
  FlattenSeq(<<>>) = <<>>
BY DEF FlattenSeq

LEMMA FlattenAppend ==
  ASSUME NEW D, NEW s \in Seq(Seq(D)), NEW x \in Seq(D)
  PROVE  /\ FlattenSeq(Append(s, x)) = FlattenSeq(s) \o x
         /\ FlattenSeq(s) \in Seq(D)
<1> DEFINE E == Seq(D)
           t == Append(s, x)
           n == Len(s)
<1>0. s \in Seq(E) /\ x \in E
  OBVIOUS
<1> HIDE DEF E
<1>1. /\ n \in Nat /\ t \in Seq(E) /\ Len(t) = n + 1 /\ t # <<>>
      /\ t[n + 1] = x /\ \A i \in 1 .. n : t[i] = s[i]
  BY <1>0
<1>2. PICK g \in [1 .. Len(t) -> E] :
           IsFlattening(g, t) /\ FlattenSeq(t) = g[Len(t)]
  BY <1>1, FlattenValue DEF E
<1>3. g[n + 1] = IF n + 1 = 1 THEN t[n + 1] ELSE g[n] \o t[n + 1]
  <2>1. n + 1 \in 1 .. Len(t) /\ (n + 1) - 1 = n
    BY <1>1
  <2> QED
    BY <1>2, <2>1 DEF IsFlattening
<1>4. CASE s = <<>>
  <2>1. FlattenSeq(s) = <<>> /\ <<>> \o x = x /\ <<>> \in Seq(D)
    BY <1>4, FlattenEmpty
  <2>2. n = 0
    BY <1>4
  <2> HIDE DEF t, n
  <2> QED
    BY <1>1, <1>2, <1>3, <2>1, <2>2 DEF t
<1>5. CASE s # <<>>
  <2>1. PICK f \in [1 .. n -> E] : IsFlattening(f, s) /\ FlattenSeq(s) = f[n]
    BY <1>0, <1>5, FlattenValue DEF E
  <2>2. n \in 1 .. n /\ n + 1 # 1
    BY <1>1, <1>5
  <2> HIDE DEF t
  <2>3. f[n] = g[n]
    <3>1. /\ Len(s) <= Len(t) /\ Len(s) \in Nat /\ Len(t) \in Nat
          /\ \A i \in 1 .. Len(s) : t[i] = s[i]
      BY <1>1
    <3>2. IsFlattening(f, s) /\ IsFlattening(g, t)
      BY <1>2, <2>1
    <3>3. AgreeUpTo(f, g, Len(s))
      BY <3>1, <3>2, FlatteningsAgree
    <3> QED
      BY <2>2, <3>3 DEF AgreeUpTo
  <2>4. f[n] \in E
    BY <2>1, <2>2
  <2> HIDE DEF n
  <2>5. FlattenSeq(t) = f[n] \o x
    BY <1>1, <1>2, <1>3, <2>2, <2>3
  <2> QED
    BY <2>1, <2>4, <2>5 DEF E, t
<1> QED
  BY <1>4, <1>5

-----------------------------------------------------------------------------
(* Parsing a template into chunks *)

ChunkSet(D) == [name : D \cup {Nil}, text : Seq(D)]

LEMMA PushTokenType ==
  ASSUME NEW D, NEW c \in Seq(ChunkSet(D)), NEW x \in D
  PROVE  PushToken(c, x) \in Seq(ChunkSet(D))
<1> DEFINE E == ChunkSet(D)
<1>1. Placeholder(x) \in E /\ TextChunk(<<x>>) \in E
  BY DEF Placeholder, TextChunk, ChunkSet
<1>2. ASSUME c # <<>> PROVE TextChunk(Append(Last(c).text, x)) \in E
  <2>1. Last(c) \in E
    <3>1. c \in Seq(E) /\ Len(c) \in 1 .. Len(c)
      BY <1>2
    <3> HIDE DEF E
    <3> QED
      BY <3>1, ElementsOfSeq DEF Last
  <2>2. Last(c).text \in Seq(D)
    BY <2>1 DEF ChunkSet
  <2>3. Append(Last(c).text, x) \in Seq(D)
    BY <2>2
  <2> QED
    BY <2>3 DEF TextChunk, ChunkSet
<1>3. c \in Seq(E)
  OBVIOUS
<1> HIDE DEF E
<1>4. c # <<>> => Front(c) \in Seq(E)
  BY <1>3 DEF Front
<1>5. \A d \in Seq(E), y \in E : Append(d, y) \in Seq(E)
  OBVIOUS
<1>6. PushToken(c, x) \in Seq(E)
  BY <1>1, <1>2, <1>3, <1>4, <1>5 DEF PushToken
<1> QED
  BY <1>6 DEF E

\* The prefixes of a template, parsed: with the recursion of Chunks.
IsParse(f, t) ==
    f = [n \in 0 .. Len(t) |->
            IF n = 0 THEN <<>> ELSE PushToken(f[n - 1], t[n])]

LEMMA ParseExists ==
  ASSUME NEW D, NEW t \in Seq(D)
  PROVE  \E f \in [0 .. Len(t) -> Seq(ChunkSet(D))] : IsParse(f, t)
<1> DEFINE E == Seq(ChunkSet(D))
           n == Len(t)
           F == [i \in 1 .. n |-> [c \in E |-> PushToken(c, t[i])]]
<1>1. n \in Nat /\ \A i \in 1 .. n : t[i] \in D
  OBVIOUS
<1>2. <<>> \in E
  OBVIOUS
<1>3. \A c \in E, x \in D : PushToken(c, x) \in E
  BY PushTokenType
<1> HIDE DEF E, n
<1>4. F \in [1 .. n -> [E -> E]]
  BY <1>1, <1>3
<1>5. HasIteration(E, <<>>, n, F)
  <2> HIDE DEF F
  <2> QED
    BY <1>1, <1>2, <1>4, IterationExists
<1>6. PICK g \in [0 .. n -> E] :
           g[0] = <<>> /\ \A i \in 1 .. n : g[i] = F[i][g[i - 1]]
  <2> HIDE DEF F
  <2> QED
    BY <1>5 DEF HasIteration
<1>7. ASSUME NEW i \in 0 .. n
      PROVE  g[i] = IF i = 0 THEN <<>> ELSE PushToken(g[i - 1], t[i])
  <2>1. CASE i = 0
    BY <1>6, <2>1
  <2>2. CASE i # 0
    <3>1. i \in 1 .. n /\ i - 1 \in 0 .. n
      BY <1>1, <2>2
    <3>2. g[i - 1] \in E
      BY <1>6, <3>1
    <3> QED
      BY <1>6, <2>2, <3>1, <3>2
  <2> QED
    BY <2>1, <2>2
<1>8. g = [i \in 0 .. n |-> IF i = 0 THEN <<>> ELSE PushToken(g[i - 1], t[i])]
  BY <1>6, <1>7
<1> QED
  BY <1>6, <1>8 DEF IsParse, E, n

AgreeFromZero(f, g, n) == \A i \in 0 .. n : f[i] = g[i]

LEMMA ParsesAgree ==
  ASSUME NEW s, NEW t, Len(s) \in Nat, Len(t) \in Nat, Len(s) <= Len(t),
         \A i \in 1 .. Len(s) : t[i] = s[i],
         NEW f, NEW g, IsParse(f, s), IsParse(g, t)
  PROVE  AgreeFromZero(f, g, Len(s))
<1> DEFINE P == {k \in Nat : k \in 0 .. Len(s) => f[k] = g[k]}
<1>1. 0 \in P
  <2>1. f[0] = <<>> /\ g[0] = <<>>
    BY DEF IsParse
  <2> QED
    BY <2>1
<1>2. ASSUME NEW k \in Nat, k \in P PROVE k + 1 \in P
  <2> SUFFICES ASSUME k + 1 \in 0 .. Len(s) PROVE f[k + 1] = g[k + 1]
    OBVIOUS
  <2>1. /\ k + 1 \in 0 .. Len(t) /\ t[k + 1] = s[k + 1] /\ (k + 1) - 1 = k
        /\ k \in 0 .. Len(s) /\ k + 1 # 0
    OBVIOUS
  <2>2. f[k + 1] = PushToken(f[k], s[k + 1])
    BY <2>1 DEF IsParse
  <2>3. g[k + 1] = PushToken(g[k], t[k + 1])
    BY <2>1 DEF IsParse
  <2>4. f[k] = g[k]
    BY <1>2, <2>1
  <2> QED
    BY <2>1, <2>2, <2>3, <2>4
<1> HIDE DEF P
<1>3. Nat \subseteq P
  BY <1>1, <1>2, SetInduction
<1> QED
  BY <1>3 DEF P, AgreeFromZero

LEMMA ChunksValue ==
  ASSUME NEW D, NEW t \in Seq(D)
  PROVE  \E f \in [0 .. Len(t) -> Seq(ChunkSet(D))] :
            IsParse(f, t) /\ Chunks(t) = f[Len(t)]
<1> DEFINE h == CHOOSE f : IsParse(f, t)
<1>1. PICK f \in [0 .. Len(t) -> Seq(ChunkSet(D))] : IsParse(f, t)
  BY ParseExists
<1>2. IsParse(h, t)
  BY <1>1
<1>3. Len(t) \in Nat
  OBVIOUS
<1>4. Chunks(t) = h[Len(t)]
  BY DEF Chunks, IsParse
<1> HIDE DEF h
<1>5. h[Len(t)] = f[Len(t)]
  <2>1. AgreeFromZero(h, f, Len(t))
    BY <1>1, <1>2, <1>3, ParsesAgree
  <2> QED
    BY <1>3, <2>1 DEF AgreeFromZero
<1> QED
  BY <1>1, <1>4, <1>5

LEMMA ChunksEmpty ==
  Chunks(<<>>) = <<>>
<1>1. PICK f \in [0 .. Len(<<>>) -> Seq(ChunkSet({}))] :
           IsParse(f, <<>>) /\ Chunks(<<>>) = f[Len(<<>>)]
  <2>1. <<>> \in Seq({})
    OBVIOUS
  <2> QED
    BY <2>1, ChunksValue
<1>2. f[0] = <<>>
  BY <1>1 DEF IsParse
<1> QED
  BY <1>1, <1>2

LEMMA ChunksAppend ==
  ASSUME NEW D, NEW q \in Seq(D), NEW x \in D
  PROVE  /\ Chunks(Append(q, x)) = PushToken(Chunks(q), x)
         /\ Chunks(q) \in Seq(ChunkSet(D))
<1> DEFINE t == Append(q, x)
           n == Len(q)
<1>1. /\ n \in Nat /\ t \in Seq(D) /\ Len(t) = n + 1
      /\ t[n + 1] = x /\ \A i \in 1 .. n : t[i] = q[i]
  OBVIOUS
<1> HIDE DEF t
<1>2. PICK g \in [0 .. Len(t) -> Seq(ChunkSet(D))] :
           IsParse(g, t) /\ Chunks(t) = g[Len(t)]
  BY <1>1, ChunksValue
<1>3. PICK f \in [0 .. n -> Seq(ChunkSet(D))] :
           IsParse(f, q) /\ Chunks(q) = f[n]
  BY ChunksValue
<1>4. g[n + 1] = PushToken(g[n], x)
  <2>1. n + 1 \in 0 .. Len(t) /\ n + 1 # 0 /\ (n + 1) - 1 = n
    BY <1>1
  <2> QED
    BY <1>1, <1>2, <2>1 DEF IsParse
<1>5. f[n] = g[n]
  <2>1. Len(q) \in Nat /\ Len(t) \in Nat /\ Len(q) <= Len(t)
    BY <1>1
  <2>2. \A i \in 1 .. Len(q) : t[i] = q[i]
    BY <1>1
  <2>3. AgreeFromZero(f, g, Len(q))
    BY <1>2, <1>3, <2>1, <2>2, ParsesAgree
  <2> QED
    BY <1>1, <2>3 DEF AgreeFromZero
<1>6. f[n] \in Seq(ChunkSet(D))
  BY <1>1, <1>3
<1> QED
  BY <1>1, <1>2, <1>3, <1>4, <1>5, <1>6 DEF t

\* What chunk the template has, back in tokens.
Piece(ch) == IF ch.name = Nil THEN ch.text ELSE <<ch.name>>
TokensOf(c) == FlattenSeq([i \in DOMAIN c |-> Piece(c[i])])

LEMMA TokensOfAppend ==
  ASSUME NEW D, NEW c \in Seq(ChunkSet(D)), NEW ch \in ChunkSet(D)
  PROVE  /\ TokensOf(Append(c, ch)) = TokensOf(c) \o Piece(ch)
         /\ TokensOf(c) \in Seq(D) /\ Piece(ch) \in Seq(D)
<1> DEFINE E == ChunkSet(D)
           Q == Seq(D)
           s == [i \in DOMAIN c |-> Piece(c[i])]
           d == Append(c, ch)
           t == [i \in DOMAIN d |-> Piece(d[i])]
<1>1. \A e \in E : Piece(e) \in Q
  <2> SUFFICES ASSUME NEW e \in E PROVE Piece(e) \in Q
    OBVIOUS
  <2>1. e.name \in D \cup {Nil} /\ e.text \in Q
    BY DEF ChunkSet
  <2>2. e.name # Nil => <<e.name>> \in Q
    BY <2>1
  <2> QED
    BY <2>1, <2>2 DEF Piece
<1>2. c \in Seq(E) /\ ch \in E
  OBVIOUS
<1> HIDE DEF E, Q
<1> DEFINE F == [e \in E |-> Piece(e)]
<1>3. F \in [E -> Q]
  BY <1>1
<1>4. /\ DOMAIN c = 1 .. Len(c) /\ \A i \in 1 .. Len(c) : c[i] \in E
      /\ d \in Seq(E) /\ DOMAIN d = 1 .. Len(d)
      /\ \A i \in 1 .. Len(d) : d[i] \in E
  <2>1. d \in Seq(E)
    BY <1>2
  <2>2. /\ Len(c) \in Nat /\ DOMAIN c = 1 .. Len(c)
        /\ \A i \in 1 .. Len(c) : c[i] \in E
    BY <1>2
  <2> HIDE DEF d
  <2>3. /\ Len(d) \in Nat /\ DOMAIN d = 1 .. Len(d)
        /\ \A i \in 1 .. Len(d) : d[i] \in E
    BY <2>1
  <2> QED
    BY <2>1, <2>2, <2>3
<1> HIDE DEF d
<1>5. s = Mapped(F, c) /\ t = Mapped(F, d)
  BY <1>4 DEF Mapped
<1>6. t = Append(s, Piece(ch)) /\ s \in Seq(Q)
  <2>1. Mapped(F, Append(c, ch)) = Append(Mapped(F, c), F[ch]) /\ Mapped(F, c) \in Seq(Q)
    <3> HIDE DEF F
    <3>1. MapAppend(F, E) /\ MapType(F, E, Q)
      BY <1>3, MappedAppend, MappedType
    <3> QED
      BY <1>2, <3>1, Zenon DEF MapAppend, MapType
  <2>2. F[ch] = Piece(ch)
    BY <1>2
  <2> HIDE DEF s, t, F
  <2> QED
    BY <1>5, <2>1, <2>2 DEF d
<1>7. Piece(ch) \in Q
  BY <1>1, <1>2
<1> HIDE DEF s
<1>8. FlattenSeq(Append(s, Piece(ch))) = FlattenSeq(s) \o Piece(ch) /\ FlattenSeq(s) \in Seq(D)
  BY <1>6, <1>7, FlattenAppend DEF Q
<1>9. TokensOf(c) = FlattenSeq(s) /\ TokensOf(d) = FlattenSeq(t)
  BY DEF TokensOf, s
<1> HIDE DEF t
<1> QED
  BY <1>6, <1>7, <1>8, <1>9 DEF d, Q

LEMMA TokensOfEmpty ==
  TokensOf(<<>>) = <<>>
<1>1. [i \in DOMAIN <<>> |-> Piece(<<>>[i])] = <<>>
  OBVIOUS
<1> QED
  BY <1>1, FlattenEmpty DEF TokensOf

LEMMA FrontLast ==
  ASSUME NEW D, NEW c \in Seq(D), c # <<>>
  PROVE  /\ Front(c) \in Seq(D) /\ Last(c) \in D /\ Len(Front(c)) = Len(c) - 1
         /\ c = Append(Front(c), Last(c))
         /\ \A i \in 1 .. (Len(c) - 1) : Front(c)[i] = c[i]
<1>1. Len(c) \in Nat \ {0} /\ \A i \in 1 .. Len(c) : c[i] \in D
  OBVIOUS
<1>2. /\ Front(c) \in Seq(D) /\ Len(Front(c)) = Len(c) - 1
      /\ \A i \in 1 .. (Len(c) - 1) : Front(c)[i] = c[i]
  BY <1>1 DEF Front
<1>3. Last(c) \in D
  BY <1>1 DEF Last
<1>4. c = Append(SubSeq(c, 1, Len(c) - 1), c[Len(c)])
  BY <1>1
<1> QED
  BY <1>2, <1>3, <1>4 DEF Front, Last

LEMMA FrontLastAppend ==
  ASSUME NEW D, NEW c \in Seq(D), NEW x \in D
  PROVE  Front(Append(c, x)) = c /\ Last(Append(c, x)) = x
BY DEF Front, Last

\* Parsing loses no token.
LEMMA ChunksKeepTokens ==
  ASSUME NEW D, NEW q \in Seq(D)
  PROVE  TokensOf(Chunks(q)) = q
<1>a. AppendsLast(D)
  BY AppendLast
<1> DEFINE S == {s \in Seq(D) : TokensOf(Chunks(s)) = s}
<1>1. <<>> \in S
  BY ChunksEmpty, TokensOfEmpty
<1>2. ASSUME NEW s \in Seq(D), NEW x \in D, s \in S PROVE Append(s, x) \in S
  <2> DEFINE c == Chunks(s)
  <2>1. /\ c \in Seq(ChunkSet(D)) /\ TokensOf(c) = s
        /\ Chunks(Append(s, x)) = PushToken(c, x)
    BY <1>2, ChunksAppend
  <2> HIDE DEF c
  <2>2. /\ <<x>> \in Seq(D) /\ s \o <<x>> = Append(s, x)
        /\ Append(s, x) \in Seq(D)
    OBVIOUS
  <2>3. TokensOf(PushToken(c, x)) = Append(s, x)
    <3>1. CASE IsName(x)
      <4>1. x # Nil
        BY <3>1, TokensAssumption DEF IsName
      <4>2. Placeholder(x) \in ChunkSet(D) /\ Piece(Placeholder(x)) = <<x>>
        BY <4>1 DEF Placeholder, ChunkSet, Piece
      <4>3. PushToken(c, x) = Append(c, Placeholder(x))
        BY <3>1 DEF PushToken
      <4>4. TokensOf(Append(c, Placeholder(x))) = TokensOf(c) \o Piece(Placeholder(x))
        BY <2>1, <4>2, TokensOfAppend
      <4> QED
        BY <2>1, <2>2, <4>2, <4>3, <4>4
    <3>2. CASE ~ IsName(x) /\ c # <<>> /\ Last(c).name = Nil
      <4>1. /\ Front(c) \in Seq(ChunkSet(D)) /\ Last(c) \in ChunkSet(D)
            /\ c = Append(Front(c), Last(c))
        BY <2>1, <3>2, FrontLast
      <4> DEFINE w == Last(c).text
                 f == TokensOf(Front(c))
                 new == TextChunk(Append(w, x))
      <4>2. w \in Seq(D) /\ Piece(Last(c)) = w
        BY <3>2, <4>1 DEF ChunkSet, Piece
      <4>3. s = f \o w /\ f \in Seq(D)
        BY <2>1, <4>1, <4>2, TokensOfAppend
      <4> HIDE DEF w, f
      <4>4. new \in ChunkSet(D) /\ Piece(new) = Append(w, x)
        BY <4>2 DEF TextChunk, ChunkSet, Piece
      <4>5. PushToken(c, x) = Append(Front(c), new)
        BY <3>2 DEF PushToken, w
      <4> HIDE DEF new
      <4>6. TokensOf(Append(Front(c), new)) = f \o Append(w, x)
        BY <4>1, <4>4, TokensOfAppend DEF f
      <4>7. Append(f \o w, x) = f \o Append(w, x)
        BY <1>a, <4>2, <4>3, Zenon DEF AppendsLast
      <4> QED
        BY <4>3, <4>5, <4>6, <4>7
    <3>3. CASE ~ IsName(x) /\ ~ (c # <<>> /\ Last(c).name = Nil)
      <4>1. TextChunk(<<x>>) \in ChunkSet(D) /\ Piece(TextChunk(<<x>>)) = <<x>>
        BY <2>2 DEF TextChunk, ChunkSet, Piece
      <4>2. PushToken(c, x) = Append(c, TextChunk(<<x>>))
        BY <3>3 DEF PushToken
      <4>3. TokensOf(Append(c, TextChunk(<<x>>))) = TokensOf(c) \o Piece(TextChunk(<<x>>))
        BY <2>1, <4>1, TokensOfAppend
      <4> QED
        BY <2>1, <2>2, <4>1, <4>2, <4>3
    <3> QED
      BY <3>1, <3>2, <3>3
  <2> QED
    BY <2>1, <2>2, <2>3
<1> HIDE DEF S
<1>3. Seq(D) \subseteq S
  BY <1>1, <1>2, SeqInduction
<1> QED
  BY <1>3 DEF S

\* A name becomes a chunk of its own; a text becomes one or joins the last.
LEMMA PushTokenNames ==
  ASSUME NEW D, NEW c \in Seq(ChunkSet(D)), NEW x \in D
  PROVE  LET d == PushToken(c, x) IN
         /\ d # <<>> /\ Len(d) \in {Len(c), Len(c) + 1}
         /\ \A i \in 1 .. Len(c) : d[i].name = c[i].name
         /\ IsName(x) => d = Append(c, Placeholder(x))
         /\ Len(d) = Len(c) + 1 =>
               d[Len(c) + 1].name = IF IsName(x) THEN x ELSE Nil
<1> DEFINE d == PushToken(c, x)
           E == ChunkSet(D)
<1>1. c \in Seq(E)
  OBVIOUS
<1>2. CASE IsName(x)
  <2>1. d = Append(c, Placeholder(x)) /\ Placeholder(x).name = x
    BY <1>2 DEF PushToken, Placeholder
  <2> HIDE DEF d, E
  <2> QED
    BY <1>1, <1>2, <2>1 DEF d
<1>3. CASE ~ IsName(x) /\ c # <<>> /\ Last(c).name = Nil
  <2> DEFINE new == TextChunk(Append(Last(c).text, x))
  <2>1. d = Append(Front(c), new) /\ new.name = Nil
    BY <1>3 DEF PushToken, TextChunk
  <2> HIDE DEF d, E, new
  <2>2. /\ Front(c) \in Seq(E) /\ Len(Front(c)) = Len(c) - 1
        /\ \A i \in 1 .. (Len(c) - 1) : Front(c)[i] = c[i]
        /\ Len(c) \in Nat \ {0} /\ Last(c) = c[Len(c)]
    BY <1>1, <1>3, FrontLast DEF Last
  <2>3. /\ Len(d) = Len(c) /\ d # <<>> /\ d[Len(c)] = new
        /\ \A i \in 1 .. (Len(c) - 1) : d[i] = c[i]
    BY <2>1, <2>2
  <2>4. ASSUME NEW i \in 1 .. Len(c) PROVE d[i].name = c[i].name
    <3>1. i = Len(c) \/ i \in 1 .. (Len(c) - 1)
      BY <2>2
    <3> QED
      BY <1>3, <2>1, <2>2, <2>3, <3>1
  <2>5. Len(c) # Len(c) + 1
    BY <2>2
  <2> QED
    BY <1>3, <2>3, <2>4, <2>5 DEF d
<1>4. CASE ~ IsName(x) /\ ~ (c # <<>> /\ Last(c).name = Nil)
  <2>1. d = Append(c, TextChunk(<<x>>)) /\ TextChunk(<<x>>).name = Nil
    BY <1>4 DEF PushToken, TextChunk
  <2> HIDE DEF d, E
  <2> QED
    BY <1>1, <1>4, <2>1 DEF d
<1> QED
  BY <1>2, <1>3, <1>4

\* The placeholders are the names of the template, and a chunk starts as the
\* template does.
ParsedFrom(c, q) ==
    /\ c = <<>> <=> q = <<>>
    /\ \A i \in 1 .. Len(c) : c[i].name # Nil =>
          IsName(c[i].name) /\ \E k \in 1 .. Len(q) : q[k] = c[i].name
    /\ \A k \in 1 .. Len(q) : IsName(q[k]) =>
          \E i \in 1 .. Len(c) : c[i].name = q[k]
    /\ q # <<>> => c[1].name = IF IsName(q[1]) THEN q[1] ELSE Nil

LEMMA ChunksParsedFrom ==
  ASSUME NEW D, NEW q \in Seq(D)
  PROVE  ParsedFrom(Chunks(q), q)
<1> DEFINE S == {s \in Seq(D) : ParsedFrom(Chunks(s), s)}
<1>1. <<>> \in S
  BY ChunksEmpty DEF ParsedFrom
<1>2. ASSUME NEW s \in Seq(D), NEW x \in D, s \in S PROVE Append(s, x) \in S
  <2> DEFINE c == Chunks(s)
             d == PushToken(c, x)
             t == Append(s, x)
             n == Len(c)
             m == Len(s)
  <2>1. c \in Seq(ChunkSet(D)) /\ Chunks(t) = d /\ ParsedFrom(c, s)
    BY <1>2, ChunksAppend
  <2>2. d \in Seq(ChunkSet(D))
    BY <2>1, PushTokenType
  <2>3. /\ d # <<>> /\ Len(d) \in {n, n + 1}
        /\ \A i \in 1 .. n : d[i].name = c[i].name
        /\ IsName(x) => d = Append(c, Placeholder(x))
        /\ Len(d) = n + 1 => d[n + 1].name = IF IsName(x) THEN x ELSE Nil
    BY <2>1, PushTokenNames
  <2>4. /\ m \in Nat /\ t \in Seq(D) /\ Len(t) = m + 1 /\ t # <<>> /\ t[m + 1] = x
        /\ \A k \in 1 .. m : t[k] = s[k]
    OBVIOUS
  <2>5. n \in Nat /\ (c = <<>> <=> n = 0) /\ (s = <<>> <=> m = 0)
    <3> HIDE DEF c
    <3> QED
      BY <2>1
  <2>6. IsName(x) => Len(d) = n + 1
    <3> HIDE DEF c
    <3>1. \A ch : Len(Append(c, ch)) = n + 1
      BY <2>1
    <3> QED
      BY <2>3, <3>1
  <2> HIDE DEF c, d, t, n, m
  <2>7. ASSUME NEW i \in 1 .. Len(d), d[i].name # Nil
        PROVE  IsName(d[i].name) /\ \E k \in 1 .. Len(t) : t[k] = d[i].name
    <3>1. CASE i \in 1 .. n
      <4>1. d[i].name = c[i].name
        BY <2>3, <3>1
      <4>2. IsName(c[i].name) /\ \E k \in 1 .. m : s[k] = c[i].name
        BY <2>1, <2>7, <3>1, <4>1 DEF ParsedFrom, n, m
      <4>3. PICK k \in 1 .. m : s[k] = c[i].name
        BY <4>2
      <4>4. k \in 1 .. Len(t) /\ t[k] = c[i].name
        BY <2>4, <4>3
      <4> QED
        BY <4>1, <4>2, <4>4
    <3>2. CASE i \notin 1 .. n
      <4>1. i = n + 1 /\ Len(d) = n + 1
        BY <2>3, <2>5, <3>2
      <4>2. d[i].name = x /\ IsName(x)
        BY <2>3, <2>7, <4>1
      <4>3. m + 1 \in 1 .. Len(t)
        BY <2>4
      <4> QED
        BY <2>4, <4>2, <4>3
    <3> QED
      BY <3>1, <3>2
  <2>8. ASSUME NEW k \in 1 .. Len(t), IsName(t[k])
        PROVE  \E i \in 1 .. Len(d) : d[i].name = t[k]
    <3>1. CASE k \in 1 .. m
      <4>a. t[k] = s[k] /\ IsName(s[k]) /\ k \in 1 .. Len(s)
        BY <2>4, <2>8, <3>1 DEF m
      <4>b. \E i \in 1 .. Len(c) : c[i].name = s[k]
        BY <2>1, <4>a DEF ParsedFrom
      <4>1. PICK i \in 1 .. n : c[i].name = t[k]
        BY <4>a, <4>b DEF n
      <4>2. i \in 1 .. Len(d) /\ d[i].name = t[k]
        BY <2>3, <2>5, <4>1
      <4> QED
        BY <4>2
    <3>2. CASE k \notin 1 .. m
      <4>1. k = m + 1 /\ t[k] = x
        BY <2>4, <3>2
      <4>2. Len(d) = n + 1 /\ d[n + 1].name = x /\ n + 1 \in 1 .. Len(d)
        BY <2>3, <2>5, <2>6, <2>8, <4>1
      <4> QED
        BY <4>1, <4>2
    <3> QED
      BY <3>1, <3>2
  <2>9. d[1].name = IF IsName(t[1]) THEN t[1] ELSE Nil
    <3>1. CASE s = <<>>
      <4>1. n = 0 /\ m = 0 /\ t[1] = x
        BY <2>1, <2>4, <2>5, <3>1 DEF ParsedFrom
      <4>2. Len(d) = n + 1
        BY <2>2, <2>3, <4>1
      <4> QED
        BY <2>3, <4>1, <4>2
    <3>2. CASE s # <<>>
      <4>1. c[1].name = IF IsName(s[1]) THEN s[1] ELSE Nil
        BY <2>1, <3>2 DEF ParsedFrom
      <4>2. c # <<>>
        BY <2>1, <3>2 DEF ParsedFrom
      <4>3. 1 \in 1 .. n /\ 1 \in 1 .. m
        BY <2>4, <2>5, <3>2, <4>2
      <4> QED
        BY <2>3, <2>4, <4>1, <4>3
    <3> QED
      BY <3>1, <3>2
  <2>10. ParsedFrom(d, t)
    BY <2>3, <2>4, <2>7, <2>8, <2>9 DEF ParsedFrom
  <2> QED
    BY <2>1, <2>4, <2>10 DEF t
<1> HIDE DEF S
<1>3. Seq(D) \subseteq S
  BY <1>1, <1>2, SeqInduction
<1> QED
  BY <1>3 DEF S

\* The request that is made of a template: the text after the last
\* placeholder goes, if it is to go.
ParsedInto(d, t) ==
    /\ \A i \in 1 .. Len(d) : d[i].name # Nil =>
          IsName(d[i].name) /\ \E k \in 1 .. Len(t) : t[k] = d[i].name
    /\ \A k \in 1 .. Len(t) : IsName(t[k]) =>
          \E i \in 1 .. Len(d) : d[i].name = t[k]
    /\ d # <<>> => /\ t # <<>>
                   /\ d[1].name = IF IsName(t[1]) THEN t[1] ELSE Nil

LEMMA ParseTemplateFacts ==
  ASSUME NEW D, NEW t \in Seq(D), NEW rpf \in BOOLEAN
  PROVE  /\ ParseTemplate(t, rpf) \in Seq(ChunkSet(D))
         /\ ParsedInto(ParseTemplate(t, rpf), t)
<1> DEFINE c == Chunks(t)
           d == ParseTemplate(t, rpf)
<1>1. c \in Seq(ChunkSet(D))
  <2>1. PICK f \in [0 .. Len(t) -> Seq(ChunkSet(D))] :
             IsParse(f, t) /\ Chunks(t) = f[Len(t)]
    BY ChunksValue
  <2>2. Len(t) \in 0 .. Len(t)
    OBVIOUS
  <2> QED
    BY <2>1, <2>2
<1>2. ParsedFrom(c, t)
  BY ChunksParsedFrom
<1>3. d = IF rpf /\ c # <<>> /\ Last(c).name = Nil THEN Front(c) ELSE c
  BY DEF ParseTemplate
<1> HIDE DEF c, d
<1>4. CASE d = c
  <2>1. \A k \in 1 .. Len(t) : IsName(t[k]) =>
           \E i \in 1 .. Len(d) : d[i].name = t[k]
    BY <1>2, <1>4 DEF ParsedFrom
  <2> QED
    BY <1>1, <1>2, <1>4, <2>1 DEF ParsedFrom, ParsedInto, d
<1>5. CASE d # c
  <2>1. c # <<>> /\ Last(c).name = Nil /\ d = Front(c)
    BY <1>3, <1>5
  <2>2. /\ d \in Seq(ChunkSet(D)) /\ Len(d) = Len(c) - 1 /\ Len(c) \in Nat \ {0}
        /\ \A i \in 1 .. (Len(c) - 1) : d[i] = c[i]
    <3> DEFINE E == ChunkSet(D)
    <3>1. c \in Seq(E)
      BY <1>1
    <3> HIDE DEF E
    <3>2. /\ Front(c) \in Seq(E) /\ Len(Front(c)) = Len(c) - 1
          /\ \A i \in 1 .. (Len(c) - 1) : Front(c)[i] = c[i]
      BY <2>1, <3>1, FrontLast
    <3>3. Len(c) \in Nat \ {0}
      BY <2>1, <3>1
    <3> QED
      BY <2>1, <3>2, <3>3 DEF E
  <2>3. \A i \in 1 .. Len(d) : i \in 1 .. Len(c) /\ d[i] = c[i]
    BY <2>2
  <2>4. \A i \in 1 .. Len(d) : d[i].name # Nil =>
          IsName(d[i].name) /\ \E k \in 1 .. Len(t) : t[k] = d[i].name
    BY <1>2, <2>3 DEF ParsedFrom
  <2>5. ASSUME NEW k \in 1 .. Len(t), IsName(t[k])
        PROVE  \E i \in 1 .. Len(d) : d[i].name = t[k]
    <3>1. PICK i \in 1 .. Len(c) : c[i].name = t[k]
      BY <1>2, <2>5 DEF ParsedFrom
    <3>2. t[k] # Nil
      BY <2>5, TokensAssumption DEF IsName
    <3>3. i # Len(c)
      BY <2>1, <3>1, <3>2 DEF Last
    <3>4. i \in 1 .. Len(d) /\ d[i] = c[i]
      BY <2>2, <3>3
    <3> QED
      BY <3>1, <3>4
  <2>6. ASSUME d # <<>>
        PROVE  t # <<>> /\ d[1].name = IF IsName(t[1]) THEN t[1] ELSE Nil
    <3>1. t # <<>>
      BY <1>2, <2>1 DEF ParsedFrom
    <3>2. 1 \in 1 .. Len(d)
      BY <2>2, <2>6
    <3> QED
      BY <1>2, <2>3, <3>1, <3>2 DEF ParsedFrom
  <2> QED
    BY <2>2, <2>4, <2>5, <2>6 DEF ParsedInto, d
<1> QED
  BY <1>4, <1>5

LEMMA NoPruning ==
  ASSUME NEW t
  PROVE  ParseTemplate(t, FALSE) = Chunks(t)
BY DEF ParseTemplate

\* A template that ends with a placeholder keeps all of its chunks.
LEMMA PruneAfterName ==
  ASSUME NEW D, NEW s \in Seq(D), NEW o \in D, IsName(o), NEW rpf \in BOOLEAN
  PROVE  ParseTemplate(Append(s, o), rpf) = Chunks(Append(s, o))
<1> DEFINE E == ChunkSet(D)
           c == Chunks(s)
           p == Placeholder(o)
<1>1. c \in Seq(E) /\ Chunks(Append(s, o)) = PushToken(c, o)
  BY ChunksAppend
<1>2. PushToken(c, o) = Append(c, p)
  BY DEF PushToken
<1>3. p \in E /\ p.name = o /\ o # Nil
  BY TokensAssumption DEF IsName, Placeholder, ChunkSet
<1> HIDE DEF c, p, E
<1>4. Last(Append(c, p)) = p
  BY <1>1, <1>3, FrontLastAppend
<1>5. Last(Chunks(Append(s, o))).name # Nil
  BY <1>1, <1>2, <1>3, <1>4
<1> QED
  BY <1>5 DEF ParseTemplate

\* A text after the last placeholder is dropped.
LEMMA PruneAfterText ==
  ASSUME NEW D, NEW s \in Seq(D), NEW o \in D, IsName(o),
         NEW x \in D, ~ IsName(x)
  PROVE  ParseTemplate(Append(Append(s, o), x), TRUE) = Chunks(Append(s, o))
<1> DEFINE E == ChunkSet(D)
           c == Chunks(s)
           p == Placeholder(o)
           d == Append(c, p)
           w == TextChunk(<<x>>)
           r == Append(s, o)
<1>1. c \in Seq(E) /\ Chunks(r) = PushToken(c, o) /\ r \in Seq(D)
  BY ChunksAppend
<1>2. Chunks(Append(r, x)) = PushToken(Chunks(r), x)
  <2> HIDE DEF r
  <2> QED
    BY <1>1, ChunksAppend
<1>3. Chunks(r) = d
  BY <1>1 DEF PushToken
<1>4. p \in E /\ p.name = o /\ o # Nil /\ w \in E /\ w.name = Nil
  BY TokensAssumption DEF IsName, Placeholder, ChunkSet, TextChunk
<1> HIDE DEF c, p, w, E, r
<1>5. d \in Seq(E) /\ Last(d) = p
  BY <1>1, <1>4, FrontLastAppend
<1> HIDE DEF d
<1>6. Chunks(Append(r, x)) = Append(d, w)
  BY <1>2, <1>3, <1>4, <1>5 DEF PushToken, w
<1>7. Front(Append(d, w)) = d /\ Last(Append(d, w)) = w
  BY <1>4, <1>5, FrontLastAppend
<1>8. Append(d, w) # <<>>
  BY <1>5
<1> QED
  BY <1>3, <1>4, <1>6, <1>7, <1>8 DEF ParseTemplate, r

-----------------------------------------------------------------------------
(* The conversation template *)

\* What one more piece adds to a conversation.
Opening(b) == IF b = <<>> \/ IsOutput(Last(b)) THEN <<"user">> ELSE <<>>
Turn(x) == IF IsOutput(x) THEN <<"assistant", x, "sep">> ELSE <<x>>
Round(b, x) == Opening(b) \o Turn(x)

Rounds(b) ==
    [i \in DOMAIN b |->
        (IF i = 1 \/ IsOutput(b[i - 1]) THEN <<"user">> ELSE <<>>)
        \o (IF IsOutput(b[i]) THEN <<"assistant", b[i], "sep">>
                              ELSE <<b[i]>>)]

LEMMA ShortSequences ==
  ASSUME NEW U, NEW x \in U, NEW y \in U, NEW z \in U
  PROVE  <<>> \in Seq(U) /\ <<x>> \in Seq(U) /\ <<x, y, z>> \in Seq(U)
OBVIOUS

LEMMA RoundType ==
  ASSUME NEW D, NEW b \in Seq(D), NEW x \in D
  PROVE  /\ Opening(b) \in Seq(D \cup Roles) /\ Turn(x) \in Seq(D \cup Roles)
         /\ Round(b, x) \in Seq(D \cup Roles)
<1> DEFINE U == D \cup Roles
<1>1. "user" \in U /\ "assistant" \in U /\ "sep" \in U /\ x \in U
  BY DEF Roles
<1> HIDE DEF U
<1>2. /\ <<>> \in Seq(U) /\ <<"user">> \in Seq(U) /\ <<x>> \in Seq(U)
      /\ <<"assistant", x, "sep">> \in Seq(U)
  BY <1>1, ShortSequences
<1>3. Opening(b) \in Seq(U) /\ Turn(x) \in Seq(U)
  BY <1>2 DEF Opening, Turn
<1>4. Round(b, x) \in Seq(U)
  BY <1>3 DEF Round
<1> QED
  BY <1>3, <1>4 DEF U

LEMMA RoundsAppend ==
  ASSUME NEW D, NEW b \in Seq(D), NEW x \in D
  PROVE  /\ Rounds(Append(b, x)) = Append(Rounds(b), Round(b, x))
         /\ Rounds(b) \in Seq(Seq(D \cup Roles))
<1> DEFINE Q == Seq(D \cup Roles)
           n == Len(b)
           c == Append(b, x)
           piece(i) == (IF i = 1 \/ IsOutput(b[i - 1]) THEN <<"user">> ELSE <<>>)
                       \o (IF IsOutput(b[i]) THEN <<"assistant", b[i], "sep">>
                                             ELSE <<b[i]>>)
           r == Rounds(b)
           u == Append(r, Round(b, x))
<1>1. /\ n \in Nat /\ DOMAIN b = 1 .. n /\ DOMAIN c = 1 .. (n + 1)
      /\ c[n + 1] = x /\ (\A i \in 1 .. n : c[i] = b[i] /\ b[i] \in D)
      /\ (b = <<>> <=> n = 0)
  OBVIOUS
<1> HIDE DEF c
<1>2. ASSUME NEW i \in 1 .. n PROVE piece(i) \in Q
  <2> DEFINE U == D \cup Roles
  <2>1. "user" \in U /\ "assistant" \in U /\ "sep" \in U /\ b[i] \in U
    BY <1>1 DEF Roles
  <2> HIDE DEF U
  <2>2. /\ <<>> \in Seq(U) /\ <<"user">> \in Seq(U) /\ <<b[i]>> \in Seq(U)
        /\ <<"assistant", b[i], "sep">> \in Seq(U)
    BY <2>1, ShortSequences
  <2>3. piece(i) \in Seq(U)
    BY <2>2
  <2> QED
    BY <2>3 DEF U
<1>3. r = [i \in 1 .. n |-> piece(i)]
  BY <1>1 DEF Rounds
<1> HIDE DEF piece, Q
<1>4. r \in Seq(Q) /\ Len(r) = n /\ \A i \in 1 .. n : r[i] = piece(i)
  BY <1>1, <1>2, <1>3
<1>5. Round(b, x) \in Q
  BY RoundType DEF Q
<1> HIDE DEF r
<1>6. /\ u \in Seq(Q) /\ Len(u) = n + 1 /\ u[n + 1] = Round(b, x)
      /\ \A i \in 1 .. n : u[i] = piece(i)
  BY <1>1, <1>4, <1>5
<1> HIDE DEF u
<1>7. ASSUME NEW i \in 1 .. (n + 1)
      PROVE  (IF i = 1 \/ IsOutput(c[i - 1]) THEN <<"user">> ELSE <<>>)
             \o (IF IsOutput(c[i]) THEN <<"assistant", c[i], "sep">>
                                   ELSE <<c[i]>>) = u[i]
  <2>1. CASE i \in 1 .. n
    <3>1. c[i] = b[i] /\ (i = 1 \/ c[i - 1] = b[i - 1])
      BY <1>1, <2>1
    <3> QED
      BY <1>6, <2>1, <3>1 DEF piece
  <2>2. CASE i \notin 1 .. n
    <3>1. i = n + 1 /\ c[i] = x
      BY <1>1, <2>2
    <3>2. (i = 1 \/ IsOutput(c[i - 1])) <=> (b = <<>> \/ IsOutput(Last(b)))
      <4>1. CASE n = 0
        BY <1>1, <3>1, <4>1
      <4>2. CASE n # 0
        <5>1. i - 1 = n /\ i # 1 /\ c[n] = b[n]
          BY <1>1, <3>1, <4>2
        <5> QED
          BY <1>1, <4>2, <5>1 DEF Last
      <4> QED
        BY <4>1, <4>2
    <3> QED
      BY <1>6, <3>1, <3>2 DEF Round, Opening, Turn
  <2> QED
    BY <2>1, <2>2
<1>8. Rounds(c) = [i \in 1 .. (n + 1) |->
                     (IF i = 1 \/ IsOutput(c[i - 1]) THEN <<"user">> ELSE <<>>)
                     \o (IF IsOutput(c[i]) THEN <<"assistant", c[i], "sep">>
                                           ELSE <<c[i]>>)]
  BY <1>1 DEF Rounds
<1>9. Rounds(c) = [i \in 1 .. (n + 1) |-> u[i]]
  BY <1>7, <1>8
<1>10. u = [i \in 1 .. (n + 1) |-> u[i]]
  BY <1>6
<1> QED
  BY <1>4, <1>9, <1>10 DEF u, c, Q, r

ConcatRegroups(D) ==
  \A a, b, c \in Seq(D) : (a \o b) \o c = a \o (b \o c)

LEMMA ConcatRegroup ==
  ASSUME NEW D
  PROVE  ConcatRegroups(D)
BY ConcatAssociative DEF ConcatRegroups

LEMMA ConversationEmpty ==
  Conversation(<<>>) = <<"system">>
<1>1. Rounds(<<>>) = <<>>
  BY DEF Rounds
<1>2. Conversation(<<>>) = <<"system">> \o FlattenSeq(Rounds(<<>>))
  BY DEF Conversation, Rounds
<1>3. <<"system">> \o <<>> = <<"system">>
  OBVIOUS
<1> QED
  BY <1>1, <1>2, <1>3, FlattenEmpty

LEMMA ConversationAppend ==
  ASSUME NEW D, NEW b \in Seq(D), NEW x \in D
  PROVE  /\ Conversation(Append(b, x)) = Conversation(b) \o Round(b, x)
         /\ Conversation(b) \in Seq(D \cup Roles)
<1> DEFINE U == D \cup Roles
           s == <<"system">>
           f == FlattenSeq(Rounds(b))
           r == Round(b, x)
<1>1. s \in Seq(U) /\ r \in Seq(U)
  BY RoundType DEF Roles
<1>2. /\ Rounds(Append(b, x)) = Append(Rounds(b), r)
      /\ Rounds(b) \in Seq(Seq(U))
  BY RoundsAppend
<1> HIDE DEF U, s, r
<1>3. FlattenSeq(Append(Rounds(b), r)) = f \o r /\ f \in Seq(U)
  BY <1>1, <1>2, FlattenAppend
<1>4. /\ Conversation(b) = s \o f
      /\ Conversation(Append(b, x)) = s \o FlattenSeq(Rounds(Append(b, x)))
  BY DEF Conversation, Rounds, s
<1>5. ConcatRegroups(U)
  BY ConcatRegroup
<1> HIDE DEF f
<1>6. (s \o f) \o r = s \o (f \o r)
  BY <1>1, <1>3, <1>5, Zenon DEF ConcatRegroups
<1>7. s \o f \in Seq(U)
  BY <1>1, <1>3
<1> QED
  BY <1>2, <1>3, <1>4, <1>6, <1>7 DEF r, U

\* A conversation, extended by one piece, token by token.
Opened(b) == IF b = <<>> \/ IsOutput(Last(b)) THEN Append(Conversation(b), "user")
                                              ELSE Conversation(b)

LEMMA ConversationGrows ==
  ASSUME NEW D, NEW b \in Seq(D), NEW x \in D
  PROVE  /\ Conversation(b) \in Seq(D \cup Roles) /\ Opened(b) \in Seq(D \cup Roles)
         /\ Conversation(Append(b, x)) =
               IF IsOutput(x)
               THEN Append(Append(Append(Opened(b), "assistant"), x), "sep")
               ELSE Append(Opened(b), x)
<1> DEFINE U == D \cup Roles
           c == Conversation(b)
           o == Opened(b)
<1>1. c \in Seq(U) /\ Conversation(Append(b, x)) = c \o Round(b, x)
  BY ConversationAppend
<1>2. Opening(b) \in Seq(U) /\ Turn(x) \in Seq(U) /\ Round(b, x) = Opening(b) \o Turn(x)
  BY RoundType DEF Round
<1>3. "user" \in U /\ "assistant" \in U /\ "sep" \in U /\ x \in U
  BY DEF Roles
<1> HIDE DEF U, c, o
<1>4. ConcatRegroups(U)
  BY ConcatRegroup
<1>5. Conversation(Append(b, x)) = (c \o Opening(b)) \o Turn(x)
  <2> DEFINE p == Opening(b)
             t == Turn(x)
  <2>1. c \in Seq(U) /\ p \in Seq(U) /\ t \in Seq(U)
    BY <1>1, <1>2
  <2>2. Conversation(Append(b, x)) = c \o (p \o t)
    BY <1>1, <1>2
  <2> HIDE DEF p, t
  <2>3. (c \o p) \o t = c \o (p \o t)
    BY <1>4, <2>1, Zenon DEF ConcatRegroups
  <2> QED
    BY <2>2, <2>3 DEF p, t
<1>6. c \o Opening(b) = o
  <2>1. c \o <<"user">> = Append(c, "user") /\ c \o <<>> = c
    BY <1>1, <1>3
  <2> QED
    BY <2>1 DEF Opening, Opened, o, c
<1>7. o \in Seq(U)
  <2>1. Append(c, "user") \in Seq(U)
    BY <1>1, <1>3
  <2> QED
    BY <1>1, <2>1 DEF Opened, o, c
<1>8. o \o Turn(x) = IF IsOutput(x)
                     THEN Append(Append(Append(o, "assistant"), x), "sep")
                     ELSE Append(o, x)
  <2>1. o \o <<x>> = Append(o, x)
    BY <1>3, <1>7
  <2>2. o \o <<"assistant", x, "sep">>
          = Append(Append(Append(o, "assistant"), x), "sep")
    <3>1. /\ <<"assistant", x, "sep">> = Append(<<"assistant", x>>, "sep")
          /\ <<"assistant", x>> = Append(<<"assistant">>, x)
          /\ <<"assistant">> \in Seq(U) /\ <<"assistant", x>> \in Seq(U)
          /\ o \o <<"assistant">> = Append(o, "assistant")
      BY <1>3, <1>7
    <3>2. AppendsLast(U)
      BY AppendLast
    <3>3. o \o Append(<<"assistant">>, x) = Append(o \o <<"assistant">>, x)
      BY <1>3, <1>7, <3>1, <3>2, Zenon DEF AppendsLast
    <3>4. o \o Append(<<"assistant", x>>, "sep") = Append(o \o <<"assistant", x>>, "sep")
      BY <1>3, <1>7, <3>1, <3>2, Zenon DEF AppendsLast
    <3> QED
      BY <3>1, <3>3, <3>4
  <2> QED
    BY <2>1, <2>2 DEF Turn
<1> QED
  BY <1>1, <1>5, <1>6, <1>7, <1>8 DEF U, c, o

-----------------------------------------------------------------------------
(* Rendering a conversation *)

\* The pieces of a formatted docstring, and the tokens of a conversation.
Shown == DOMAIN Typ \cup {"word", Nil}
Script == Shown \cup Roles

\* A rendering leaves roles and outputs alone and makes neither of anything
\* else.
Renders(F) ==
    /\ \A x \in Roles \cup Outputs \cup {Nil} : F[x] = x
    /\ \A x \in Shown : F[x] \notin Roles
    /\ \A x \in Shown \ Outputs : F[x] \notin Outputs

LEMMA Vocabulary ==
  /\ Outputs \subseteq Shown /\ Nil \in Shown /\ Nil \notin Outputs
  /\ Shown \cap Roles = {} /\ Outputs \cap Roles = {}
  /\ "system" \in Roles /\ "user" \in Roles /\ "assistant" \in Roles /\ "sep" \in Roles
  /\ Shown \cup Roles = Script
  /\ \A x : IsOutput(x) <=> x \in Outputs
BY TokensAssumption DEF Outputs, IsOutput, Shown, Script, Roles, Nil

LEMMA RenderedStep ==
  ASSUME NEW F, NEW q \in Seq(Script), NEW x \in Script
  PROVE  /\ \A Z : Without(Mapped(F, Append(q, x)), Z) =
               IF F[x] \in Z THEN Without(Mapped(F, q), Z)
               ELSE Append(Without(Mapped(F, q), Z), F[x])
         /\ \A X : Only(Mapped(F, Append(q, x)), X) =
               IF F[x] \in X THEN Append(Only(Mapped(F, q), X), F[x])
               ELSE Only(Mapped(F, q), X)
<1> DEFINE R == {F[y] : y \in Script}
           m == Mapped(F, q)
<1>1. \A y \in Script : F[y] \in R
  OBVIOUS
<1> HIDE DEF R
<1>2. MapType(F, Script, R) /\ MapAppend(F, Script)
  BY <1>1, MappedType, MappedAppend
<1>3. m \in Seq(R) /\ Mapped(F, Append(q, x)) = Append(m, F[x]) /\ F[x] \in R
  BY <1>1, <1>2, Zenon DEF MapType, MapAppend
<1> HIDE DEF m
<1>4. \A Z : Without(Append(m, F[x]), Z) =
         IF F[x] \in Z THEN Without(m, Z) ELSE Append(Without(m, Z), F[x])
  <2> DEFINE y == F[x]
  <2> SUFFICES ASSUME NEW Z
               PROVE  Without(Append(m, y), Z) =
                         IF y \in Z THEN Without(m, Z) ELSE Append(Without(m, Z), y)
    OBVIOUS
  <2>1. m \in Seq(R) /\ y \in R
    BY <1>3
  <2> HIDE DEF y
  <2> QED
    BY <2>1, WithoutAppend
<1>5. \A X : Only(Append(m, F[x]), X) =
         IF F[x] \in X THEN Append(Only(m, X), F[x]) ELSE Only(m, X)
  BY <1>3, OnlyAppend
<1> QED
  BY <1>3, <1>4, <1>5 DEF m

\* Without its roles a conversation says what the pieces say.
LEMMA ConversationMeans ==
  ASSUME NEW F, Renders(F), NEW p \in Seq(Shown)
  PROVE  Without(Mapped(F, Conversation(p)), {Nil} \cup Roles)
            = Without(Mapped(F, p), {Nil} \cup Roles)
<1> DEFINE Z == {Nil} \cup Roles
           W(q) == Without(Mapped(F, q), Z)
           S == {q \in Seq(Shown) : W(Conversation(q)) = W(q)}
<1>0. \A q \in Seq(Script), x \in Script :
         W(Append(q, x)) = IF F[x] \in Z THEN W(q) ELSE Append(W(q), F[x])
  BY RenderedStep
<1>1. \A q \in Seq(Script), x \in Roles : W(Append(q, x)) = W(q)
  <2>1. \A x \in Roles : F[x] \in Z /\ x \in Script
    BY Vocabulary DEF Renders
  <2> HIDE DEF W, Z
  <2> QED
    BY <1>0, <2>1
<1>2. <<>> \in S
  <2>1. <<>> \in Seq(Script) /\ <<>> \in Seq(Shown) /\ Append(<<>>, "system") = <<"system">>
    OBVIOUS
  <2>2. W(Append(<<>>, "system")) = W(<<>>)
    <3> HIDE DEF W
    <3> QED
      BY <1>1, <2>1, Vocabulary
  <2> HIDE DEF W
  <2> QED
    BY <2>1, <2>2, ConversationEmpty
<1>3. ASSUME NEW q \in Seq(Shown), NEW x \in Shown, q \in S PROVE Append(q, x) \in S
  <2> DEFINE c == Conversation(q)
             o == Opened(q)
             a == Append(o, "assistant")
             b == Append(a, x)
  <2> HIDE DEF W
  <2>1. /\ c \in Seq(Script) /\ o \in Seq(Script)
        /\ Conversation(Append(q, x)) =
              IF IsOutput(x) THEN Append(b, "sep") ELSE Append(o, x)
    BY Vocabulary, ConversationGrows
  <2> HIDE DEF c, o
  <2>2. x \in Script /\ q \in Seq(Script) /\ Append(q, x) \in Seq(Shown)
    <3>1. \A y : y \in Shown => y \in Script
      BY Vocabulary
    <3> QED
      BY <3>1
  <2>3. W(o) = W(q)
    <3>1. W(c) = W(q)
      BY <1>3 DEF c
    <3>2. o = c \/ o = Append(c, "user")
      BY DEF o, c, Opened
    <3> QED
      BY <1>1, <2>1, <3>1, <3>2, Vocabulary
  <2>4. a \in Seq(Script) /\ b \in Seq(Script) /\ W(a) = W(q)
    <3>1. "assistant" \in Script
      BY Vocabulary
    <3>2. a \in Seq(Script)
      BY <2>1, <3>1
    <3>3. W(a) = W(o)
      BY <1>1, <2>1, Vocabulary
    <3> HIDE DEF a
    <3> QED
      BY <2>2, <2>3, <3>2, <3>3
  <2>5. /\ W(b) = IF F[x] \in Z THEN W(a) ELSE Append(W(a), F[x])
        /\ W(Append(o, x)) = IF F[x] \in Z THEN W(o) ELSE Append(W(o), F[x])
        /\ W(Append(q, x)) = IF F[x] \in Z THEN W(q) ELSE Append(W(q), F[x])
    <3> HIDE DEF a, Z
    <3> QED
      BY <1>0, <2>1, <2>2, <2>4
  <2>6. W(Append(b, "sep")) = W(b)
    <3> HIDE DEF b
    <3> QED
      BY <1>1, <2>4, Vocabulary
  <2> HIDE DEF a, b
  <2>7. W(Conversation(Append(q, x))) = W(Append(q, x))
    BY <2>1, <2>3, <2>4, <2>5, <2>6
  <2> QED
    BY <2>2, <2>7
<1> HIDE DEF S
<1>4. Seq(Shown) \subseteq S
  BY <1>2, <1>3, SeqInduction
<1> QED
  BY <1>4 DEF S

\* Every output comes after the assistant's role, and that after the user's,
\* which opens every round.
Alternates(s) ==
    \A i \in DOMAIN s :
        /\ IsOutput(s[i]) => i > 2 /\ s[i - 1] = "assistant" /\ s[i - 2] = "user"
        /\ s[i] = "user" => i = 1 \/ IsOutput(s[i - 1])

\* The speakers of a conversation over p so far.
Speaks(s, p) ==
    /\ Alternates(s)
    /\ p = <<>> <=> s = <<>>
    /\ p # <<>> => (IsOutput(Last(s)) <=> IsOutput(Last(p)))
    /\ p # <<>> /\ ~ IsOutput(Last(p)) => Last(s) = "user"

\* No output starts a docstring or follows another output.
Separated(p) ==
    \A i \in 1 .. Len(p) : IsOutput(p[i]) => i # 1 /\ ~ IsOutput(p[i - 1])

\* The four ways in which a sequence of speakers grows.
LEMMA AlternatesAppend ==
  ASSUME NEW D, NEW s \in Seq(D), NEW x \in D, Alternates(s),
         IsOutput(x) => Len(s) > 1 /\ s[Len(s)] = "assistant" /\ s[Len(s) - 1] = "user",
         x = "user" => s = <<>> \/ IsOutput(s[Len(s)])
  PROVE  Alternates(Append(s, x))
<1> DEFINE t == Append(s, x)
<1>1. /\ Len(s) \in Nat /\ DOMAIN s = 1 .. Len(s) /\ DOMAIN t = 1 .. (Len(s) + 1)
      /\ t[Len(s) + 1] = x /\ (\A i \in 1 .. Len(s) : t[i] = s[i])
      /\ (s = <<>> => Len(s) = 0)
  OBVIOUS
<1> HIDE DEF t
<1>2. ASSUME NEW i \in 1 .. (Len(s) + 1)
      PROVE  /\ IsOutput(t[i]) => i > 2 /\ t[i - 1] = "assistant" /\ t[i - 2] = "user"
             /\ t[i] = "user" => i = 1 \/ IsOutput(t[i - 1])
  <2>1. CASE i \in 1 .. Len(s)
    <3>1. t[i] = s[i] /\ (i > 1 => t[i - 1] = s[i - 1]) /\ (i > 2 => t[i - 2] = s[i - 2])
      BY <1>1, <2>1
    <3>2. /\ IsOutput(s[i]) => i > 2 /\ s[i - 1] = "assistant" /\ s[i - 2] = "user"
          /\ s[i] = "user" => i = 1 \/ IsOutput(s[i - 1])
      BY <1>1, <2>1 DEF Alternates
    <3>3. i = 1 \/ i > 1
      BY <1>1
    <3> QED
      BY <3>1, <3>2, <3>3
  <2>2. CASE i \notin 1 .. Len(s)
    <3>1. i = Len(s) + 1 /\ t[i] = x /\ i - 1 = Len(s) /\ i - 2 = Len(s) - 1
      BY <1>1, <2>2
    <3>2. Len(s) > 1 => /\ t[Len(s)] = s[Len(s)] /\ t[Len(s) - 1] = s[Len(s) - 1]
                        /\ i > 2
      BY <1>1, <3>1
    <3>3. s # <<>> => t[Len(s)] = s[Len(s)]
      <4>1. s # <<>> => Len(s) # 0
        OBVIOUS
      <4> QED
        BY <1>1, <4>1
    <3>4. s = <<>> => i = 1
      BY <1>1, <3>1
    <3> QED
      BY <3>1, <3>2, <3>3, <3>4
  <2> QED
    BY <2>1, <2>2
<1> QED
  BY <1>1, <1>2 DEF Alternates, t

LEMMA ConversationAlternates ==
  ASSUME NEW F, Renders(F), NEW p \in Seq(Shown), Separated(p)
  PROVE  Alternates(Only(Mapped(F, Conversation(p)),
                         {"user", "assistant"} \cup Outputs))
<1> DEFINE X == {"user", "assistant"} \cup Outputs
           U == {F[y] : y \in Script}
           O(q) == Only(Mapped(F, q), X)
           S == {q \in Seq(Shown) : Separated(q) => Speaks(O(Conversation(q)), q)}
<1>0. \A q \in Seq(Script), x \in Script :
         O(Append(q, x)) = IF F[x] \in X THEN Append(O(q), F[x]) ELSE O(q)
  BY RenderedStep
<1>a. \A q \in Seq(Script) : O(q) \in Seq(U)
  <2>1. \A y \in Script : F[y] \in U
    OBVIOUS
  <2> SUFFICES ASSUME NEW q \in Seq(Script) PROVE O(q) \in Seq(U)
    OBVIOUS
  <2> HIDE DEF U, X
  <2> DEFINE m == Mapped(F, q)
  <2>2. MapType(F, Script, U)
    BY <2>1, MappedType
  <2>3. m \in Seq(U)
    BY <2>2 DEF MapType
  <2> HIDE DEF m
  <2>4. Only(m, X) = Without(m, U \ X)
    BY <2>3, OnlyIsWithout
  <2>5. Without(m, U \ X) \in Seq(U \ (U \ X))
    BY <2>3, WithoutType
  <2>6. \A w : w \in Seq(U \ (U \ X)) => w \in Seq(U)
    OBVIOUS
  <2> QED
    BY <2>4, <2>5, <2>6 DEF m
<1>b. /\ F["user"] = "user" /\ F["assistant"] = "assistant" /\ F["sep"] = "sep"
      /\ F["system"] = "system" /\ "system" \notin X /\ "sep" \notin X
      /\ "user" \in X /\ "assistant" \in X
      /\ "user" \in Script /\ "assistant" \in Script /\ "sep" \in Script
      /\ "system" \in Script
      /\ \A x \in Outputs : F[x] = x /\ x \in X
      /\ \A x \in Shown \ Outputs : F[x] \notin X
      /\ \A x \in Outputs : x # "user" /\ x # "assistant"
  BY Vocabulary DEF Renders
<1> HIDE DEF O, X
<1>1. <<>> \in S
  <2>1. <<>> \in Seq(Script) /\ <<>> \in Seq(Shown) /\ Append(<<>>, "system") = <<"system">>
    OBVIOUS
  <2>2. O(<<"system">>) = O(<<>>)
    <3> DEFINE e == <<>>
    <3>1. e \in Seq(Script) /\ "system" \in Script /\ ~ (F["system"] \in X)
          /\ Append(e, "system") = <<"system">>
      BY <1>b, <2>1
    <3> HIDE DEF e
    <3>2. O(Append(e, "system")) = O(e)
      BY <1>0, <3>1, Zenon
    <3>3. O(<<"system">>) = O(e)
      BY <3>1, <3>2, Zenon
    <3> QED
      BY <3>3 DEF e
  <2>3. O(<<>>) = <<>>
    BY OnlyEmpty, MappedEmpty DEF O
  <2>4. Speaks(<<>>, <<>>)
    BY DEF Speaks, Alternates
  <2> QED
    BY <2>1, <2>2, <2>3, <2>4, ConversationEmpty
<1>2. ASSUME NEW q \in Seq(Shown), NEW x \in Shown, q \in S PROVE Append(q, x) \in S
  <2> DEFINE c == Conversation(q)
             o == Opened(q)
             a == Append(o, "assistant")
             b == Append(a, x)
             t == Append(q, x)
             s == O(c)
             u == O(o)
  <2>1. /\ c \in Seq(Script) /\ o \in Seq(Script)
        /\ Conversation(t) = IF IsOutput(x) THEN Append(b, "sep") ELSE Append(o, x)
    BY Vocabulary, ConversationGrows
  <2>2. /\ x \in Script /\ t \in Seq(Shown) /\ Len(t) = Len(q) + 1 /\ t[Len(q) + 1] = x
        /\ Len(q) \in Nat /\ (q = <<>> <=> Len(q) = 0) /\ t # <<>>
        /\ Last(t) = x /\ (\A i \in 1 .. Len(q) : t[i] = q[i])
    <3>1. x \in Script
      BY Vocabulary
    <3> QED
      BY <3>1 DEF Last
  <2>3. a \in Seq(Script) /\ b \in Seq(Script)
    <3> HIDE DEF o
    <3>1. a \in Seq(Script)
      BY <1>b, <2>1
    <3> HIDE DEF a
    <3> QED
      BY <2>2, <3>1
  <2> SUFFICES ASSUME Separated(t) PROVE Speaks(O(Conversation(t)), t)
    BY <2>2 DEF t
  <2> HIDE DEF t
  <2>4. Separated(q)
    <3> SUFFICES ASSUME NEW i \in 1 .. Len(q), IsOutput(q[i])
                 PROVE  i # 1 /\ ~ IsOutput(q[i - 1])
      BY DEF Separated
    <3>1. i \in 1 .. Len(t) /\ t[i] = q[i] /\ (i # 1 => t[i - 1] = q[i - 1])
      BY <2>2
    <3> QED
      BY <3>1 DEF Separated
  <2>5. IsOutput(x) => q # <<>> /\ ~ IsOutput(Last(q))
    <3> SUFFICES ASSUME IsOutput(x) PROVE q # <<>> /\ ~ IsOutput(Last(q))
      OBVIOUS
    <3>1. Len(q) + 1 # 1 /\ ~ IsOutput(t[(Len(q) + 1) - 1])
      <4>1. Len(q) + 1 \in 1 .. Len(t)
        BY <2>2
      <4> QED
        BY <2>2, <4>1 DEF Separated
    <3>2. (Len(q) + 1) - 1 = Len(q) /\ Len(q) \in 1 .. Len(q)
      BY <2>2, <3>1
    <3> QED
      BY <2>2, <3>1, <3>2 DEF Last
  <2>6. Speaks(s, q) /\ s \in Seq(U)
    BY <1>2, <1>a, <2>1, <2>4
  <2> HIDE DEF c, o, s, u
  <2>7. /\ u = IF q = <<>> \/ IsOutput(Last(q)) THEN Append(s, "user") ELSE s
        /\ u \in Seq(U)
    <3>1. o = IF q = <<>> \/ IsOutput(Last(q)) THEN Append(c, "user") ELSE c
      BY DEF o, c, Opened
    <3>2. O(Append(c, "user")) = Append(O(c), "user")
      BY <1>0, <1>b, <2>1
    <3>3. O(o) \in Seq(U)
      BY <1>a, <2>1
    <3> QED
      BY <3>1, <3>2, <3>3 DEF s, u
  <2>8. Alternates(u) /\ u # <<>> /\ Last(u) = "user"
    <3>1. CASE q = <<>> \/ IsOutput(Last(q))
      <4>1. u = Append(s, "user")
        BY <2>7, <3>1
      <4>2. s = <<>> \/ IsOutput(s[Len(s)])
        BY <2>6, <3>1 DEF Speaks, Last
      <4>3. "user" \in U /\ ~ IsOutput("user")
        BY <1>b, Vocabulary
      <4>4. Alternates(u)
        BY <2>6, <4>1, <4>2, <4>3, AlternatesAppend DEF Speaks
      <4>5. Append(s, "user") # <<>> /\ Last(Append(s, "user")) = "user"
        BY <2>6, <4>3 DEF Last
      <4> QED
        BY <4>1, <4>4, <4>5
    <3>2. CASE ~ (q = <<>> \/ IsOutput(Last(q)))
      BY <2>6, <2>7, <3>2 DEF Speaks
    <3> QED
      BY <3>1, <3>2
  <2>9. CASE ~ IsOutput(x)
    <3>1. Conversation(t) = Append(o, x) /\ F[x] \notin X
      BY <1>b, <2>1, <2>9, Vocabulary
    <3>2. O(Append(o, x)) = u
      BY <1>0, <2>1, <2>2, <3>1 DEF u
    <3>3. ~ IsOutput(Last(u))
      BY <1>b, <2>8, Vocabulary
    <3> QED
      BY <2>2, <2>8, <2>9, <3>1, <3>2, <3>3 DEF Speaks
  <2>10. CASE IsOutput(x)
    <3> DEFINE v == Append(u, "assistant")
               w == Append(v, x)
    <3>1. x \in Outputs /\ F[x] = x /\ x \in X
      BY <1>b, <2>10, Vocabulary
    <3>2. u = s /\ "assistant" \in U /\ x \in U
      <4>1. u = s
        BY <2>5, <2>7, <2>10
      <4>2. F["assistant"] \in U /\ F[x] \in U
        BY <1>b, <2>2
      <4> QED
        BY <1>b, <3>1, <4>1, <4>2
    <3>3. O(Conversation(t)) = w
      <4>1. O(a) = v
        BY <1>0, <1>b, <2>1 DEF u
      <4> HIDE DEF a
      <4>2. O(b) = Append(O(a), x)
        BY <1>0, <2>2, <2>3, <3>1
      <4> HIDE DEF b
      <4>3. O(Append(b, "sep")) = O(b)
        BY <1>0, <1>b, <2>3
      <4> QED
        BY <2>1, <2>10, <4>1, <4>2, <4>3
    <3>4. Len(u) \in Nat \ {0} /\ u[Len(u)] = "user"
      BY <2>7, <2>8 DEF Last
    <3> HIDE DEF U
    <3>5. /\ v \in Seq(U) /\ Len(v) = Len(u) + 1 /\ v[Len(u) + 1] = "assistant"
          /\ v[Len(u)] = "user" /\ v # <<>>
      BY <2>7, <3>2, <3>4
    <3>6. Alternates(v)
      <4>1. ~ IsOutput("assistant") /\ "assistant" # "user"
        BY <1>b, Vocabulary
      <4> QED
        BY <2>7, <2>8, <3>2, <4>1, AlternatesAppend
    <3> HIDE DEF v
    <3>7. Alternates(w)
      <4>1. Len(v) > 1 /\ v[Len(v)] = "assistant" /\ v[Len(v) - 1] = "user"
        BY <3>4, <3>5
      <4>2. x # "user"
        BY <1>b, <3>1
      <4> QED
        BY <3>2, <3>5, <3>6, <4>1, <4>2, AlternatesAppend
    <3>8. w # <<>> /\ Last(w) = x
      BY <3>2, <3>5 DEF Last
    <3> HIDE DEF w
    <3> QED
      BY <2>2, <2>10, <3>3, <3>7, <3>8 DEF Speaks
  <2> QED
    BY <2>9, <2>10
<1> HIDE DEF S
<1>3. Seq(Shown) \subseteq S
  BY <1>1, <1>2, SeqInduction
<1>4. Speaks(O(Conversation(p)), p)
  BY <1>3 DEF S
<1> QED
  BY <1>4 DEF Speaks, O, X

-----------------------------------------------------------------------------
(* From the docstring to the body of the function *)

\* The pieces of a docstring that the decorator accepts.
Written == DOMAIN Typ \cup {"word", "indent"}

LEMMA AcceptedDocstring ==
  ASSUME NEW b \in Docstrings, ~ ParseFails(b)
  PROVE  b \in Seq(Written) /\ Separated(b)
<1>1. PICK m \in 0 .. MaxBody :
           b \in [1 .. m -> {"word", "indent", Unknown} \cup DOMAIN Typ]
  BY DEF Docstrings, BoundedSeq, SeqOf
<1>2. m \in Nat /\ DOMAIN b = 1 .. m
  BY <1>1, ParamsAssumption
<1>3. \A i \in 1 .. m : b[i] \in Written
  <2>1. \A i \in 1 .. m : b[i] # Unknown
    BY <1>2 DEF ParseFails
  <2> QED
    BY <1>1, <2>1 DEF Written
<1>4. b \in Seq(Written) /\ Len(b) = m
  BY <1>1, <1>2, <1>3
<1>5. Separated(b)
  <2> SUFFICES ASSUME NEW i \in 1 .. m, IsOutput(b[i])
               PROVE  i # 1 /\ ~ IsOutput(b[i - 1])
    BY <1>4 DEF Separated
  <2> QED
    BY <1>2 DEF ParseFails
<1> QED
  BY <1>4, <1>5

LEMMA LastOutputFacts ==
  ASSUME NEW D, NEW b \in Seq(D)
  PROVE  /\ LastOutput(b) \in 0 .. Len(b)
         /\ LastOutput(b) > 0 => IsOutput(b[LastOutput(b)])
         /\ \A i \in 1 .. Len(b) : IsOutput(b[i]) => i <= LastOutput(b)
<1> DEFINE G == {i \in DOMAIN b : IsOutput(b[i])}
           A == {0} \cup G
<1>1. Len(b) \in Nat /\ DOMAIN b = 1 .. Len(b) /\ G \subseteq 1 .. Len(b)
  OBVIOUS
<1>2. \E m \in A : \A j \in A : m >= j
  <2>1. CASE G = {}
    BY <2>1
  <2>2. CASE G # {}
    <3> HIDE DEF G
    <3>1. PICK m \in G : \A j \in G : j <= m
      BY <1>1, <2>2, Greatest
    <3>2. \A j \in A : m >= j
      BY <1>1, <3>1
    <3> QED
      BY <3>1, <3>2
  <2> QED
    BY <2>1, <2>2
<1>3. LastOutput(b) = Max(A)
  BY DEF LastOutput
<1> HIDE DEF A
<1>4. Max(A) \in A /\ \A j \in A : Max(A) >= j
  BY <1>2 DEF Max
<1>5. \A i \in G : i <= LastOutput(b)
  BY <1>1, <1>3, <1>4 DEF A
<1> QED
  BY <1>1, <1>3, <1>4, <1>5 DEF A

\* What the formatter makes of a piece, and of what is left of a docstring.
Shows == [x \in Written |-> IF IsName(x) THEN x ELSE VisitConstant(x)]
Formatted(b, rpf) == Transformed(ParseFuncBody(b, rpf))

LEMMA ShowsFacts ==
  ASSUME NEW x \in Written
  PROVE  /\ Shows[x] \in Shown
         /\ IsOutput(Shows[x]) <=> IsOutput(x)
         /\ IsOutput(x) => Shows[x] = x
<1>1. CASE IsName(x)
  <2>1. x \in DOMAIN Typ
    BY <1>1, TokensAssumption DEF Written, IsName
  <2> QED
    BY <1>1, <2>1 DEF Shows, Shown
<1>2. CASE ~ IsName(x)
  <2>1. ~ IsOutput(x) /\ x \in {"word", "indent"}
    BY <1>2 DEF IsOutput, IsName, Written
  <2>2. Shows[x] \in {"word", Nil}
    BY <1>2, <2>1 DEF Shows, VisitConstant
  <2>3. ~ IsOutput(Shows[x])
    BY <2>2, TokensAssumption DEF IsOutput
  <2> QED
    BY <2>1, <2>2, <2>3 DEF Shown
<1> QED
  BY <1>1, <1>2

LEMMA FormattedFacts ==
  ASSUME NEW b \in Seq(Written), Separated(b), NEW rpf \in BOOLEAN
  PROVE  LET p == Formatted(b, rpf)
             k == ParseFuncBody(b, rpf)
         IN  /\ p \in Seq(Shown) /\ Separated(p)
             /\ k \in Seq(Written) /\ p = Mapped(Shows, k)
             /\ rpf /\ p # <<>> => IsOutput(Last(p)) /\ LastOutput(b) > 0
             /\ \A o \in Outputs : (\E i \in 1 .. Len(b) : b[i] = o) =>
                                   (\E i \in 1 .. Len(p) : p[i] = o)
<1> DEFINE L == LastOutput(b)
           k == ParseFuncBody(b, rpf)
           p == Formatted(b, rpf)
           n == IF rpf THEN L ELSE Len(b)
<1>1. /\ L \in 0 .. Len(b) /\ (L > 0 => IsOutput(b[L]))
      /\ \A i \in 1 .. Len(b) : IsOutput(b[i]) => i <= L
  BY LastOutputFacts
<1>2. k = IF rpf THEN SubSeq(b, 1, L) ELSE b
  BY DEF ParseFuncBody
<1> HIDE DEF L, k
<1>3. /\ n \in 0 .. Len(b) /\ k \in Seq(Written) /\ Len(k) = n
      /\ \A i \in 1 .. n : k[i] = b[i] /\ b[i] \in Written
  <2>1. Len(b) \in Nat /\ \A i \in 1 .. Len(b) : b[i] \in Written
    OBVIOUS
  <2>2. CASE rpf
    <3>1. k = SubSeq(b, 1, L)
      BY <1>2, <2>2
    <3>2. SubSeq(b, 1, L) \in Seq(Written) /\ Len(SubSeq(b, 1, L)) = L
          /\ \A i \in 1 .. L : SubSeq(b, 1, L)[i] = b[i]
      BY <1>1, <2>1
    <3> QED
      BY <1>1, <2>1, <2>2, <3>1, <3>2
  <2>3. CASE ~ rpf
    BY <1>2, <2>1, <2>3
  <2> QED
    BY <2>2, <2>3
<1>4. \A x \in Written : Shows[x] \in Shown
  BY ShowsFacts
<1>5. p = Mapped(Shows, k)
  <2>1. \A i \in DOMAIN k : k[i] \in Written
    BY <1>3
  <2>2. p = [i \in DOMAIN k |-> IF IsName(k[i]) THEN k[i] ELSE VisitConstant(k[i])]
    BY DEF Formatted, Transformed, k
  <2> QED
    BY <2>1, <2>2 DEF Mapped, Shows
<1>6. MapType(Shows, Written, Shown)
  BY <1>4, MappedType
<1> HIDE DEF p
<1>7. p \in Seq(Shown) /\ Len(p) = n /\ \A i \in 1 .. n : p[i] = Shows[b[i]]
  <2>1. /\ p \in Seq(Shown) /\ Len(p) = Len(k)
        /\ \A i \in 1 .. Len(k) : p[i] = Shows[k[i]]
    BY <1>3, <1>5, <1>6 DEF MapType
  <2> QED
    BY <1>3, <2>1
<1>8. \A i \in 1 .. n : /\ IsOutput(p[i]) <=> IsOutput(b[i])
                        /\ IsOutput(b[i]) => p[i] = b[i]
  BY <1>3, <1>7, ShowsFacts
<1>9. Separated(p)
  <2> SUFFICES ASSUME NEW i \in 1 .. n, IsOutput(p[i])
               PROVE  i # 1 /\ ~ IsOutput(p[i - 1])
    BY <1>7 DEF Separated
  <2>1. i \in 1 .. Len(b) /\ IsOutput(b[i])
    BY <1>3, <1>8
  <2>2. i # 1 /\ ~ IsOutput(b[i - 1])
    BY <2>1 DEF Separated
  <2>3. i - 1 \in 1 .. n
    BY <1>3, <2>2
  <2> QED
    BY <1>8, <2>2, <2>3
<1>10. ASSUME rpf, p # <<>> PROVE IsOutput(Last(p)) /\ L > 0
  <2>1. n = L /\ n # 0
    BY <1>7, <1>10
  <2>2. L > 0 /\ n \in 1 .. n
    BY <1>1, <2>1
  <2> QED
    BY <1>1, <1>7, <1>8, <2>1, <2>2 DEF Last
<1>11. ASSUME NEW o \in Outputs, NEW i \in 1 .. Len(b), b[i] = o
       PROVE  \E j \in 1 .. Len(p) : p[j] = o
  <2>1. IsOutput(b[i])
    BY <1>11, Vocabulary
  <2>2. i \in 1 .. n
    BY <1>1, <1>3, <2>1
  <2> QED
    BY <1>7, <1>8, <1>11, <2>1, <2>2
<1> QED
  BY <1>3, <1>5, <1>7, <1>9, <1>10, <1>11 DEF L, k, p

-----------------------------------------------------------------------------
(* The template on the wire and the prompt that is parsed from it *)

BodyOf(p, conv) == IF conv THEN Conversation(p) ELSE p
Template(F, p, conv) == Without(Mapped(F, BodyOf(p, conv)), {Nil})
Rendering(F) == {F[y] : y \in Script}

LEMMA BodyType ==
  ASSUME NEW F, NEW p \in Seq(Shown), NEW conv \in BOOLEAN
  PROVE  /\ p \in Seq(Script) /\ BodyOf(p, conv) \in Seq(Script)
         /\ Mapped(F, p) \in Seq(Rendering(F))
         /\ Mapped(F, BodyOf(p, conv)) \in Seq(Rendering(F))
         /\ Template(F, p, conv) \in Seq(Rendering(F))
<1>1. \A x : x \in Shown => x \in Script
  BY Vocabulary
<1>2. p \in Seq(Script)
  BY <1>1
<1>3. Conversation(p) \in Seq(Script)
  <2>1. CASE p = <<>>
    <3>1. "system" \in Script
      BY Vocabulary
    <3>2. <<"system">> \in Seq(Script)
      BY <3>1, ShortSequences
    <3> QED
      BY <2>1, <3>2, ConversationEmpty
  <2>2. CASE p # <<>>
    <3>1. p[1] \in Shown
      BY <2>2
    <3> QED
      BY <3>1, Vocabulary, ConversationGrows
  <2> QED
    BY <2>1, <2>2
<1>4. BodyOf(p, conv) \in Seq(Script)
  BY <1>2, <1>3 DEF BodyOf
<1>5. MapType(F, Script, Rendering(F))
  <2>1. \A x \in Script : F[x] \in Rendering(F)
    BY DEF Rendering
  <2> QED
    BY <2>1, MappedType
<1>6. Mapped(F, p) \in Seq(Rendering(F)) /\ Mapped(F, BodyOf(p, conv)) \in Seq(Rendering(F))
  BY <1>2, <1>4, <1>5 DEF MapType
<1>7. Template(F, p, conv) \in Seq(Rendering(F))
  <2>1. Template(F, p, conv) \in Seq(Rendering(F) \ {Nil})
    BY <1>6, WithoutType DEF Template
  <2>2. \A s : s \in Seq(Rendering(F) \ {Nil}) => s \in Seq(Rendering(F))
    OBVIOUS
  <2> QED
    BY <2>1, <2>2
<1> QED
  BY <1>2, <1>4, <1>6, <1>7

\* Without its roles the template is what the formatted pieces render to.
LEMMA TemplateMeans ==
  ASSUME NEW F, Renders(F), NEW p \in Seq(Shown), NEW conv \in BOOLEAN
  PROVE  Without(Template(F, p, conv), Roles) = Without(Mapped(F, p), {Nil})
<1> DEFINE R == Rendering(F)
           m == Mapped(F, BodyOf(p, conv))
           w == Mapped(F, p)
<1>1. m \in Seq(R) /\ w \in Seq(R)
  BY BodyType
<1>2. Without(m, {Nil} \cup Roles) = Without(w, {Nil} \cup Roles)
  <2>1. CASE conv
    BY <2>1, ConversationMeans DEF BodyOf
  <2>2. CASE ~ conv
    BY <2>2 DEF BodyOf
  <2> QED
    BY <2>1, <2>2
<1>3. Template(F, p, conv) = Without(m, {Nil})
  BY DEF Template
<1> HIDE DEF m, R
<1>4. Without(Without(m, {Nil}), Roles) = Without(m, {Nil} \cup Roles)
  BY <1>1, WithoutTwice
<1>5. Without(w, {Nil} \cup Roles) = Without(w, {Nil})
  <2> DEFINE V == {F[x] : x \in Shown}
  <2>1. \A x \in Shown : F[x] \in V
    OBVIOUS
  <2>2. V \cap Roles = {}
    BY DEF Renders
  <2> HIDE DEF V
  <2>3. MapType(F, Shown, V)
    BY <2>1, MappedType
  <2>4. w \in Seq(V)
    BY <2>3 DEF MapType
  <2> DEFINE N == {Nil}
  <2> HIDE DEF w, N
  <2>5. \A i \in DOMAIN w : w[i] \notin Roles
    BY <2>2, <2>4
  <2>6. Without(w, N \cup Roles) = Without(w, N)
    BY <2>5, WithoutMore
  <2> QED
    BY <2>6 DEF N
<1> QED
  BY <1>2, <1>3, <1>4, <1>5 DEF w

\* An output among the pieces is in the template.
LEMMA TemplateHasOutputs ==
  ASSUME NEW F, Renders(F), NEW p \in Seq(Shown), NEW conv \in BOOLEAN,
         NEW o \in Outputs, \E i \in 1 .. Len(p) : p[i] = o
  PROVE  \E i \in 1 .. Len(Template(F, p, conv)) : Template(F, p, conv)[i] = o
<1> DEFINE t == Template(F, p, conv)
           w == Mapped(F, p)
           R == Rendering(F)
<1>1. F[o] = o /\ o \in Script /\ o \notin Roles /\ o # Nil
  BY Vocabulary DEF Renders
<1>2. o \in R
  BY <1>1 DEF Rendering
<1>3. w \in Seq(R) /\ t \in Seq(R) /\ p \in Seq(Script)
  BY BodyType
<1>4. Without(t, Roles) = Without(w, {Nil})
  BY TemplateMeans
<1> HIDE DEF t, w, R
<1>5. \E i \in 1 .. Len(w) : w[i] = o
  <2>1. PICK i \in 1 .. Len(p) : p[i] = o
    OBVIOUS
  <2>2. Len(w) = Len(p) /\ w[i] = F[p[i]]
    <3>1. \A x \in Script : F[x] \in R
      BY DEF R, Rendering
    <3>2. MapType(F, Script, R)
      BY <3>1, MappedType
    <3> QED
      BY <1>3, <3>2 DEF MapType, w
  <2> QED
    BY <1>1, <2>1, <2>2
<1>6. \E i \in 1 .. Len(Without(w, {Nil})) : Without(w, {Nil})[i] = o
  <2> DEFINE N == {Nil}
  <2>1. o \in R \ N
    BY <1>1, <1>2
  <2> HIDE DEF N
  <2>2. \A x \in R \ N : (\E i \in 1 .. Len(w) : w[i] = x) <=>
                          (\E i \in 1 .. Len(Without(w, N)) : Without(w, N)[i] = x)
    BY <1>3, WithoutElements
  <2>3. \E i \in 1 .. Len(Without(w, N)) : Without(w, N)[i] = o
    BY <1>5, <2>1, <2>2
  <2> QED
    BY <2>3 DEF N
<1>7. \E i \in 1 .. Len(t) : t[i] = o
  <2>1. o \in R \ Roles
    BY <1>1, <1>2
  <2> QED
    BY <1>3, <1>4, <1>6, <2>1, WithoutElements
<1> QED
  BY <1>7 DEF t

\* How a template starts and ends.
LEMMA TemplateEnds ==
  ASSUME NEW F, Renders(F), NEW p \in Seq(Shown), NEW conv \in BOOLEAN
  PROVE  LET t == Template(F, p, conv) IN
         /\ conv => t # <<>> /\ t[1] = "system"
         /\ p = <<>> => t = IF conv THEN <<"system">> ELSE <<>>
         /\ p # <<>> /\ IsOutput(Last(p)) =>
               \E s \in Seq(Rendering(F)) :
                  t = IF conv THEN Append(Append(s, Last(p)), "sep")
                              ELSE Append(s, Last(p))
<1> DEFINE t == Template(F, p, conv)
           N == {Nil}
           T(q) == Without(Mapped(F, q), N)
           R == Rendering(F)
<1>0. \A q \in Seq(Script), x \in Script :
         T(Append(q, x)) = IF F[x] \in N THEN T(q) ELSE Append(T(q), F[x])
  BY RenderedStep
<1>a. \A x \in Outputs \cup Roles : F[x] = x /\ x \in Script /\ F[x] \notin N
  BY Vocabulary, TokensAssumption DEF Renders
<1>b. \A q \in Seq(Script), x \in Outputs \cup Roles : T(Append(q, x)) = Append(T(q), x)
  <2> HIDE DEF T, N
  <2> QED
    BY <1>0, <1>a
<1>c. \A q \in Seq(Script) : T(q) \in Seq(R)
  <2>1. \A x \in Script : F[x] \in R
    BY DEF Rendering
  <2>2. \A s : s \in Seq(R \ N) => s \in Seq(R)
    OBVIOUS
  <2> HIDE DEF R, N
  <2>3. MapType(F, Script, R)
    BY <2>1, MappedType
  <2> SUFFICES ASSUME NEW q \in Seq(Script) PROVE T(q) \in Seq(R)
    OBVIOUS
  <2>4. Mapped(F, q) \in Seq(R)
    BY <2>3 DEF MapType
  <2>5. Without(Mapped(F, q), N) \in Seq(R \ N)
    BY <2>4, WithoutType
  <2> QED
    BY <2>2, <2>5
<1>d. T(<<>>) = <<>> /\ T(<<"system">>) = <<"system">>
  <2>1. T(<<>>) = <<>>
    BY MappedEmpty, WithoutEmpty
  <2>2. <<>> \in Seq(Script) /\ Append(<<>>, "system") = <<"system">>
    OBVIOUS
  <2>3. T(Append(<<>>, "system")) = Append(T(<<>>), "system")
    <3> HIDE DEF T
    <3> QED
      BY <1>b, <2>2, Vocabulary
  <2> HIDE DEF T
  <2> QED
    BY <2>1, <2>2, <2>3
<1>e. t = T(BodyOf(p, conv))
  BY DEF Template
<1>f. p \in Seq(Script)
  BY BodyType
<1> HIDE DEF T, t, N
<1>1. p = <<>> => t = IF conv THEN <<"system">> ELSE <<>>
  BY <1>d, <1>e, ConversationEmpty DEF BodyOf
<1>2. ASSUME conv PROVE t # <<>> /\ t[1] = "system"
  <2> DEFINE First(s) == s # <<>> /\ s[1] = "system"
             S == {q \in Seq(Shown) : First(T(Conversation(q)))}
  <2>1. \A s \in Seq(R), x \in R : First(s) => First(Append(s, x))
    BY DEF R
  <2>2. \A q \in Seq(Script), x \in Script : First(T(q)) => First(T(Append(q, x)))
    <3> SUFFICES ASSUME NEW q \in Seq(Script), NEW x \in Script, First(T(q))
                 PROVE  First(T(Append(q, x)))
      OBVIOUS
    <3>1. T(q) \in Seq(R) /\ F[x] \in R
      BY <1>c DEF Rendering
    <3> HIDE DEF First, R
    <3> QED
      BY <1>0, <2>1, <3>1
  <2>3. <<>> \in S
    <3>1. <<>> \in Seq(Shown)
      OBVIOUS
    <3> QED
      BY <1>d, <3>1, ConversationEmpty
  <2> HIDE DEF First
  <2>4. ASSUME NEW q \in Seq(Shown), NEW x \in Shown, q \in S PROVE Append(q, x) \in S
    <3> DEFINE c == Conversation(q)
               o == Opened(q)
               a == Append(o, "assistant")
               b == Append(a, x)
    <3>1. /\ c \in Seq(Script) /\ o \in Seq(Script)
          /\ Conversation(Append(q, x)) =
                IF IsOutput(x) THEN Append(b, "sep") ELSE Append(o, x)
      BY Vocabulary, ConversationGrows
    <3>2. x \in Script /\ "assistant" \in Script /\ "sep" \in Script /\ "user" \in Script
      BY Vocabulary
    <3>3. First(T(c))
      BY <2>4
    <3> HIDE DEF c
    <3>4. First(T(o))
      <4>1. o = c \/ o = Append(c, "user")
        BY DEF c, Opened
      <4> QED
        BY <2>2, <3>1, <3>2, <3>3, <4>1
    <3> HIDE DEF o
    <3>5. First(T(Append(o, x)))
      BY <2>2, <3>1, <3>2, <3>4
    <3>6. a \in Seq(Script) /\ First(T(a))
      BY <2>2, <3>1, <3>2, <3>4
    <3> HIDE DEF a
    <3>7. b \in Seq(Script) /\ First(T(b))
      BY <2>2, <3>2, <3>6
    <3> HIDE DEF b
    <3>8. First(T(Append(b, "sep")))
      BY <2>2, <3>2, <3>7
    <3>9. Append(q, x) \in Seq(Shown)
      OBVIOUS
    <3> QED
      BY <3>1, <3>5, <3>8, <3>9
  <2> HIDE DEF S
  <2>5. Seq(Shown) \subseteq S
    BY <2>3, <2>4, SeqInduction
  <2>6. First(T(Conversation(p)))
    BY <2>5 DEF S
  <2> QED
    BY <1>2, <1>e, <2>6 DEF First, BodyOf
<1>3. ASSUME p # <<>>, IsOutput(Last(p))
      PROVE  \E s \in Seq(R) :
                t = IF conv THEN Append(Append(s, Last(p)), "sep")
                            ELSE Append(s, Last(p))
  <2> DEFINE q == Front(p)
             x == Last(p)
  <2>1. q \in Seq(Shown) /\ x \in Shown /\ p = Append(q, x)
    BY <1>3, FrontLast
  <2>2. IsOutput(x) /\ x \in Outputs \cup Roles /\ "sep" \in Outputs \cup Roles
        /\ "assistant" \in Outputs \cup Roles
    BY <1>3, Vocabulary
  <2> HIDE DEF q, x
  <2>3. CASE conv
    <3> DEFINE o == Opened(q)
               a == Append(o, "assistant")
               b == Append(a, x)
    <3>1. o \in Seq(Script) /\ Conversation(p) = Append(b, "sep")
      BY <2>1, <2>2, Vocabulary, ConversationGrows
    <3> HIDE DEF o
    <3>2. x \in Script /\ "assistant" \in Script
      BY <2>1, Vocabulary
    <3>3. a \in Seq(Script)
      BY <3>1, <3>2
    <3> HIDE DEF a
    <3>4. b \in Seq(Script) /\ T(b) = Append(T(a), x)
      BY <1>b, <2>2, <3>2, <3>3
    <3> HIDE DEF b
    <3>5. T(Append(b, "sep")) = Append(T(b), "sep")
      BY <1>b, <2>2, <3>4
    <3>6. t = Append(Append(T(a), x), "sep")
      BY <1>e, <2>3, <3>1, <3>4, <3>5 DEF BodyOf
    <3>7. T(a) \in Seq(R)
      BY <1>c, <3>3
    <3> QED
      BY <2>3, <3>6, <3>7 DEF x
  <2>4. CASE ~ conv
    <3>1. q \in Seq(Script)
      <4>1. \A y : y \in Shown => y \in Script
        BY Vocabulary
      <4> QED
        BY <2>1, <4>1
    <3>2. T(Append(q, x)) = Append(T(q), x) /\ T(q) \in Seq(R)
      BY <1>b, <1>c, <2>2, <3>1
    <3>3. t = Append(T(q), x)
      BY <1>e, <2>1, <2>4, <3>2 DEF BodyOf
    <3> QED
      BY <2>4, <3>2, <3>3 DEF x
  <2> QED
    BY <2>3, <2>4
<1> QED
  BY <1>1, <1>2, <1>3 DEF t

\* Nothing, or a system message alone, leaves nothing to run.
LEMMA NothingToRun ==
  /\ ParseTemplate(<<>>, TRUE) = <<>>
  /\ ParseTemplate(<<"system">>, TRUE) = <<>>
<1>1. ParseTemplate(<<>>, TRUE) = <<>>
  BY ChunksEmpty DEF ParseTemplate
<1> DEFINE c == TextChunk(<<"system">>)
<1>2. ~ IsName("system") /\ <<>> \in Seq({"system"}) /\ "system" \in {"system"}
      /\ Append(<<>>, "system") = <<"system">>
  BY TokensAssumption, Vocabulary DEF IsName
<1>3. Chunks(Append(<<>>, "system")) = PushToken(Chunks(<<>>), "system")
  BY <1>2, ChunksAppend
<1>4. PushToken(<<>>, "system") = Append(<<>>, c)
  BY <1>2 DEF PushToken
<1>5. Chunks(<<"system">>) = Append(<<>>, c)
  BY <1>2, <1>3, <1>4, ChunksEmpty
<1>6. c.name = Nil
  BY DEF TextChunk
<1> HIDE DEF c
<1>7. Front(Append(<<>>, c)) = <<>> /\ Last(Append(<<>>, c)) = c
  <2>1. <<>> \in Seq({c}) /\ c \in {c}
    OBVIOUS
  <2> QED
    BY <2>1, FrontLastAppend
<1>8. Append(<<>>, c) # <<>>
  OBVIOUS
<1> QED
  BY <1>1, <1>5, <1>6, <1>7, <1>8 DEF ParseTemplate

\* Of the template only a trailing separator can be lost.
LEMMA PromptIsTemplate ==
  ASSUME NEW F, Renders(F), NEW p \in Seq(Shown), NEW conv \in BOOLEAN,
         NEW rpf \in BOOLEAN, rpf /\ p # <<>> => IsOutput(Last(p)),
         ParseTemplate(Template(F, p, conv), rpf) # <<>>
  PROVE  LET t == Template(F, p, conv)
             k == TokensOf(ParseTemplate(t, rpf))
         IN  /\ rpf => p # <<>>
             /\ k \in Seq(Rendering(F))
             /\ t = k \/ t = Append(k, "sep")
<1> DEFINE t == Template(F, p, conv)
           R == Rendering(F)
           d == ParseTemplate(t, rpf)
           o == Last(p)
<1>1. t \in Seq(R)
  BY BodyType
<1>2. ~ IsName("sep") /\ "sep" \in R
  <2>1. ~ IsName("sep")
    BY TokensAssumption, Vocabulary DEF IsName
  <2>2. F["sep"] = "sep" /\ "sep" \in Script
    BY Vocabulary DEF Renders
  <2> QED
    BY <2>1, <2>2 DEF Rendering
<1>3. /\ p = <<>> => t = IF conv THEN <<"system">> ELSE <<>>
      /\ p # <<>> /\ IsOutput(o) =>
            \E s \in Seq(R) :
               t = IF conv THEN Append(Append(s, o), "sep") ELSE Append(s, o)
  BY TemplateEnds
<1>4. IsOutput(o) => IsName(o) /\ o \in R
  <2> SUFFICES ASSUME IsOutput(o) PROVE IsName(o) /\ o \in R
    OBVIOUS
  <2>1. o \in Outputs
    BY Vocabulary
  <2>2. F[o] = o /\ o \in Script
    BY <2>1, Vocabulary DEF Renders
  <2> QED
    BY <2>2 DEF IsOutput, IsName, Rendering
<1>5. d # <<>>
  OBVIOUS
<1> HIDE DEF t, R, d, o
<1>6. CASE ~ rpf
  <2>1. d = Chunks(t)
    BY <1>6, NoPruning DEF d
  <2>2. TokensOf(d) = t
    BY <1>1, <2>1, ChunksKeepTokens
  <2> QED
    BY <1>1, <1>6, <2>2 DEF d, t, R
<1>7. CASE rpf
  <2>1. p # <<>>
    BY <1>3, <1>5, <1>7, NothingToRun DEF d
  <2>2. IsOutput(o)
    BY <1>7, <2>1 DEF o
  <2>3. PICK s \in Seq(R) :
             t = IF conv THEN Append(Append(s, o), "sep") ELSE Append(s, o)
    BY <1>3, <2>1, <2>2
  <2> DEFINE k == Append(s, o)
  <2>4. k \in Seq(R)
    BY <1>4, <2>2
  <2>5. d = Chunks(k)
    <3>1. CASE conv
      <4>1. t = Append(Append(s, o), "sep")
        BY <2>3, <3>1
      <4>2. ParseTemplate(Append(Append(s, o), "sep"), TRUE) = Chunks(Append(s, o))
        BY <1>2, <1>4, <2>2, PruneAfterText
      <4> QED
        BY <1>7, <4>1, <4>2 DEF d
    <3>2. CASE ~ conv
      <4>1. t = Append(s, o)
        BY <2>3, <3>2
      <4>2. ParseTemplate(Append(s, o), rpf) = Chunks(Append(s, o))
        BY <1>4, <2>2, PruneAfterName
      <4> QED
        BY <4>1, <4>2 DEF d
    <3> QED
      BY <3>1, <3>2
  <2>6. t = k \/ t = Append(k, "sep")
    BY <2>3
  <2> HIDE DEF k
  <2>7. TokensOf(d) = k
    BY <2>4, <2>5, ChunksKeepTokens
  <2> QED
    BY <2>1, <2>4, <2>6, <2>7 DEF d, t, R
<1> QED
  BY <1>6, <1>7

\* So the prompt without roles is what the pieces render to, and its speakers
\* are those of the template.
LEMMA PromptMeans ==
  ASSUME NEW F, Renders(F), NEW p \in Seq(Shown), NEW conv \in BOOLEAN,
         NEW rpf \in BOOLEAN, rpf /\ p # <<>> => IsOutput(Last(p)),
         ParseTemplate(Template(F, p, conv), rpf) # <<>>
  PROVE  LET k == TokensOf(ParseTemplate(Template(F, p, conv), rpf))
         IN  /\ rpf => p # <<>>
             /\ Without(k, Roles) = Without(Mapped(F, p), {Nil})
             /\ conv /\ Separated(p) =>
                   Alternates(Only(k, {"user", "assistant"} \cup Outputs))
<1> DEFINE t == Template(F, p, conv)
           k == TokensOf(ParseTemplate(t, rpf))
           R == Rendering(F)
           X == {"user", "assistant"} \cup Outputs
           m == Mapped(F, BodyOf(p, conv))
<1>1. (rpf => p # <<>>) /\ k \in Seq(R) /\ (t = k \/ t = Append(k, "sep"))
  BY PromptIsTemplate
<1>2. m \in Seq(R)
  BY BodyType
<1>3. Without(t, Roles) = Without(Mapped(F, p), {Nil})
  BY TemplateMeans
<1>4. t = Without(m, {Nil})
  BY DEF Template
<1>5. "sep" \in Roles /\ "sep" \notin X /\ X \cap {Nil} = {} /\ "sep" \in R
  <2>1. F["sep"] = "sep" /\ "sep" \in Script
    BY Vocabulary DEF Renders
  <2> QED
    BY <2>1, Vocabulary DEF Rendering, Nil
<1> HIDE DEF t, k, R, X, m
<1>6. /\ Without(Append(k, "sep"), Roles) = Without(k, Roles)
      /\ Only(Append(k, "sep"), X) = Only(k, X)
  BY <1>1, <1>5, WithoutAppend, OnlyAppend
<1>7. Only(k, X) = Only(m, X)
  <2> DEFINE N == {Nil}
  <2>1. X \cap N = {}
    BY <1>5
  <2> HIDE DEF N
  <2>2. Only(Without(m, N), X) = Only(m, X)
    BY <1>2, <2>1, OnlyOfWithout
  <2> QED
    BY <1>1, <1>4, <1>6, <2>2 DEF N
<1>8. conv /\ Separated(p) => Alternates(Only(m, X))
  BY ConversationAlternates DEF m, X, BodyOf
<1> QED
  BY <1>1, <1>3, <1>6, <1>7, <1>8 DEF t, k, X

-----------------------------------------------------------------------------
(* The chain of the first output *)

LEMMA FirstChain ==
  ASSUME NEW n \in Nat, NEW b \in [1 .. n -> BOOLEAN], NEW g \in Gens(b),
         GensBefore(b, g) = {}
  PROVE  /\ IterFrom(b, CompletionChainFirst(b, g)) = ProperChain(b, g)
         /\ IterFillFrom(b, CompletionChainFirst(b, g)) = ProperChain(b, g) \ {g}
         /\ Gens(b) = {g} => \A i \in ProperChain(b, g) : CompChainOf(b, i) = g
<1>1. g \in 1 .. n /\ b[g] = TRUE
  BY DEF Gens
<1>2. \A j \in 1 .. n : j < g => b[j] = FALSE
  BY DEF Gens, GensBefore
<1>3. CompletionChainFirst(b, g) = 1
  BY DEF CompletionChainFirst
<1>4. ProperChain(b, g) = 1 .. g
  BY <1>1 DEF ProperChain
<1>5. IterFrom(b, 1) = 1 .. g
  <2>1. ASSUME NEW i \in 1 .. n
        PROVE  (\A j \in 1 .. i - 1 : ~ b[j]) <=> i <= g
    BY <1>1, <1>2
  <2>2. IterFrom(b, 1) = {i \in 1 .. n : i >= 1 /\ \A j \in 1 .. i - 1 : ~ b[j]}
    BY DEF IterFrom
  <2>3. ASSUME NEW i \in 1 .. n PROVE i \in IterFrom(b, 1) <=> i \in 1 .. g
    BY <1>1, <2>1, <2>2
  <2>4. IterFrom(b, 1) \subseteq 1 .. n /\ 1 .. g \subseteq 1 .. n
    BY <1>1, <2>2
  <2> QED
    BY <2>3, <2>4
<1>6. IterFillFrom(b, 1) = (1 .. g) \ {g}
  <2>1. ASSUME NEW i \in 1 .. n
        PROVE  (\A j \in 1 .. i : ~ b[j]) <=> i < g
    BY <1>1, <1>2
  <2>2. IterFillFrom(b, 1) = {i \in 1 .. n : i >= 1 /\ \A j \in 1 .. i : ~ b[j]}
    BY DEF IterFillFrom
  <2> QED
    BY <1>1, <2>1, <2>2
<1>7. ASSUME Gens(b) = {g}, NEW i \in 1 .. g PROVE CompChainOf(b, i) = g
  <2> DEFINE claims == {h \in Gens(b) : i \in IterFrom(b, CompletionChainFirst(b, h))}
  <2>1. claims = {g}
    BY <1>3, <1>5, <1>7
  <2>2. Max({g}) = g
    BY <1>1 DEF Max
  <2> QED
    BY <2>1, <2>2 DEF CompChainOf
<1> QED
  BY <1>3, <1>4, <1>5, <1>6, <1>7

-----------------------------------------------------------------------------
(* Bound arguments *)

\* What a call has bound: every output to a variable, anything else to a
\* variable or to an object whose text is no name and no role.
Bound(bd) ==
    /\ \A p \in DOMAIN bd :
          \/ /\ bd[p] = Object(bd[p].content)
             /\ ~ IsName(bd[p].content) /\ bd[p].content \notin Roles
          \/ bd[p] = [var |-> TRUE, id |-> bd[p].id, content |-> bd[p].content]
    /\ \A p \in Outputs : p \in DOMAIN bd /\ bd[p].var = TRUE

\* The rendering of the tokens of a body.
RenderedBy(bd) ==
    [x \in Script |-> IF IsName(x) /\ ~ bd[x].var THEN Str(bd[x].content) ELSE x]

LEMMA RenderedByFacts ==
  ASSUME NEW bd, Bound(bd), DOMAIN Typ \subseteq DOMAIN bd
  PROVE  /\ Renders(RenderedBy(bd))
         /\ \A x \in Script : IsName(RenderedBy(bd)[x]) =>
               /\ RenderedBy(bd)[x] \in DOMAIN Typ
               /\ bd[RenderedBy(bd)[x]].var = TRUE
<1> DEFINE F == RenderedBy(bd)
<1>1. ASSUME NEW x \in Script, IsName(x) PROVE x \in DOMAIN Typ
  BY <1>1, TokensAssumption, Vocabulary DEF IsName, Script, Shown
<1>2. \A x \in DOMAIN Typ : x \in Script /\ IsName(x)
  BY DEF IsName, Script, Shown
<1>3. \A x \in Script : ~ IsName(x) => F[x] = x
  BY DEF RenderedBy
<1>4. ASSUME NEW x \in DOMAIN Typ
      PROVE  \/ bd[x].var = TRUE /\ F[x] = x
             \/ x \notin Outputs /\ ~ IsName(F[x]) /\ F[x] \notin Roles
  <2>1. F[x] = IF ~ bd[x].var THEN Str(bd[x].content) ELSE x
    BY <1>2 DEF RenderedBy
  <2>2. CASE bd[x] = [var |-> TRUE, id |-> bd[x].id, content |-> bd[x].content]
    <3>1. bd[x].var = TRUE
      BY <2>2
    <3> QED
      BY <2>1, <3>1
  <2>3. CASE /\ bd[x] = Object(bd[x].content)
             /\ ~ IsName(bd[x].content) /\ bd[x].content \notin Roles
    <3>1. bd[x].var = FALSE
      BY <2>3 DEF Object
    <3>2. x \notin Outputs
      BY <3>1 DEF Bound
    <3>3. ~ IsName(Str(bd[x].content)) /\ Str(bd[x].content) \notin Roles
      BY <2>3, TokensAssumption DEF Str, IsName, Roles
    <3> QED
      BY <2>1, <3>1, <3>2, <3>3
  <2> QED
    BY <2>2, <2>3 DEF Bound
<1> HIDE DEF F
<1>5. \A x \in Roles \cup Outputs \cup {Nil} : F[x] = x
  <2>1. ASSUME NEW x \in Roles \cup {Nil} PROVE F[x] = x
    <3>1. x \in Script /\ ~ IsName(x)
      BY TokensAssumption, Vocabulary DEF IsName
    <3> QED
      BY <1>3, <3>1
  <2>2. ASSUME NEW x \in Outputs PROVE F[x] = x
    BY <1>4 DEF Outputs
  <2> QED
    BY <2>1, <2>2
<1>6. ASSUME NEW x \in Shown PROVE F[x] \notin Roles /\ (x \notin Outputs => F[x] \notin Outputs)
  <2>1. CASE x \in DOMAIN Typ
    <3>1. \A y \in Outputs : IsName(y)
      BY DEF Outputs, IsName
    <3>2. x \notin Roles
      BY <2>1, TokensAssumption
    <3> QED
      BY <1>4, <2>1, <3>1, <3>2
  <2>2. CASE x \notin DOMAIN Typ
    <3>1. x \in Script /\ ~ IsName(x) /\ x \notin Roles
      BY <1>1, <2>2, Vocabulary
    <3> QED
      BY <1>3, <3>1
  <2> QED
    BY <2>1, <2>2
<1>7. ASSUME NEW x \in Script, IsName(F[x])
      PROVE  F[x] \in DOMAIN Typ /\ bd[F[x]].var = TRUE
  <2>1. CASE IsName(x)
    BY <1>1, <1>4, <1>7, <2>1
  <2>2. CASE ~ IsName(x)
    BY <1>3, <1>7, <2>2
  <2> QED
    BY <2>1, <2>2
<1> QED
  BY <1>5, <1>6, <1>7 DEF Renders, F

\* Binding yields a bound call.
LEMMA InputsFacts ==
  /\ Inputs \in Seq(DOMAIN Typ \ Outputs) /\ WithoutRepeats(Inputs)
<1>1. Params \in Seq(DOMAIN Typ) /\ WithoutRepeats(Params)
  BY ParamsAssumption DEF WithoutRepeats
<1> QED
  BY <1>1, WithoutType, WithoutDistinct DEF Inputs

LEMMA SetValueBound ==
  ASSUME NEW p, NEW v, IsArgument(v)
  PROVE  LET w == SetValue(p, v) IN
         /\ \/ /\ w = Object(w.content)
               /\ ~ IsName(w.content) /\ w.content \notin Roles
            \/ w = [var |-> TRUE, id |-> w.id, content |-> w.content]
         /\ v.var => w.var = TRUE
<1> DEFINE w == SetValue(p, v)
<1>1. CASE v = Variable(v.id)
  <2>1. v.var = TRUE /\ w = v
    BY <1>1 DEF Variable, SetValue
  <2>2. v = [var |-> TRUE, id |-> v.id, content |-> v.content]
    BY <1>1 DEF Variable
  <2> HIDE DEF w
  <2>3. w = [var |-> TRUE, id |-> w.id, content |-> w.content]
    BY <2>1, <2>2
  <2> QED
    BY <2>1, <2>3 DEF w
<1>2. CASE v = Object(v.content) /\ ~ IsName(v.content) /\ v.content \notin Roles
  <2>1. v.var = FALSE
    BY <1>2 DEF Object
  <2>2. CASE Typ[p] = "INPUT_LOC"
    <3>1. w = [var |-> TRUE, id |-> NoId, content |-> Str(v.content)]
      BY <2>1, <2>2 DEF SetValue, Variable
    <3>2. w.id = NoId /\ w.content = Str(v.content) /\ w.var = TRUE
      BY <3>1
    <3> HIDE DEF w
    <3>3. w = [var |-> TRUE, id |-> w.id, content |-> w.content]
      BY <3>1, <3>2
    <3> QED
      BY <3>2, <3>3 DEF w
  <2>3. CASE Typ[p] # "INPUT_LOC"
    <3>1. w = v
      BY <2>3 DEF SetValue
    <3> QED
      BY <1>2, <2>1, <3>1
  <2> QED
    BY <2>2, <2>3
<1> QED
  BY <1>1, <1>2 DEF IsArgument

LEMMA SetBindingsBound ==
  ASSUME NEW c \in Calls, ~ BindFails(c)
  PROVE  Bound(SetBindings(c))
<1> DEFINE bd == SetBindings(c)
           OK(w) == \/ /\ w = Object(w.content)
                       /\ ~ IsName(w.content) /\ w.content \notin Roles
                    \/ w = [var |-> TRUE, id |-> w.id, content |-> w.content]
<1>1. /\ c.args \in Seq(ToSet(c.args))
      /\ \A i \in DOMAIN c.args : IsArgument(c.args[i])
      /\ \A p \in DOMAIN c.kwargs : IsArgument(c.kwargs[p])
  BY CallsAssumption
<1>2. DOMAIN c.args = 1 .. Len(c.args) /\ Len(c.args) \in Nat
  BY <1>1
<1>3. /\ Len(c.args) <= Len(Inputs) /\ Len(Inputs) \in Nat
      /\ DOMAIN Inputs = 1 .. Len(Inputs) /\ WithoutRepeats(Inputs)
      /\ \A i \in 1 .. Len(Inputs) : Inputs[i] \in DOMAIN Typ \ Outputs
  <2>1. ~ (Len(c.args) > Len(Inputs))
    BY DEF BindFails
  <2>2. /\ Len(Inputs) \in Nat /\ DOMAIN Inputs = 1 .. Len(Inputs)
        /\ \A i \in 1 .. Len(Inputs) : Inputs[i] \in DOMAIN Typ \ Outputs
    BY InputsFacts
  <2> QED
    BY <1>2, <2>1, <2>2, InputsFacts
<1>4. ASSUME NEW p \in Positional(c)
      PROVE  p \notin Outputs /\ Position(p) \in DOMAIN c.args
  <2>1. PICK i \in 1 .. Len(c.args) : Inputs[i] = p
    BY DEF Positional
  <2>2. i \in 1 .. Len(Inputs)
    BY <1>2, <1>3
  <2>3. Position(p) \in 1 .. Len(Inputs) /\ Inputs[Position(p)] = p
    BY <1>3, <2>1, <2>2 DEF Position
  <2>4. Position(p) = i
    BY <1>3, <2>1, <2>2, <2>3 DEF WithoutRepeats
  <2> QED
    BY <1>2, <1>3, <2>1, <2>2, <2>4
<1>5. DOMAIN bd = Positional(c) \cup DOMAIN c.kwargs \cup Outputs
  BY DEF SetBindings
<1>6. \A p \in DOMAIN bd :
         bd[p] = IF p \in Positional(c) THEN SetValue(p, c.args[Position(p)])
                 ELSE IF p \in DOMAIN c.kwargs THEN SetValue(p, c.kwargs[p])
                 ELSE Variable(NoId)
  BY DEF SetBindings
<1>7. Variable(NoId).var = TRUE /\ OK(Variable(NoId))
  BY DEF Variable
<1>8. \A p, v : IsArgument(v) => OK(SetValue(p, v)) /\ (v.var => SetValue(p, v).var = TRUE)
  BY SetValueBound
<1> HIDE DEF bd, OK
<1>9. \A p \in DOMAIN bd : OK(bd[p])
  BY <1>1, <1>4, <1>6, <1>7, <1>8
<1>10. ASSUME NEW p \in Outputs PROVE p \in DOMAIN bd /\ bd[p].var = TRUE
  <2>1. p \in DOMAIN bd /\ p \notin Positional(c)
    BY <1>4, <1>5
  <2>2. CASE p \in DOMAIN c.kwargs
    <3>1. IsOutput(p)
      BY Vocabulary
    <3>2. c.kwargs[p].var
      BY <2>2, <3>1 DEF BindFails
    <3> QED
      BY <1>1, <1>6, <1>8, <2>1, <2>2, <3>2
  <2>3. CASE p \notin DOMAIN c.kwargs
    BY <1>6, <1>7, <2>1, <2>3
  <2> QED
    BY <2>1, <2>2, <2>3
<1> QED
  BY <1>9, <1>10 DEF Bound, OK, bd

-----------------------------------------------------------------------------
(* The inductive invariant *)

\* The function is what the decorator makes of an accepted docstring.
FunctionInv ==
    stage # "define" =>
        \/ func = PyNativeFunction
        \/ /\ source \in Docstrings /\ ~ ParseFails(source)
           /\ func.rpf \in BOOLEAN /\ func.conv \in BOOLEAN
           /\ func = SemanticFunction(BodyOf(Formatted(source, func.rpf), func.conv),
                                      func.rpf, func.conv)

\* Between the binding and the answer the arguments are bound, and what is on
\* the wire is made of them.
WireInv ==
    /\ stage \in {"submit", "serve"} => Bound(bindings)
    /\ stage = "serve" =>
          /\ ~ PayloadFails
          /\ payload = IF func.native THEN NativePayload ELSE SemanticPayload

CallInv == FunctionInv /\ WireInv

\* The invariant holds whatever the properties say of the answers.
LEMMA CallInvHolds ==
  Spec => []CallInv
<1>1. Init => CallInv
  BY DEF Init, CallInv, FunctionInv, WireInv
<1>2. ASSUME CallInv, [Next]_vars PROVE CallInv'
  <2>1. ASSUME NEW b \in Docstrings, NEW rpf \in BOOLEAN, NEW conv \in BOOLEAN,
               DefineSemantic(b, rpf, conv)
        PROVE  CallInv'
    <3>1. stage = "define" /\ stage' \in {"define", "call"}
      BY <2>1 DEF DefineSemantic
    <3>2. CASE ParseFails(b)
      BY <1>2, <2>1, <3>1, <3>2 DEF DefineSemantic, CallInv, FunctionInv, WireInv
    <3>3. CASE ~ ParseFails(b)
      <4> DEFINE B == BodyOf(Formatted(b, rpf), conv)
      <4>1. func' = SemanticFunction(B, rpf, conv) /\ source' = b
        BY <2>1, <3>3 DEF DefineSemantic, Formatted, BodyOf
      <4> HIDE DEF B
      <4>2. func'.rpf = rpf /\ func'.conv = conv
        BY <4>1 DEF SemanticFunction
      <4>3. func' = SemanticFunction(BodyOf(Formatted(source', func'.rpf), func'.conv),
                                     func'.rpf, func'.conv)
        BY <4>1, <4>2 DEF B
      <4>4. FunctionInv'
        BY <3>3, <4>1, <4>2, <4>3 DEF FunctionInv
      <4> QED
        BY <3>1, <4>4 DEF CallInv, WireInv
    <3> QED
      BY <3>2, <3>3
  <2>2. CASE DefineNative
    BY <2>2 DEF DefineNative, CallInv, FunctionInv, WireInv
  <2>3. ASSUME NEW c \in Calls, CallFunc(c) PROVE CallInv'
    <3>1. FunctionInv'
      BY <1>2, <2>3 DEF CallFunc, CallInv, FunctionInv
    <3>2. CASE BindFails(c)
      <4>1. stage' = "call"
        BY <2>3, <3>2 DEF CallFunc
      <4> QED
        BY <3>1, <4>1 DEF CallInv, WireInv
    <3>3. CASE ~ BindFails(c)
      <4>1. stage' = "submit" /\ bindings' = SetBindings(c)
        BY <2>3, <3>3 DEF CallFunc
      <4>2. Bound(bindings')
        BY <3>3, <4>1, SetBindingsBound
      <4> QED
        BY <3>1, <4>1, <4>2 DEF CallInv, WireInv
    <3> QED
      BY <3>2, <3>3
  <2>4. ASSUME NEW request, Submit(request),
               request = IF func.native THEN NativePayload ELSE SemanticPayload
        PROVE  CallInv'
    <3>1. FunctionInv'
      BY <1>2, <2>4 DEF Submit, CallInv, FunctionInv
    <3>2. Bound(bindings) /\ UNCHANGED <<func, bindings>>
      BY <1>2, <2>4 DEF Submit, CallInv, WireInv
    <3>3. CASE PayloadFails
      <4>1. stage' = "call"
        BY <2>4, <3>3 DEF Submit
      <4> QED
        BY <3>1, <4>1 DEF CallInv, WireInv
    <3>4. CASE ~ PayloadFails
      <4>1. stage' = "serve" /\ payload' = request
        BY <2>4, <3>4 DEF Submit
      <4>2. ~ PayloadFails'
        BY <3>2, <3>4 DEF PayloadFails
      <4>3. NativePayload' = NativePayload /\ SemanticPayload' = SemanticPayload
        BY <3>2 DEF NativePayload, SemanticPayload, ParamDict, Rendered
      <4>4. payload' = IF func'.native THEN NativePayload' ELSE SemanticPayload'
        BY <2>4, <3>2, <4>1, <4>3
      <4>5. Bound(bindings')
        BY <3>2
      <4> QED
        BY <3>1, <4>1, <4>2, <4>4, <4>5 DEF CallInv, WireInv
    <3> QED
      BY <3>3, <3>4
  <2>5. CASE ServeSemantic \/ ServeNative
    <3>1. stage = "serve" /\ stage' = "call" /\ UNCHANGED <<func, source>>
      BY <2>5 DEF ServeSemantic, ServeNative, Answer
    <3> QED
      BY <1>2, <3>1 DEF CallInv, FunctionInv, WireInv
  <2>6. CASE UNCHANGED vars
    BY <1>2, <2>6 DEF vars, CallInv, FunctionInv, WireInv, PayloadFails,
                NativePayload, SemanticPayload, ParamDict, Rendered
  <2>7. SubmitSemantic => CallInv'
    BY <2>4 DEF SubmitSemantic
  <2>8. SubmitNative => CallInv'
    BY <2>4 DEF SubmitNative
  <2> QED
    BY <1>2, <2>1, <2>2, <2>3, <2>5, <2>6, <2>7, <2>8
       DEF Next, CallSemantic, CallNative
<1> QED
  BY <1>1, <1>2, PTL DEF Spec

-----------------------------------------------------------------------------
(* The serve layer's answer to a semantic function *)

\* What is on the wire: the template of the formatted docstring, and the
\* parameters that are bound to variables.
LEMMA WireFacts ==
  ASSUME CallInv, stage = "serve", ~ func.native
  PROVE  LET p == Formatted(source, func.rpf)
             F == RenderedBy(bindings)
         IN  /\ source \in Seq(Written) /\ Separated(source)
             /\ func.rpf \in BOOLEAN /\ func.conv \in BOOLEAN
             /\ Bound(bindings) /\ DOMAIN Typ \subseteq DOMAIN bindings
             /\ p \in Seq(Shown) /\ Renders(F)
             /\ payload.template = Template(F, p, func.conv)
             /\ payload.parameters = [q \in {q \in DOMAIN Typ : bindings[q].var} |->
                                         ParamDict(q)]
<1> DEFINE p == Formatted(source, func.rpf)
           F == RenderedBy(bindings)
           B == BodyOf(p, func.conv)
<1>1. /\ source \in Docstrings /\ ~ ParseFails(source)
      /\ func.rpf \in BOOLEAN /\ func.conv \in BOOLEAN
      /\ func = SemanticFunction(B, func.rpf, func.conv)
  <2>1. func # PyNativeFunction
    BY DEF PyNativeFunction
  <2> QED
    BY <2>1 DEF CallInv, FunctionInv
<1>2. Bound(bindings) /\ ~ PayloadFails /\ payload = SemanticPayload
  BY DEF CallInv, WireInv
<1>3. DOMAIN Typ \subseteq DOMAIN bindings
  BY <1>2 DEF PayloadFails
<1>4. source \in Seq(Written) /\ Separated(source)
  BY <1>1, AcceptedDocstring
<1>5. p \in Seq(Shown) /\ Renders(F)
  BY <1>1, <1>2, <1>3, <1>4, FormattedFacts, RenderedByFacts
<1> HIDE DEF p, F
<1>6. B \in Seq(Script)
  BY <1>1, <1>5, BodyType
<1> HIDE DEF B
<1>7. func.body = B
  BY <1>1 DEF SemanticFunction
<1>8. \A x \in Script : F[x] = Rendered(x)
  BY DEF F, RenderedBy, Rendered
<1>9. [i \in DOMAIN func.body |-> Rendered(func.body[i])] = Mapped(F, B)
  <2>1. \A i \in DOMAIN B : B[i] \in Script
    BY <1>6
  <2>2. \A i \in DOMAIN B : F[B[i]] = Rendered(B[i])
    BY <1>8, <2>1
  <2> QED
    BY <1>7, <2>2 DEF Mapped
<1>10. payload.template = Template(F, p, func.conv)
  BY <1>2, <1>9 DEF SemanticPayload, Template, B
<1>11. payload.parameters = [q \in {q \in DOMAIN Typ : bindings[q].var} |-> ParamDict(q)]
  BY <1>2 DEF SemanticPayload
<1> QED
  BY <1>1, <1>2, <1>3, <1>4, <1>5, <1>10, <1>11 DEF p, F

\* How a served request ends.
LEMMA SemanticAnswer ==
  ASSUME ServeSemantic
  PROVE  LET d == ParseTemplate(payload.template, func.rpf)
             e == ChainError(d, payload.parameters)
         IN  /\ stage = "serve" /\ stage' = "call" /\ ~ func.native
             /\ func' = func /\ source' = source /\ payload' = payload
             /\ result' # "ok" => bindings' = bindings
             /\ result' = "ok" => /\ ~ Rejected /\ e = "none" /\ body' = d
                                  /\ bindings' = UpdateVarIds(
                                        SemanticParamInfo(d, payload.parameters))
             /\ result' = "parameter rejected" => Rejected
             /\ result' \in {"ok", "parameter rejected"} \/ result' = e
             /\ e \in {"none", "empty body", "unknown placeholder",
                       "first chunk is a Gen"}
<1> DEFINE d == ParseTemplate(payload.template, func.rpf)
           e == ChainError(d, payload.parameters)
           info == SemanticParamInfo(d, payload.parameters)
<1>1. e \in {"none", "empty body", "unknown placeholder", "first chunk is a Gen"}
  BY DEF ChainError
<1>2. stage = "serve" /\ ~ func.native
  BY DEF ServeSemantic
<1>3. CASE Rejected
  <2>1. Answer("parameter rejected", <<>>)
    BY <1>3 DEF ServeSemantic
  <2> QED
    BY <1>1, <1>2, <1>3, <2>1 DEF Answer
<1>4. CASE ~ Rejected
  <2>1. body' = d /\ Answer(e, info)
    BY <1>4 DEF ServeSemantic
  <2> HIDE DEF d, e, info
  <2>2. /\ stage' = "call" /\ func' = func /\ source' = source /\ payload' = payload
        /\ result' = IF e = "none" THEN "ok" ELSE e
        /\ bindings' = IF e = "none" THEN UpdateVarIds(info) ELSE bindings
    BY <2>1 DEF Answer
  <2> QED
    BY <1>1, <1>2, <1>4, <2>1, <2>2 DEF d, e, info
<1> QED
  BY <1>3, <1>4

\* An answer changes nothing of a binding but its id, and that only to the
\* node of an entry.
LEMMA UpdatedBinding ==
  ASSUME NEW n \in Nat, NEW info, DOMAIN info = 1 .. n, NEW p \in DOMAIN bindings,
         Bound(bindings)
  PROVE  LET w == UpdateVarIds(info)[p] IN
         /\ w.var = bindings[p].var /\ w.content = bindings[p].content
         /\ \/ (\A i \in 1 .. n : info[i][1] # p) /\ w = bindings[p]
            \/ \E i \in 1 .. n : info[i][1] = p /\ w.id = info[i][2]
<1> DEFINE E == {i \in 1 .. n : info[i][1] = p}
           w == UpdateVarIds(info)[p]
<1>1. w = IF E = {} THEN bindings[p]
          ELSE [bindings[p] EXCEPT !.id = info[Max(E)][2]]
  BY DEF UpdateVarIds
<1>2. CASE E = {}
  BY <1>1, <1>2
<1>3. CASE E # {}
  <2>1. Max(E) \in E
    <3> HIDE DEF E
    <3>1. E \subseteq 1 .. n
      BY DEF E
    <3>2. PICK m \in E : \A j \in E : j <= m
      BY <1>3, <3>1, Greatest
    <3>3. \A j \in E : m >= j
      BY <3>1, <3>2
    <3> QED
      BY <3>3 DEF Max
  <2>2. PICK i \in 1 .. n : i = Max(E) /\ info[i][1] = p
    BY <2>1
  <2>3. PICK x : x = info[i][2]
    OBVIOUS
  <2>4. PICK v, k, c : bindings[p] = [var |-> v, id |-> k, content |-> c]
    BY DEF Bound, Object
  <2>5. w = [bindings[p] EXCEPT !.id = x]
    BY <1>1, <1>3, <2>2, <2>3
  <2>6. w = [var |-> v, id |-> x, content |-> c]
    BY <2>4, <2>5
  <2> HIDE DEF w
  <2>7. w.var = v /\ w.content = c /\ w.id = x /\ bindings[p].var = v
        /\ bindings[p].content = c
    BY <2>4, <2>6
  <2> QED
    BY <2>2, <2>3, <2>7 DEF w
<1> QED
  BY <1>2, <1>3

\* What of a docstring is kept, and what a reader makes of it.
MeantBy(k, bd) ==
    LET text(t) == IF t = "indent" THEN Nil
                   ELSE IF IsName(t) /\ ~ bd[t].var THEN Str(bd[t].content) ELSE t
    IN  Without([i \in DOMAIN k |-> text(k[i])], {Nil})

\* The reader knows nothing of formatters and renderings.
LEMMA MeantIsRendered ==
  ASSUME NEW k \in Seq(Written), NEW bd, NEW new,
         \A x \in DOMAIN Typ : new[x].var = bd[x].var /\ new[x].content = bd[x].content
  PROVE  MeantBy(k, new) = Without(Mapped(RenderedBy(bd), Mapped(Shows, k)), {Nil})
<1> DEFINE F == RenderedBy(bd)
           text(t) == IF t = "indent" THEN Nil
                      ELSE IF IsName(t) /\ ~ new[t].var THEN Str(new[t].content) ELSE t
<1>1. ASSUME NEW x \in Written PROVE F[Shows[x]] = text(x)
  <2>1. Shows[x] \in Shown /\ Shows[x] \in Script
    BY ShowsFacts, Vocabulary
  <2>2. F[Shows[x]] = IF IsName(Shows[x]) /\ ~ bd[Shows[x]].var
                      THEN Str(bd[Shows[x]].content) ELSE Shows[x]
    BY <2>1 DEF RenderedBy
  <2>3. CASE x \in DOMAIN Typ
    <3>1. IsName(x) /\ x # "indent"
      BY <2>3, TokensAssumption DEF IsName
    <3>2. Shows[x] = x
      BY <3>1 DEF Shows
    <3> QED
      BY <2>2, <2>3, <3>1, <3>2
  <2>4. CASE x = "word"
    <3>1. ~ IsName(x)
      BY <2>4, TokensAssumption DEF IsName
    <3>2. Shows[x] = x
      BY <2>4, <3>1 DEF Shows, VisitConstant
    <3> QED
      BY <2>2, <2>4, <3>1, <3>2
  <2>5. CASE x = "indent"
    <3>1. ~ IsName(x) /\ ~ IsName(Nil)
      BY <2>5, TokensAssumption DEF IsName
    <3>2. Shows[x] = Nil
      BY <2>5, <3>1 DEF Shows, VisitConstant
    <3> QED
      BY <2>2, <2>5, <3>1, <3>2
  <2> QED
    BY <2>3, <2>4, <2>5 DEF Written
<1>2. \A i \in DOMAIN k : k[i] \in Written
  OBVIOUS
<1>3. DOMAIN Mapped(Shows, k) = DOMAIN k /\ \A i \in DOMAIN k : Mapped(Shows, k)[i] = Shows[k[i]]
  BY DEF Mapped
<1>4. Mapped(F, Mapped(Shows, k)) = [i \in DOMAIN k |-> F[Shows[k[i]]]]
  <2> DEFINE m == Mapped(Shows, k)
  <2> HIDE DEF m
  <2>1. DOMAIN m = DOMAIN k /\ \A i \in DOMAIN k : m[i] = Shows[k[i]]
    BY <1>3 DEF m
  <2>2. Mapped(F, m) = [i \in DOMAIN k |-> F[Shows[k[i]]]]
    BY <2>1 DEF Mapped
  <2> QED
    BY <2>2 DEF m
<1>5. MeantBy(k, new) = Without([i \in DOMAIN k |-> text(k[i])], {Nil})
  BY DEF MeantBy
<1> HIDE DEF F, text
<1>6. \A i \in DOMAIN k : F[Shows[k[i]]] = text(k[i])
  BY <1>1, <1>2
<1>7. [i \in DOMAIN k |-> text(k[i])] = [i \in DOMAIN k |-> F[Shows[k[i]]]]
  BY <1>6
<1> QED
  BY <1>4, <1>5, <1>7 DEF F

\* What an accepted request executes.
LEMMA ServedPrompt ==
  ASSUME CallInv, ServeSemantic, result' = "ok"
  PROVE  /\ Without(Tokens', Roles) = Meant'
         /\ func'.conv => Alternates(Only(Tokens', {"user", "assistant"} \cup Outputs))
<1> DEFINE rpf == func.rpf
           conv == func.conv
           k == ParseFuncBody(source, rpf)
           p == Formatted(source, rpf)
           F == RenderedBy(bindings)
           d == ParseTemplate(payload.template, rpf)
           info == SemanticParamInfo(d, payload.parameters)
<1>1. /\ stage = "serve" /\ ~ func.native /\ func' = func /\ source' = source
      /\ ChainError(d, payload.parameters) = "none" /\ body' = d
      /\ bindings' = UpdateVarIds(info)
  BY SemanticAnswer
<1>2. /\ source \in Seq(Written) /\ Separated(source)
      /\ rpf \in BOOLEAN /\ conv \in BOOLEAN
      /\ Bound(bindings) /\ DOMAIN Typ \subseteq DOMAIN bindings
      /\ p \in Seq(Shown) /\ Renders(F)
      /\ payload.template = Template(F, p, conv)
  BY <1>1, WireFacts
<1>3. /\ Separated(p) /\ k \in Seq(Written) /\ p = Mapped(Shows, k)
      /\ rpf /\ p # <<>> => IsOutput(Last(p)) /\ LastOutput(source) > 0
  BY <1>2, FormattedFacts
<1>4. d # <<>>
  BY <1>1 DEF ChainError
<1>5. DOMAIN info = 1 .. Len(d) /\ Len(d) \in Nat
  <2>1. d \in Seq(ChunkSet(Rendering(F)))
    <3>1. payload.template \in Seq(Rendering(F))
      BY <1>2, BodyType
    <3> QED
      BY <1>2, <3>1, ParseTemplateFacts
  <2> QED
    BY <2>1 DEF SemanticParamInfo
<1>6. Tokens' = TokensOf(d)
  BY <1>1 DEF Tokens, TokensOf, Piece
<1> HIDE DEF d, info, F, p, k
<1>7. /\ rpf => p # <<>>
      /\ Without(TokensOf(d), Roles) = Without(Mapped(F, p), {Nil})
      /\ conv /\ Separated(p) =>
            Alternates(Only(TokensOf(d), {"user", "assistant"} \cup Outputs))
  <2>1. d = ParseTemplate(Template(F, p, conv), rpf)
    BY <1>2 DEF d
  <2>2. rpf /\ p # <<>> => IsOutput(Last(p))
    BY <1>3
  <2> QED
    BY <1>2, <1>4, <2>1, <2>2, PromptMeans
<1>8. Meant' = Without(Mapped(F, p), {Nil})
  <2>1. k = IF rpf /\ LastOutput(source) > 0
            THEN SubSeq(source, 1, LastOutput(source)) ELSE source
    BY <1>2, <1>3, <1>7 DEF k, ParseFuncBody
  <2>2. Meant' = MeantBy(k, bindings')
    BY <1>1, <2>1 DEF Meant, MeantBy
  <2>3. \A x \in DOMAIN Typ : /\ bindings'[x].var = bindings[x].var
                              /\ bindings'[x].content = bindings[x].content
    BY <1>1, <1>2, <1>5, UpdatedBinding
  <2>4. MeantBy(k, bindings') = Without(Mapped(F, Mapped(Shows, k)), {Nil})
    BY <1>3, <2>3, MeantIsRendered DEF F
  <2> QED
    BY <1>3, <2>2, <2>4
<1> QED
  BY <1>1, <1>3, <1>6, <1>7, <1>8

-----------------------------------------------------------------------------
(* Refusals *)

\* The parameters on the wire: the bound ones, none of which lacks a value.
LEMMA SentParameters ==
  ASSUME CallInv, stage = "serve", NEW p \in DOMAIN payload.parameters
  PROVE  /\ p \in DOMAIN Typ /\ p \in DOMAIN bindings /\ Bound(bindings)
         /\ payload.parameters[p] = ParamDict(p)
         /\ ~ func.native => bindings[p].var
         /\ ~ (/\ bindings[p].var /\ bindings[p].id = NoId
               /\ bindings[p].content = Unset /\ ~ IsOutput(p))
<1>1. /\ Bound(bindings) /\ ~ PayloadFails
      /\ payload = IF func.native THEN NativePayload ELSE SemanticPayload
  BY DEF CallInv, WireInv
<1>2. \A q \in DOMAIN Typ :
         /\ q \in DOMAIN bindings
         /\ ~ (/\ bindings[q].var /\ bindings[q].id = NoId
               /\ bindings[q].content = Unset /\ ~ IsOutput(q))
  BY <1>1 DEF PayloadFails
<1>3. CASE func.native
  <2>1. payload.parameters = [q \in DOMAIN Typ |-> ParamDict(q)]
    BY <1>1, <1>3 DEF NativePayload
  <2> QED
    BY <1>1, <1>2, <1>3, <2>1
<1>4. CASE ~ func.native
  <2>1. payload.parameters = [q \in {q \in DOMAIN Typ : bindings[q].var} |-> ParamDict(q)]
    BY <1>1, <1>4 DEF SemanticPayload
  <2> QED
    BY <1>1, <1>2, <1>4, <2>1
<1> QED
  BY <1>3, <1>4

\* What a parameter is refused for: the frontend could have seen it.
LEMMA RejectedParameters ==
  ASSUME CallInv, stage = "serve", Rejected
  PROVE  \/ \E p \in Outputs : bindings[p].id # NoId
         \/ func.native /\ \E p \in DOMAIN Typ : bindings[p] = Object(Unset)
<1>1. PICK p \in DOMAIN payload.parameters : ParameterRejected(payload.parameters[p])
  BY DEF Rejected
<1>2. /\ p \in DOMAIN Typ /\ p \in DOMAIN bindings /\ Bound(bindings)
      /\ ParameterRejected(ParamDict(p))
      /\ ~ func.native => bindings[p].var
      /\ ~ (/\ bindings[p].var /\ bindings[p].id = NoId
            /\ bindings[p].content = Unset /\ ~ IsOutput(p))
  BY <1>1, SentParameters
<1>3. /\ ParamDict(p).is_output = IsOutput(p)
      /\ ParamDict(p).var_id = bindings[p].id
      /\ ParamDict(p).value = IF bindings[p].id = NoId /\ ~ IsOutput(p)
                              THEN bindings[p].content ELSE Unset
  BY Zenon DEF ParamDict
<1>4. \/ IsOutput(p) /\ bindings[p].id # NoId
      \/ ~ IsOutput(p) /\ bindings[p].id = NoId /\ bindings[p].content = Unset
  BY <1>2, <1>3 DEF ParameterRejected
<1>5. CASE IsOutput(p) /\ bindings[p].id # NoId
  BY <1>5, Vocabulary
<1>6. CASE ~ IsOutput(p) /\ bindings[p].id = NoId /\ bindings[p].content = Unset
  <2>1. ~ bindings[p].var
    BY <1>2, <1>6
  <2>2. bindings[p] = Object(bindings[p].content)
    <3>1. \/ bindings[p] = Object(bindings[p].content)
          \/ bindings[p] = [var |-> TRUE, id |-> bindings[p].id,
                            content |-> bindings[p].content]
      BY <1>2 DEF Bound
    <3> QED
      BY <2>1, <3>1
  <2> QED
    BY <1>2, <1>6, <2>1, <2>2
<1> QED
  BY <1>4, <1>5, <1>6

\* The body of a served request.
LEMMA ServedBody ==
  ASSUME CallInv, stage = "serve", ~ func.native
  PROVE  LET d == ParseTemplate(payload.template, func.rpf) IN
         /\ DOMAIN d = 1 .. Len(d) /\ Len(d) \in Nat
         /\ \A i \in 1 .. Len(d) : d[i].name # Nil =>
               d[i].name \in DOMAIN payload.parameters
         /\ \A o \in Outputs : o \in ToSet(source) =>
               \E i \in 1 .. Len(d) : d[i].name = o
         /\ d # <<>> /\ func.conv => d[1].name = Nil
<1> DEFINE rpf == func.rpf
           conv == func.conv
           p == Formatted(source, rpf)
           F == RenderedBy(bindings)
           t == Template(F, p, conv)
           R == Rendering(F)
           d == ParseTemplate(payload.template, rpf)
<1>1. /\ source \in Seq(Written) /\ Separated(source)
      /\ rpf \in BOOLEAN /\ conv \in BOOLEAN
      /\ Bound(bindings) /\ DOMAIN Typ \subseteq DOMAIN bindings
      /\ p \in Seq(Shown) /\ Renders(F)
      /\ payload.template = t
      /\ payload.parameters = [q \in {q \in DOMAIN Typ : bindings[q].var} |->
                                  ParamDict(q)]
  BY WireFacts
<1>2. \A o \in Outputs : (\E i \in 1 .. Len(source) : source[i] = o) =>
                         (\E i \in 1 .. Len(p) : p[i] = o)
  BY <1>1, FormattedFacts
<1>3. \A x \in Script : IsName(F[x]) => F[x] \in DOMAIN Typ /\ bindings[F[x]].var = TRUE
  BY <1>1, RenderedByFacts
<1> HIDE DEF F, p
<1>4. t \in Seq(R)
  BY <1>1, BodyType
<1>5. \A o \in Outputs : (\E i \in 1 .. Len(p) : p[i] = o) =>
                         (\E i \in 1 .. Len(t) : t[i] = o)
  BY <1>1, TemplateHasOutputs
<1>6. conv => t # <<>> /\ t[1] = "system"
  BY <1>1, TemplateEnds
<1> HIDE DEF t
<1>7. d \in Seq(ChunkSet(R)) /\ ParsedInto(d, t)
  BY <1>1, <1>4, ParseTemplateFacts
<1> HIDE DEF d
<1>8. ASSUME NEW i \in 1 .. Len(d), d[i].name # Nil
      PROVE  d[i].name \in DOMAIN payload.parameters
  <2>1. PICK k \in 1 .. Len(t) : t[k] = d[i].name /\ IsName(t[k])
    BY <1>7, <1>8 DEF ParsedInto
  <2>2. t[k] \in R
    BY <1>4
  <2>3. PICK x \in Script : F[x] = t[k]
    BY <2>2 DEF Rendering, R
  <2> QED
    BY <1>1, <1>3, <2>1, <2>3
<1>9. ASSUME NEW o \in Outputs, o \in ToSet(source)
      PROVE  \E i \in 1 .. Len(d) : d[i].name = o
  <2>1. \E i \in 1 .. Len(source) : source[i] = o
    BY <1>1, <1>9 DEF ToSet
  <2>2. PICK k \in 1 .. Len(t) : t[k] = o
    BY <1>2, <1>5, <2>1
  <2>3. IsName(o)
    BY DEF Outputs, IsName
  <2> QED
    BY <1>7, <2>2, <2>3 DEF ParsedInto
<1>10. ASSUME d # <<>>, conv PROVE d[1].name = Nil
  <2>1. ~ IsName("system")
    BY TokensAssumption DEF IsName, Roles
  <2> QED
    BY <1>6, <1>7, <1>10, <2>1 DEF ParsedInto
<1>11. DOMAIN d = 1 .. Len(d) /\ Len(d) \in Nat
  BY <1>7
<1> QED
  BY <1>8, <1>9, <1>10, <1>11 DEF d

LEMMA SemanticRefusals ==
  ASSUME CallInv, ServeSemantic
  PROVE  RefusedForKnownReason'
<1> DEFINE d == ParseTemplate(payload.template, func.rpf)
           e == ChainError(d, payload.parameters)
<1>1. /\ stage = "serve" /\ stage' = "call" /\ ~ func.native
      /\ func' = func /\ source' = source
      /\ result' # "ok" => bindings' = bindings
      /\ result' = "parameter rejected" => Rejected
      /\ result' \in {"ok", "parameter rejected"} \/ result' = e
  BY SemanticAnswer
<1>2. /\ DOMAIN d = 1 .. Len(d) /\ Len(d) \in Nat
      /\ \A i \in 1 .. Len(d) : d[i].name # Nil => d[i].name \in DOMAIN payload.parameters
      /\ \A o \in Outputs : o \in ToSet(source) => \E i \in 1 .. Len(d) : d[i].name = o
      /\ d # <<>> /\ func.conv => d[1].name = Nil
  BY <1>1, ServedBody
<1> HIDE DEF d
<1>3. e # "unknown placeholder"
  <2>1. \A c \in ToSet(d) : c.name \in DOMAIN payload.parameters \cup {Nil}
    BY <1>2 DEF ToSet
  <2> QED
    BY <2>1 DEF ChainError
<1>4. d = <<>> => Outputs \cap ToSet(source) = {}
  <2> SUFFICES ASSUME d = <<>>, NEW o \in Outputs, o \in ToSet(source) PROVE FALSE
    OBVIOUS
  <2>1. PICK i \in 1 .. Len(d) : d[i].name = o
    BY <1>2
  <2> QED
    BY <2>1
<1>5. e = "empty body" => Outputs \cap ToSet(source) = {}
  BY <1>4 DEF ChainError
<1>6. e = "first chunk is a Gen" => ~ func.conv
  <2>1. e = "first chunk is a Gen" => d # <<>> /\ IsGen(d[1])
    BY DEF ChainError
  <2>2. d # <<>> /\ IsGen(d[1]) /\ func.conv => FALSE
    BY <1>2, Vocabulary DEF IsGen
  <2> QED
    BY <2>1, <2>2
<1> HIDE DEF e
<1>7. result' = "parameter rejected" =>
         \/ \E p \in Outputs : bindings'[p].id # NoId
         \/ func'.native /\ \E p \in DOMAIN Typ : bindings'[p] = Object(Unset)
  <2> SUFFICES ASSUME result' = "parameter rejected"
               PROVE  \E p \in Outputs : bindings'[p].id # NoId
    OBVIOUS
  <2>1. bindings' = bindings /\ Rejected
    BY <1>1
  <2> QED
    BY <1>1, <2>1, RejectedParameters
<1>8. result' # "unknown placeholder"
  BY <1>1, <1>3
<1>9. result' = "empty body" => Outputs \cap ToSet(source') = {}
  BY <1>1, <1>5
<1>10. result' = "first chunk is a Gen" => ~ func'.conv
  BY <1>1, <1>6
<1> QED
  BY <1>7, <1>8, <1>9, <1>10 DEF RefusedForKnownReason

LEMMA NativeRefusals ==
  ASSUME CallInv, ServeNative
  PROVE  RefusedForKnownReason'
<1>1. /\ stage = "serve" /\ func' = func /\ func.native
      /\ result' = IF Rejected THEN "parameter rejected" ELSE "ok"
      /\ Rejected => bindings' = bindings
  <2> DEFINE info == NativeParamInfo(payload.parameters)
             e == IF Rejected THEN "parameter rejected" ELSE "none"
  <2>1. stage = "serve" /\ func.native /\ Answer(e, info)
    BY DEF ServeNative
  <2> HIDE DEF info
  <2> QED
    BY <2>1 DEF Answer
<1>2. Rejected => \/ \E p \in Outputs : bindings[p].id # NoId
                  \/ \E p \in DOMAIN Typ : bindings[p] = Object(Unset)
  BY <1>1, RejectedParameters
<1> QED
  BY <1>1, <1>2 DEF RefusedForKnownReason

-----------------------------------------------------------------------------
(* The ids in an answer *)

\* One entry per node, naming the node.
Entries(info, n) ==
    /\ DOMAIN info = 1 .. n
    /\ \A i \in 1 .. n : info[i][1] # Nil =>
          info[i][2] = NodeVar(i, payload.parameters[info[i][1]])

\* An accepted output had no id; it gets the one of its node.  An input keeps
\* its id.
LEMMA AnsweredIds ==
  ASSUME CallInv, stage = "serve", ~ Rejected,
         NEW n \in Nat, NEW info, Entries(info, n)
  PROVE  LET new == UpdateVarIds(info) IN
         /\ \A p \in DOMAIN payload.parameters :
               payload.parameters[p].var_id # NoId =>
                  new[p].id = payload.parameters[p].var_id
         /\ \A p \in Outputs :
               \/ (\A i \in 1 .. n : info[i][1] # p) /\ new[p].id = NoId
               \/ \E i \in 1 .. n : info[i][1] = p /\ new[p].id = <<"fresh", i>>
<1> DEFINE new == UpdateVarIds(info)
           e(p) == payload.parameters[p]
<1>1. ASSUME NEW p \in DOMAIN payload.parameters
      PROVE  /\ p \in DOMAIN bindings /\ p # Nil /\ Bound(bindings)
             /\ e(p).is_output = IsOutput(p) /\ e(p).var_id = bindings[p].id
             /\ IsOutput(p) => bindings[p].id = NoId
  <2>1. p \in DOMAIN Typ /\ p \in DOMAIN bindings /\ Bound(bindings) /\ e(p) = ParamDict(p)
    BY SentParameters
  <2>2. ParamDict(p).is_output = IsOutput(p) /\ ParamDict(p).var_id = bindings[p].id
    BY Zenon DEF ParamDict
  <2>3. ~ ParameterRejected(e(p))
    BY DEF Rejected
  <2>4. p # Nil
    BY <2>1, TokensAssumption
  <2>5. IsOutput(p) => bindings[p].id = NoId
    BY <2>1, <2>2, <2>3 DEF ParameterRejected
  <2> QED
    BY <2>1, <2>2, <2>4, <2>5
<1>2. ASSUME NEW p \in DOMAIN payload.parameters
      PROVE  \/ (\A i \in 1 .. n : info[i][1] # p) /\ new[p].id = bindings[p].id
             \/ \E i \in 1 .. n : info[i][1] = p /\ new[p].id = NodeVar(i, e(p))
  <2>1. \/ (\A i \in 1 .. n : info[i][1] # p) /\ new[p] = bindings[p]
        \/ \E i \in 1 .. n : info[i][1] = p /\ new[p].id = info[i][2]
    BY <1>1, UpdatedBinding DEF Entries
  <2> QED
    BY <1>1, <2>1 DEF Entries
<1> HIDE DEF new
<1>3. ASSUME NEW p \in DOMAIN payload.parameters, e(p).var_id # NoId
      PROVE  new[p].id = e(p).var_id
  <2>1. ~ e(p).is_output
    BY <1>1, <1>3
  <2>2. \A i \in 1 .. n : NodeVar(i, e(p)) = e(p).var_id
    BY <1>3, <2>1 DEF NodeVar
  <2> QED
    BY <1>1, <1>2, <2>2
<1>4. ASSUME NEW p \in Outputs
      PROVE  \/ (\A i \in 1 .. n : info[i][1] # p) /\ new[p].id = NoId
             \/ \E i \in 1 .. n : info[i][1] = p /\ new[p].id = <<"fresh", i>>
  <2>1. p \in DOMAIN payload.parameters
    <3>1. bindings[p].var /\ p \in DOMAIN Typ
      BY DEF CallInv, WireInv, Bound, Outputs
    <3>2. payload = IF func.native THEN NativePayload ELSE SemanticPayload
      BY DEF CallInv, WireInv
    <3>3. p \in DOMAIN NativePayload.parameters
      BY <3>1 DEF NativePayload
    <3>4. p \in DOMAIN SemanticPayload.parameters
      BY <3>1 DEF SemanticPayload
    <3> QED
      BY <3>2, <3>3, <3>4
  <2>2. IsOutput(p)
    BY Vocabulary
  <2>3. e(p).is_output /\ bindings[p].id = NoId
    BY <1>1, <2>1, <2>2
  <2>4. \A i \in 1 .. n : NodeVar(i, e(p)) = <<"fresh", i>>
    BY <2>3 DEF NodeVar
  <2> QED
    BY <1>2, <2>1, <2>3, <2>4
<1> QED
  BY <1>3, <1>4 DEF new

LEMMA SemanticIds ==
  ASSUME CallInv, ServeSemantic, result' = "ok"
  PROVE  OutputIdsAreGens'
<1> DEFINE d == ParseTemplate(payload.template, func.rpf)
           n == Len(d)
           info == SemanticParamInfo(d, payload.parameters)
<1>1. /\ stage = "serve" /\ ~ func.native
      /\ func' = func /\ source' = source /\ payload' = payload
      /\ ~ Rejected /\ body' = d /\ bindings' = UpdateVarIds(info)
  BY SemanticAnswer
<1>2. /\ DOMAIN d = 1 .. n /\ n \in Nat
      /\ \A o \in Outputs : o \in ToSet(source) => \E i \in 1 .. n : d[i].name = o
  BY <1>1, ServedBody
<1> HIDE DEF d
<1>3. Entries(info, n) /\ \A i \in 1 .. n : info[i][1] = d[i].name
  BY <1>2 DEF SemanticParamInfo, Entries
<1> HIDE DEF info, n
<1>4. /\ \A p \in DOMAIN payload.parameters :
             payload.parameters[p].var_id # NoId =>
                bindings'[p].id = payload.parameters[p].var_id
      /\ \A p \in Outputs :
             \/ (\A i \in 1 .. n : d[i].name # p) /\ bindings'[p].id = NoId
             \/ \E i \in 1 .. n : d[i].name = p /\ bindings'[p].id = <<"fresh", i>>
  BY <1>1, <1>2, <1>3, AnsweredIds
<1>5. \A i : <<"fresh", i>> # NoId /\ <<"fresh", i>>[2] = i
  BY DEF NoId
<1>6. ASSUME NEW p \in Outputs
      PROVE  /\ p \in ToSet(source) => bindings'[p].id # NoId
             /\ bindings'[p].id # NoId => d[bindings'[p].id[2]].name = p
  <2>1. CASE (\A i \in 1 .. n : d[i].name # p) /\ bindings'[p].id = NoId
    BY <1>2, <2>1
  <2>2. CASE \E i \in 1 .. n : d[i].name = p /\ bindings'[p].id = <<"fresh", i>>
    BY <1>5, <2>2
  <2> QED
    BY <1>4, <2>1, <2>2
<1>7. ASSUME NEW p \in Outputs, NEW q \in Outputs \ {p}, bindings'[p].id # NoId
      PROVE  bindings'[q].id # bindings'[p].id
  <2>1. d[bindings'[p].id[2]].name = p
    BY <1>6, <1>7
  <2>2. bindings'[q].id # NoId => d[bindings'[q].id[2]].name = q
    BY <1>6
  <2> QED
    BY <1>7, <2>1, <2>2
<1> QED
  BY <1>1, <1>4, <1>6, <1>7 DEF OutputIdsAreGens

LEMMA NativeIds ==
  ASSUME CallInv, ServeNative, result' = "ok"
  PROVE  OutputIdsAreGens'
<1> DEFINE n == Len(Params)
           info == NativeParamInfo(payload.parameters)
<1>1. /\ stage = "serve" /\ func.native /\ func' = func /\ payload' = payload
      /\ ~ Rejected /\ bindings' = UpdateVarIds(info)
  <2>1. /\ stage = "serve" /\ func.native
        /\ Answer(IF Rejected THEN "parameter rejected" ELSE "none", info)
    BY DEF ServeNative
  <2> HIDE DEF info
  <2> QED
    BY <2>1, Zenon DEF Answer
<1>2. /\ n \in Nat /\ DOMAIN Params = 1 .. n
      /\ \A p \in DOMAIN Typ : p # Nil /\ \E i \in 1 .. n : Params[i] = p
      /\ \A i, j \in 1 .. n : Params[i] = Params[j] => i = j
  BY ParamsAssumption, TokensAssumption DEF ToSet
<1>3. ASSUME NEW i \in 1 .. n
      PROVE  info[i] = IF payload.parameters[Params[i]].value # Unset THEN <<Nil, NoId>>
                       ELSE <<Params[i], NodeVar(i, payload.parameters[Params[i]])>>
  BY <1>2 DEF NativeParamInfo
<1>4. Entries(info, n) /\ \A i \in 1 .. n : info[i][1] \in {Nil, Params[i]}
  <2>1. DOMAIN info = 1 .. n
    BY <1>2 DEF NativeParamInfo
  <2> HIDE DEF info
  <2> QED
    BY <1>3, <2>1 DEF Entries
<1>5. ASSUME NEW p \in Outputs PROVE \E i \in 1 .. n : info[i][1] = p
  <2>1. PICK i \in 1 .. n : Params[i] = p
    BY <1>2 DEF Outputs
  <2>2. payload.parameters = [q \in DOMAIN Typ |-> ParamDict(q)]
    BY <1>1 DEF CallInv, WireInv, NativePayload
  <2>3. payload.parameters[p] = ParamDict(p)
    BY <2>2 DEF Outputs
  <2>4. ParamDict(p).value = Unset
    BY Vocabulary DEF ParamDict
  <2>5. payload.parameters[Params[i]].value = Unset
    BY <2>1, <2>3, <2>4
  <2> HIDE DEF info
  <2>6. info[i] = <<p, NodeVar(i, payload.parameters[p])>>
    BY <1>3, <2>1, <2>5
  <2> QED
    BY <2>6
<1> HIDE DEF info, n
<1>6. /\ \A p \in DOMAIN payload.parameters :
             payload.parameters[p].var_id # NoId =>
                bindings'[p].id = payload.parameters[p].var_id
      /\ \A p \in Outputs :
             \E i \in 1 .. n : info[i][1] = p /\ bindings'[p].id = <<"fresh", i>>
  BY <1>1, <1>2, <1>4, <1>5, AnsweredIds
<1>7. \A p \in Outputs : p # Nil
  BY <1>2 DEF Outputs
<1>8. ASSUME NEW p \in Outputs
      PROVE  /\ bindings'[p].id # NoId
             /\ \E i \in 1 .. n : Params[i] = p /\ bindings'[p].id = <<"fresh", i>>
  <2>1. PICK i \in 1 .. n : info[i][1] = p /\ bindings'[p].id = <<"fresh", i>>
    BY <1>6
  <2>2. Params[i] = p
    BY <1>4, <1>7, <2>1
  <2>3. <<"fresh", i>> # NoId
    BY DEF NoId
  <2> QED
    BY <2>1, <2>2, <2>3
<1>9. ASSUME NEW p \in Outputs, NEW q \in Outputs \ {p}
      PROVE  bindings'[q].id # bindings'[p].id
  <2>1. PICK i \in 1 .. n : Params[i] = p /\ bindings'[p].id = <<"fresh", i>>
    BY <1>8
  <2>2. PICK j \in 1 .. n : Params[j] = q /\ bindings'[q].id = <<"fresh", j>>
    BY <1>8
  <2>3. i # j
    BY <2>1, <2>2
  <2> QED
    BY <2>1, <2>2, <2>3
<1> QED
  BY <1>1, <1>6, <1>8, <1>9 DEF OutputIdsAreGens

LEMMA ServedChain ==
  ASSUME CallInv, ServeSemantic, result' = "ok"
  PROVE  FirstChainComplete'
<1> DEFINE d == ParseTemplate(payload.template, func.rpf)
           b == GenBits(d)
<1>1. stage = "serve" /\ ~ func.native /\ body' = d
  BY SemanticAnswer
<1>2. Len(d) \in Nat /\ b \in [1 .. Len(d) -> BOOLEAN]
  <2>1. DOMAIN d = 1 .. Len(d) /\ Len(d) \in Nat
    BY <1>1, ServedBody
  <2>2. \A i \in 1 .. Len(d) : IsGen(d[i]) \in BOOLEAN
    BY DEF IsGen, IsOutput
  <2> HIDE DEF d
  <2> QED
    BY <2>1, <2>2 DEF GenBits
<1>3. GenBits(body') = b
  BY <1>1
<1> HIDE DEF b, d
<1>4. \A g \in Gens(b) : GensBefore(b, g) = {} =>
         /\ IterFrom(b, CompletionChainFirst(b, g)) = ProperChain(b, g)
         /\ IterFillFrom(b, CompletionChainFirst(b, g)) = ProperChain(b, g) \ {g}
         /\ Gens(b) = {g} => \A i \in ProperChain(b, g) : CompChainOf(b, i) = g
  BY <1>2, FirstChain
<1> QED
  BY <1>3, <1>4 DEF FirstChainComplete

-----------------------------------------------------------------------------
(* The properties *)

Answered ==
    /\ PromptPreserved
    /\ RolesAlternate
    /\ RefusedForKnownReason
    /\ OutputIdsAreGens
    /\ FirstChainComplete

\* Only the serve layer accepts or refuses a call.
Quiet ==
    stage = "call" => result \in {"none", "bind error", "payload error"}

LEMMA QuietSteps ==
  ASSUME Next
  PROVE  ServeSemantic \/ ServeNative \/ Quiet'
<1>1. \A b, rpf, conv : DefineSemantic(b, rpf, conv) => Quiet'
  BY Zenon DEF DefineSemantic, Quiet
<1>2. DefineNative => Quiet'
  BY Zenon DEF DefineNative, Quiet
<1>3. \A c : CallSemantic(c) \/ CallNative(c) => Quiet'
  <2>1. \A c : CallFunc(c) => Quiet'
    <3> SUFFICES ASSUME NEW c, CallFunc(c) PROVE Quiet'
      OBVIOUS
    <3>1. \/ result' = "bind error"
          \/ stage' = "submit"
      BY Zenon DEF CallFunc
    <3> QED
      BY <3>1, Zenon DEF Quiet
  <2> QED
    BY <2>1 DEF CallSemantic, CallNative
<1>4. SubmitSemantic \/ SubmitNative => Quiet'
  <2>1. \A r : Submit(r) => Quiet'
    <3> SUFFICES ASSUME NEW r, Submit(r) PROVE Quiet'
      OBVIOUS
    <3>1. \/ result' = "payload error"
          \/ stage' = "serve"
      BY Zenon DEF Submit
    <3> QED
      BY <3>1, Zenon DEF Quiet
  <2> QED
    BY <2>1 DEF SubmitSemantic, SubmitNative
<1> QED
  BY <1>1, <1>2, <1>3, <1>4 DEF Next

LEMMA QuietAnswers ==
  Quiet => Answered
<1> SUFFICES ASSUME Quiet PROVE Answered
  OBVIOUS
<1>1. ~ (stage = "call" /\ result = "ok")
  BY Zenon DEF Quiet
<1>2. RefusedForKnownReason
  BY Zenon DEF Quiet, RefusedForKnownReason
<1> QED
  BY <1>1, <1>2, Zenon DEF Answered, PromptPreserved, RolesAlternate,
     OutputIdsAreGens, FirstChainComplete, Served

LEMMA AlwaysAnswered ==
  Spec => []Answered
<1>1. Init => Answered
  <2>1. Init => Quiet
    BY DEF Init, Quiet
  <2> QED
    BY <2>1, QuietAnswers
<1>2. ASSUME CallInv, Answered, [Next]_vars PROVE Answered'
  <2>1. CASE ServeSemantic
    <3>1. RefusedForKnownReason'
      BY <1>2, <2>1, SemanticRefusals
    <3>2. CASE result' = "ok"
      <4>1. PromptPreserved' /\ RolesAlternate'
        BY <1>2, <2>1, <3>2, ServedPrompt DEF PromptPreserved, RolesAlternate, Alternates
      <4>2. OutputIdsAreGens' /\ FirstChainComplete'
        BY <1>2, <2>1, <3>2, SemanticIds, ServedChain
      <4> QED
        BY <3>1, <4>1, <4>2 DEF Answered
    <3>3. CASE result' # "ok"
      BY <3>1, <3>3, Zenon DEF Answered, PromptPreserved, RolesAlternate,
         OutputIdsAreGens, FirstChainComplete, Served
    <3> QED
      BY <3>2, <3>3
  <2>2. CASE ServeNative
    <3>1. RefusedForKnownReason'
      BY <1>2, <2>2, NativeRefusals
    <3>2. func'.native
      BY <2>2 DEF ServeNative, Answer
    <3>3. OutputIdsAreGens'
      <4>1. CASE result' = "ok"
        BY <1>2, <2>2, <4>1, NativeIds
      <4>2. CASE result' # "ok"
        BY <4>2, Zenon DEF OutputIdsAreGens
      <4> QED
        BY <4>1, <4>2
    <3> QED
      BY <3>1, <3>2, <3>3, Zenon DEF Answered, PromptPreserved, RolesAlternate,
         FirstChainComplete, Served
  <2>3. CASE Quiet'
    BY <2>3, QuietAnswers, PTL
  <2>4. CASE UNCHANGED vars
    <3>1. /\ stage' = stage /\ func' = func /\ source' = source /\ body' = body
          /\ bindings' = bindings /\ payload' = payload /\ result' = result
      BY <2>4 DEF vars
    <3>2. PromptPreserved'
      BY <1>2, <3>1, Zenon DEF Answered, PromptPreserved, Served, Tokens, Meant
    <3>3. RolesAlternate'
      BY <1>2, <3>1, Zenon DEF Answered, RolesAlternate, Served, Tokens
    <3>4. RefusedForKnownReason'
      BY <1>2, <3>1, Zenon DEF Answered, RefusedForKnownReason
    <3>5. OutputIdsAreGens'
      BY <1>2, <3>1, Zenon DEF Answered, OutputIdsAreGens
    <3>6. FirstChainComplete'
      BY <1>2, <3>1, Zenon DEF Answered, FirstChainComplete, Served
    <3> QED
      BY <3>2, <3>3, <3>4, <3>5, <3>6 DEF Answered
  <2> QED
    BY <1>2, <2>1, <2>2, <2>3, <2>4, QuietSteps
<1> QED
  BY <1>1, <1>2, CallInvHolds, PTL DEF Spec

\* The prompt that the serve layer parses is, but for the roles of the
\* conversation, what the docstring says with the bound texts in it, for any
\* signature, docstring and arguments: formatting, rendering, the two parsers
\* and the two prunings lose and reorder nothing.
THEOREM AlwaysPromptPreserved ==
  Spec => []PromptPreserved
<1>1. Answered => PromptPreserved
  BY DEF Answered
<1> QED
  BY <1>1, AlwaysAnswered, PTL

\* In the prompt of a conversation every output follows the assistant's role
\* and that the user's, which opens every round.
THEOREM AlwaysRolesAlternate ==
  Spec => []RolesAlternate
<1>1. Answered => RolesAlternate
  BY DEF Answered
<1> QED
  BY <1>1, AlwaysAnswered, PTL

\* A call that the frontend sent is refused only for the four known reasons,
\* and never for a placeholder without a parameter.
THEOREM AlwaysRefusedForKnownReason ==
  Spec => []RefusedForKnownReason
<1>1. Answered => RefusedForKnownReason
  BY DEF Answered
<1> QED
  BY <1>1, AlwaysAnswered, PTL

\* The ids that come back are those of each output's own Gen, distinct, and a
\* registered input keeps its id.
THEOREM AlwaysOutputIdsAreGens ==
  Spec => []OutputIdsAreGens
<1>1. Answered => OutputIdsAreGens
  BY DEF Answered
<1> QED
  BY <1>1, AlwaysAnswered, PTL

\* The chain of a request's first output is complete, however many nodes the
\* request has.
THEOREM AlwaysFirstChainComplete ==
  Spec => []FirstChainComplete
<1>1. Answered => FirstChainComplete
  BY DEF Answered
<1> QED
  BY <1>1, AlwaysAnswered, PTL
=============================================================================
