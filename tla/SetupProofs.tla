---------------------------- MODULE SetupProofs ----------------------------
(***************************************************************************)
(* Proofs about Setup, for every .env.example, every edit by hand, every   *)
(* environment and any number of commands.                                 *)
(*                                                                         *)
(* The invariant has three parts.  KeptInv follows the promised values     *)
(* through the copy of .env in memory.  TidyInv says that the commands     *)
(* alone never repeat a name.  FilledInv says that they only ever fill two *)
(* texts into .env.example, which ones, and which of them prometheus.yml   *)
(* has, in every state between the two writes.                             *)
(***************************************************************************)
EXTENDS Setup, SequenceTheorems, WellFoundedInduction, TLAPS

-----------------------------------------------------------------------------
(* The inductive invariant *)

\* Somebody looks at this line for a value of x: dotenvy, or set_env_var.
Seen(l, x) == l.name = x /\ (l.live \/ l.found)

\* The first line that is seen for the name x is live and has the text v.
Holds(ls, x, v) ==
    \E i \in DOMAIN ls : /\ ls[i].name = x /\ ls[i].live /\ ls[i].text = v
                         /\ \A j \in DOMAIN ls : Seen(ls[j], x) => i <= j

\* A command has read .env and not yet written it.
InMemory == cmd.step \in {"sync", "write"}

\* Where the commands are, and that a .env that is not there has no lines.
ControlInv == /\ cmd.step # "idle" => commands > 0
              /\ cmd.step = "copy" => ~exists
              /\ InMemory \/ cmd.step = "load" => exists
              /\ cmd.step = "sync" => "METRICS_TOKEN" \in changed
              /\ ~exists => file = <<>>

KeptInv == \A x \in DOMAIN kept :
              /\ kept[x] # Empty /\ Holds(file, x, kept[x])
              /\ InMemory => Holds(lines, x, kept[x])
              /\ cmd.step # "idle" /\ cmd.force => x \notin Secrets

Tidy(ls) == /\ \A i \in DOMAIN ls : ls[i].live /\ ls[i].found
            /\ \A i, j \in DOMAIN ls : ls[i].name = ls[j].name => i = j

TidyInv == edits = 0 => Tidy(file) /\ Tidy(lines)

ReadyInv == ready # {} => /\ cmd.step = "idle" /\ exists
                          /\ Accepts(SetupEnv) /\ ready = {Loaded(SetupEnv)}
                          /\ "schema" \in db

Tokens == {Generated(n) : n \in 1..commands}

RealToken == prom \notin NoToken

\* The new scrape token is in memory and in prometheus.yml, but not in .env.
Between == cmd.step = "write" /\ "METRICS_TOKEN" \in changed

\* .env has the texts a and b, and prometheus.yml fits.
FileIs(a, b) == /\ file = Filled(a, b)
                /\ cmd.step = "load" => a # Empty /\ b # Empty
                /\ RealToken /\ ~rotated /\ b # Empty /\ ~Between => prom = b
                /\ RealToken /\ Between => prom = Generated(commands)

\* A command is about to write c and d over them.
LinesAre(a, b, c, d) ==
    /\ lines = Filled(c, d)
    /\ changed \subseteq {"JWT_SECRET", "METRICS_TOKEN"}
    /\ IF "JWT_SECRET" \in changed THEN c = Generated(commands) ELSE c = a
    /\ IF "METRICS_TOKEN" \in changed THEN d = Generated(commands) ELSE d = b

FilledInv ==
    edits = 0 /\ ~torn /\ exists =>
        \E a, b \in Tokens \cup {Empty} :
            /\ FileIs(a, b)
            /\ InMemory => \E c, d \in Tokens : LinesAre(a, b, c, d)

IInv == /\ TypeOK /\ ControlInv /\ KeptInv /\ TidyInv /\ ReadyInv /\ FilledInv
        /\ SetupFailsForCause

-----------------------------------------------------------------------------
(* Lines *)

LEMMA LeastIs ==
  ASSUME NEW S \in SUBSET Nat, S # {}
  PROVE  Least(S) \in S /\ \A j \in S : Least(S) <= j
<1>1. PICK i \in S : \A j \in S : <<j, i>> \notin OpToRel(<, Nat)
  BY WFMin, NatLessThanWellFounded, Zenon
<1>2. ASSUME NEW j \in S, j < i PROVE <<j, i>> \in OpToRel(<, Nat)
  <2>1. <<j, i>> \in Nat \X Nat /\ <<j, i>>[1] < <<j, i>>[2]
    BY <1>2
  <2> QED
    BY <2>1, Zenon DEF OpToRel
<1>3. \A j \in S : ~(j < i)
  BY <1>1, <1>2, Zenon
<1>4. \A j \in S : i <= j
  BY <1>3
<1> QED
  BY <1>4 DEF Least
\* An element that is below all others is the least one.
LEMMA LeastUnique ==
  ASSUME NEW S \in SUBSET Nat, NEW i \in S, \A j \in S : i <= j
  PROVE  Least(S) = i
<1>1. Least(S) \in S /\ \A j \in S : Least(S) <= j
  BY LeastIs
<1>2. i \in Nat /\ Least(S) \in Nat
  BY <1>1
<1> QED
  BY <1>1, <1>2

\* The lines of a name are positions of the file.
LEMMA MatchingIs ==
  ASSUME NEW ls \in Seq(LineType), NEW x
  PROVE  /\ DOMAIN ls = 1..Len(ls) /\ Len(ls) \in Nat
         /\ \A i \in DOMAIN ls : ls[i] \in LineType
         /\ Matching(ls, x) \in SUBSET Nat /\ Live(ls, x) \in SUBSET Nat
         /\ \A i : i \in Matching(ls, x) <=> i \in DOMAIN ls /\ ls[i].name = x /\ ls[i].found
         /\ \A i : i \in Live(ls, x) <=> i \in DOMAIN ls /\ ls[i].name = x /\ ls[i].live
<1>1. DOMAIN ls = 1..Len(ls) /\ Len(ls) \in Nat /\ \A i \in DOMAIN ls : ls[i] \in LineType
  BY LenProperties, ElementOfSeq
<1>2. /\ \A i : i \in Matching(ls, x) <=> i \in DOMAIN ls /\ ls[i].name = x /\ ls[i].found
      /\ \A i : i \in Live(ls, x) <=> i \in DOMAIN ls /\ ls[i].name = x /\ ls[i].live
  BY Zenon DEF Matching, Live, LinesOf
<1>3. DOMAIN ls \subseteq Nat
  BY <1>1
<1> QED
  BY <1>1, <1>2, <1>3

\* A new line is a line of its name with the secret of this command.
LEMMA NewIs ==
  ASSUME NEW x \in VarName, commands \in Nat
  PROVE  /\ New(x) \in LineType /\ New(x).name = x /\ New(x).live /\ New(x).found
         /\ New(x).text = Generated(commands) /\ New(x).text # Empty
BY DEF New, Line, LineType, TextType, Kind, Generated, Text, Empty

\* The first line of a name, when there is one.
LEMMA FirstLine ==
  ASSUME NEW ls \in Seq(LineType), NEW x, Matching(ls, x) # {}
  PROVE  \E k \in DOMAIN ls : /\ k = Least(Matching(ls, x))
                              /\ ls[k].name = x /\ ls[k].found
                              /\ \A j \in DOMAIN ls : ls[j].name = x /\ ls[j].found => k <= j
BY MatchingIs, LeastIs

\* Whether set_env_var changes a file depends on the first line of the name only.
LEMMA SetsFirst ==
  ASSUME NEW ls \in Seq(LineType), NEW x, NEW force \in BOOLEAN, NEW k \in DOMAIN ls,
         ls[k].name = x, ls[k].found,
         \A j \in DOMAIN ls : ls[j].name = x /\ ls[j].found => k <= j
  PROVE  /\ Matching(ls, x) # {} /\ Least(Matching(ls, x)) = k
         /\ Sets(ls, x, force) <=> (ls[k].live /\ ls[k].text # Empty => force)
<1>1. Matching(ls, x) # {} /\ Least(Matching(ls, x)) = k
  BY MatchingIs, LeastUnique
<1> QED
  BY <1>1, Zenon DEF Sets

\* What set_env_var does to a file, if not nothing: m is ls with a new line at the end, or with
\* a new first line of the name x in the place k of the old one.
Extends(m, ls, x) == /\ \A i \in DOMAIN ls : ~(ls[i].name = x /\ ls[i].found)
                     /\ Len(m) = Len(ls) + 1 /\ m[Len(ls) + 1] = New(x)
                     /\ \A i \in 1..Len(ls) : m[i] = ls[i]

Replaces(m, ls, x, force, k) ==
    /\ ls[k].name = x /\ ls[k].found
    /\ \A j \in DOMAIN ls : ls[j].name = x /\ ls[j].found => k <= j
    /\ ls[k].live /\ ls[k].text # Empty => force
    /\ Len(m) = Len(ls)
    /\ \A i \in 1..Len(ls) : m[i] = IF i = k THEN New(x) ELSE ls[i]

LEMMA SetEnvVarIs ==
  ASSUME NEW ls \in Seq(LineType), NEW x \in VarName, NEW force \in BOOLEAN, commands \in Nat,
         NEW m, m = SetEnvVar(ls, x, force)
  PROVE  /\ m \in Seq(LineType)
         /\ \/ ~Sets(ls, x, force) /\ m = ls
            \/ Extends(m, ls, x)
            \/ \E k \in DOMAIN ls : Replaces(m, ls, x, force, k)
<1>0. New(x) \in LineType
  BY NewIs
<1>1. CASE ~Sets(ls, x, force)
  BY <1>1 DEF SetEnvVar
<1>2. CASE Sets(ls, x, force) /\ Matching(ls, x) = {}
  <2>1. m = Append(ls, New(x)) /\ \A i \in DOMAIN ls : ~(ls[i].name = x /\ ls[i].found)
    BY <1>2, MatchingIs DEF SetEnvVar
  <2> QED
    BY <1>0, <2>1, AppendProperties DEF Extends
<1>3. CASE Sets(ls, x, force) /\ Matching(ls, x) # {}
  <2>1. PICK k \in DOMAIN ls : /\ k = Least(Matching(ls, x))
                               /\ ls[k].name = x /\ ls[k].found
                               /\ \A j \in DOMAIN ls : ls[j].name = x /\ ls[j].found => k <= j
    BY <1>3, FirstLine
  <2>2. m = [ls EXCEPT ![k] = New(x)]
    BY <1>3, <2>1 DEF SetEnvVar
  <2>3. ls[k].live /\ ls[k].text # Empty => force
    BY <1>3, <2>1, SetsFirst
  <2>4. k \in 1..Len(ls)
    BY <2>1, LenProperties
  <2>5. /\ m \in Seq(LineType) /\ Len(m) = Len(ls)
        /\ \A i \in 1..Len(ls) : m[i] = IF i = k THEN New(x) ELSE ls[i]
    BY <1>0, <2>2, <2>4, ExceptSeq
  <2> QED
    BY <2>1, <2>3, <2>5 DEF Replaces
<1> QED
  BY <1>1, <1>2, <1>3

LEMMA SetEnvVarType ==
  ASSUME NEW ls \in Seq(LineType), NEW x \in VarName, NEW force \in BOOLEAN, commands \in Nat
  PROVE  SetEnvVar(ls, x, force) \in Seq(LineType)
<1>1. ASSUME NEW m, m = SetEnvVar(ls, x, force) PROVE m \in Seq(LineType)
  BY <1>1, SetEnvVarIs
<1> QED
  BY <1>1

\* set_env_var leaves a value that is set alone, unless it is forced to replace that one.
LEMMA HoldsStays ==
  ASSUME NEW ls \in Seq(LineType), NEW y \in VarName, NEW force \in BOOLEAN, commands \in Nat,
         NEW m, m = SetEnvVar(ls, y, force),
         NEW x, NEW v, Holds(ls, x, v), v # Empty, force => x # y
  PROVE  Holds(m, x, v)
<1>1. PICK i \in DOMAIN ls : /\ ls[i].name = x /\ ls[i].live /\ ls[i].text = v
                             /\ \A j \in DOMAIN ls : Seen(ls[j], x) => i <= j
  BY DEF Holds
<1>2. New(y).name = y
  BY NewIs
<1>3. DOMAIN ls = 1..Len(ls) /\ Len(ls) \in Nat /\ i \in 1..Len(ls)
  BY <1>1, LenProperties
<1>4. m \in Seq(LineType) /\ DOMAIN m = 1..Len(m)
  BY SetEnvVarIs, LenProperties
\* A new line stands at the end.
<1>5. CASE Extends(m, ls, y)
  <2>1. i \in DOMAIN m
    BY <1>3, <1>4, <1>5 DEF Extends
  <2>2. m[i] = ls[i]
    BY <1>3, <1>5, Zenon DEF Extends
  <2>3. ASSUME NEW j \in DOMAIN m, Seen(m[j], x) PROVE i <= j
    <3>1. CASE j = Len(ls) + 1
      BY <1>3, <3>1
    <3>2. CASE j # Len(ls) + 1
      <4>1. j \in 1..Len(ls)
        BY <1>3, <1>4, <1>5, <3>2 DEF Extends
      <4>2. m[j] = ls[j]
        BY <1>5, <4>1, Zenon DEF Extends
      <4> QED
        BY <1>1, <1>3, <2>3, <4>1, <4>2
    <3> QED
      BY <3>1, <3>2
  <2> QED
    BY <1>1, <2>1, <2>2, <2>3 DEF Holds
\* The line that is replaced is not the one at i, and if it is of the same name it is below.
<1>6. ASSUME NEW k \in DOMAIN ls, Replaces(m, ls, y, force, k) PROVE Holds(m, x, v)
  <2>1. i # k
    BY <1>1, <1>6 DEF Replaces
  <2>2. DOMAIN m = DOMAIN ls
    BY <1>3, <1>4, <1>6 DEF Replaces
  <2>3. m[i] = ls[i]
    BY <1>3, <1>6, <2>1 DEF Replaces
  <2>4. ASSUME NEW j \in DOMAIN m, Seen(m[j], x) PROVE i <= j
    <3>1. CASE j # k
      <4>1. m[j] = ls[j]
        BY <1>3, <1>6, <2>2, <3>1 DEF Replaces
      <4> QED
        BY <1>1, <2>2, <2>4, <4>1
    <3>2. CASE j = k
      <4>1. m[j] = New(y)
        BY <1>3, <1>6, <2>2, <3>2 DEF Replaces
      <4>2. y = x
        BY <1>2, <2>4, <4>1 DEF Seen
      <4>3. Seen(ls[k], x)
        BY <1>6, <4>2 DEF Replaces, Seen
      <4> QED
        BY <1>1, <3>2, <4>3
    <3> QED
      BY <3>1, <3>2
  <2> QED
    BY <1>1, <2>2, <2>3, <2>4 DEF Holds
<1>7. CASE m = ls
  BY <1>7
<1> QED
  BY <1>5, <1>6, <1>7, SetEnvVarIs

\* set_env_var never makes a second line of a name.
LEMMA TidyStays ==
  ASSUME NEW ls \in Seq(LineType), NEW y \in VarName, NEW force \in BOOLEAN, commands \in Nat,
         NEW m, m = SetEnvVar(ls, y, force), Tidy(ls)
  PROVE  Tidy(m)
<1>1. New(y).name = y /\ New(y).live /\ New(y).found
  BY NewIs
<1>2. DOMAIN ls = 1..Len(ls) /\ Len(ls) \in Nat
  BY LenProperties
<1>3. m \in Seq(LineType) /\ DOMAIN m = 1..Len(m)
  BY SetEnvVarIs, LenProperties
<1>4. CASE Extends(m, ls, y)
  <2>1. ASSUME NEW i \in DOMAIN m
        PROVE  \/ i \in DOMAIN ls /\ m[i] = ls[i]
               \/ i = Len(ls) + 1 /\ m[i] = New(y)
    <3>1. i \in 1..Len(ls) \/ i = Len(ls) + 1
      BY <1>2, <1>3, <1>4 DEF Extends
    <3> QED
      BY <1>2, <1>4, <3>1, Zenon DEF Extends
  <2> QED
    BY <1>1, <1>4, <2>1 DEF Extends, Tidy
<1>5. ASSUME NEW k \in DOMAIN ls, Replaces(m, ls, y, force, k) PROVE Tidy(m)
  <2>1. \A i \in DOMAIN m : i \in DOMAIN ls /\ m[i].name = ls[i].name /\ m[i].live /\ m[i].found
    BY <1>1, <1>2, <1>3, <1>5 DEF Replaces, Tidy
  <2> QED
    BY <2>1 DEF Tidy
<1>6. CASE m = ls
  BY <1>6
<1> QED
  BY <1>4, <1>5, <1>6, SetEnvVarIs

\* What is left of a file is a file, and repeats no name if the file did not.
LEMMA CutsAre ==
  ASSUME NEW ls \in Seq(LineType), NEW m \in Cuts(ls)
  PROVE  m \in Seq(LineType) /\ (Tidy(ls) => Tidy(m))
<1>0. DOMAIN ls = 1..Len(ls) /\ Len(ls) \in Nat /\ \A i \in DOMAIN ls : ls[i] \in LineType
  BY LenProperties, ElementOfSeq
<1>1. ASSUME NEW k \in 0..Len(ls)
      PROVE  /\ SubSeq(ls, 1, k) \in Seq(LineType) /\ Len(SubSeq(ls, 1, k)) = k
             /\ \A i \in 1..k : SubSeq(ls, 1, k)[i] = ls[i]
  BY <1>0, SubSeqProperties
<1>2. ASSUME NEW k \in 0..(Len(ls) - 1), m = SubSeq(ls, 1, k)
      PROVE  m \in Seq(LineType) /\ (Tidy(ls) => Tidy(m))
  <2>1. /\ m \in Seq(LineType) /\ Len(m) = k /\ \A i \in 1..k : m[i] = ls[i]
    BY <1>0, <1>1, <1>2
  <2>2. DOMAIN m = 1..k /\ \A i \in DOMAIN m : i \in DOMAIN ls /\ m[i] = ls[i]
    BY <1>0, <2>1, LenProperties
  <2> QED
    BY <2>1, <2>2 DEF Tidy
<1>3. ASSUME NEW k \in DOMAIN ls, NEW t \in {Empty, Text("word", 5)},
             m = Append(SubSeq(ls, 1, k - 1), [ls[k] EXCEPT !.text = t])
      PROVE  m \in Seq(LineType) /\ (Tidy(ls) => Tidy(m))
  <2> DEFINE l == [ls[k] EXCEPT !.text = t]
             h == SubSeq(ls, 1, k - 1)
  <2>1. l \in LineType /\ l.name = ls[k].name /\ l.live = ls[k].live /\ l.found = ls[k].found
    <3>1. t \in TextType
      BY DEF TextType, Kind, Empty, Text
    <3>2. ls[k] \in [name : VarName, live : BOOLEAN, found : BOOLEAN, text : TextType]
      BY <1>0 DEF LineType
    <3>3. /\ l \in [name : VarName, live : BOOLEAN, found : BOOLEAN, text : TextType]
          /\ l.name = ls[k].name /\ l.live = ls[k].live /\ l.found = ls[k].found
      BY <3>1, <3>2
    <3> QED
      BY <3>3 DEF LineType
  <2>2. h \in Seq(LineType) /\ Len(h) = k - 1 /\ \A i \in 1..(k - 1) : h[i] = ls[i]
    BY <1>0, <1>1
  <2>3. /\ m \in Seq(LineType) /\ Len(m) = k /\ m[k] = l
        /\ \A i \in 1..(k - 1) : m[i] = ls[i]
    <3> HIDE DEF l, h
    <3>1. m = Append(h, l)
      BY <1>3 DEF l, h
    <3> QED
      BY <1>0, <2>1, <2>2, <3>1, AppendProperties
  <2>4. /\ DOMAIN m = 1..k
        /\ \A i \in DOMAIN m : /\ i \in DOMAIN ls /\ m[i].name = ls[i].name
                               /\ m[i].live = ls[i].live /\ m[i].found = ls[i].found
    <3> HIDE DEF l
    <3> QED
      BY <1>0, <2>1, <2>3, LenProperties
  <2>5. Tidy(ls) => Tidy(m)
    <3> HIDE DEF l, h
    <3> QED
      BY ONLY <2>4 DEF Tidy
  <2> QED
    BY <2>3, <2>5
<1>4. \/ \E k \in 0..(Len(ls) - 1) : m = SubSeq(ls, 1, k)
      \/ \E k \in DOMAIN ls, t \in {Empty, Text("word", 5)} :
            m = Append(SubSeq(ls, 1, k - 1), [ls[k] EXCEPT !.text = t])
  BY DEF Cuts
<1> QED
  BY <1>2, <1>3, <1>4
-----------------------------------------------------------------------------
(* .env.example with its secrets filled in *)

\* The texts that are filled in are texts, and a generated one is not empty.
LEMMA GeneratedIs ==
  ASSUME commands \in Nat
  PROVE  /\ Empty \in TextType /\ Tokens \subseteq TextType /\ Empty \notin Tokens
         /\ \A t \in Tokens : t.kind = "secret" /\ t \notin {NoFile, NoCredentials}
<1>1. Empty \in TextType
  BY DEF Text, Empty, TextType, Kind
<1>2. ASSUME NEW n \in 1..commands
      PROVE  /\ Generated(n) \in TextType /\ Generated(n) # Empty /\ Generated(n).kind = "secret"
             /\ Generated(n) \notin {NoFile, NoCredentials}
  BY DEF Generated, Text, Empty, TextType, Kind, NoFile, NoCredentials
<1> QED
  BY <1>1, <1>2 DEF Tokens

\* Line by line.
LEMMA FilledLine ==
  ASSUME NEW a, NEW b, NEW i \in DOMAIN Template
  PROVE  /\ Template[i].name = "JWT_SECRET" => Filled(a, b)[i] = Line("JWT_SECRET", TRUE, a)
         /\ Template[i].name = "METRICS_TOKEN" =>
               Filled(a, b)[i] = Line("METRICS_TOKEN", TRUE, b)
         /\ Template[i].name \notin {"JWT_SECRET", "METRICS_TOKEN"} =>
               Filled(a, b)[i] = Template[i]
         /\ Filled(a, b)[i].name = Template[i].name
         /\ Filled(a, b)[i].live /\ Filled(a, b)[i].found
<1>1. /\ Template[i].name = "JWT_SECRET" => Filled(a, b)[i] = Line("JWT_SECRET", TRUE, a)
      /\ Template[i].name = "METRICS_TOKEN" =>
            Filled(a, b)[i] = Line("METRICS_TOKEN", TRUE, b)
      /\ Template[i].name \notin {"JWT_SECRET", "METRICS_TOKEN"} => Filled(a, b)[i] = Template[i]
  BY DEF Filled
<1>2. Filled(a, b)[i].name = Template[i].name /\ Filled(a, b)[i].live /\ Filled(a, b)[i].found
  BY <1>1, TemplateAssumption DEF Line
<1> QED
  BY <1>1, <1>2

LEMMA FilledJwt ==
  ASSUME NEW a, NEW b, NEW i \in DOMAIN Template, Template[i].name = "JWT_SECRET"
  PROVE  Filled(a, b)[i] = Line("JWT_SECRET", TRUE, a)
BY FilledLine

LEMMA FilledMetrics ==
  ASSUME NEW a, NEW b, NEW i \in DOMAIN Template, Template[i].name = "METRICS_TOKEN"
  PROVE  Filled(a, b)[i] = Line("METRICS_TOKEN", TRUE, b)
BY DEF Filled

LEMMA FilledDomain ==
  ASSUME NEW a, NEW b
  PROVE  /\ DOMAIN Filled(a, b) = DOMAIN Template
         /\ Filled(a, b) = [i \in DOMAIN Template |-> Filled(a, b)[i]]
BY DEF Filled

LEMMA FilledSame ==
  ASSUME NEW a, NEW b, NEW c, NEW i \in DOMAIN Template
  PROVE  /\ Template[i].name # "JWT_SECRET" => Filled(a, c)[i] = Filled(b, c)[i]
         /\ Template[i].name # "METRICS_TOKEN" => Filled(c, a)[i] = Filled(c, b)[i]
BY DEF Filled

\* .env.example itself is filled with nothing, and repeats no name.
LEMMA TemplateIs == Template = Filled(Empty, Empty) /\ Tidy(Template)
<1>2. ASSUME NEW i \in DOMAIN Template PROVE Template[i] = Filled(Empty, Empty)[i]
  <2>1. CASE Template[i].name \in {"JWT_SECRET", "METRICS_TOKEN"}
    <3>1. PICK j \in DOMAIN Template : Template[j] = Line(Template[i].name, TRUE, Empty)
      BY <2>1, TemplateAssumption
    <3>2. Template[j].name = Template[i].name
      BY <3>1 DEF Line
    <3>3. i = j
      BY <3>2, TemplateAssumption
    <3>4. /\ Template[i].name = "JWT_SECRET" =>
                Filled(Empty, Empty)[i] = Line("JWT_SECRET", TRUE, Empty)
          /\ Template[i].name = "METRICS_TOKEN" =>
                Filled(Empty, Empty)[i] = Line("METRICS_TOKEN", TRUE, Empty)
      BY FilledLine
    <3>5. CASE Template[i].name = "JWT_SECRET"
      BY <3>1, <3>3, <3>4, <3>5
    <3>6. CASE Template[i].name = "METRICS_TOKEN"
      BY <3>1, <3>3, <3>4, <3>6
    <3> QED
      BY <2>1, <3>5, <3>6
  <2>2. CASE Template[i].name \notin {"JWT_SECRET", "METRICS_TOKEN"}
    BY <2>2, FilledLine
  <2> QED
    BY <2>1, <2>2
<1>3. Template \in Seq(LineType)
  BY ConstantsAssumption
<1>4. Template = [i \in DOMAIN Template |-> Template[i]]
  BY <1>3
<1>5. Filled(Empty, Empty) = [i \in DOMAIN Template |-> Filled(Empty, Empty)[i]]
  BY FilledDomain
<1>6. Template = Filled(Empty, Empty)
  BY <1>2, <1>4, <1>5
<1> QED
  BY <1>6, <1>5, TemplateAssumption DEF Tidy

\* set_env_var fills in one of the two texts, when it was empty or is to be replaced.
LEMMA FilledSets ==
  ASSUME NEW a, NEW b, NEW ls \in Seq(LineType), ls = Filled(a, b),
         NEW force \in BOOLEAN, commands \in Nat
  PROVE  /\ Sets(ls, "JWT_SECRET", force) <=> a = Empty \/ force
         /\ Sets(ls, "METRICS_TOKEN", force) <=> b = Empty \/ force
         /\ SetEnvVar(ls, "JWT_SECRET", force) =
               Filled(IF a = Empty \/ force THEN Generated(commands) ELSE a, b)
         /\ SetEnvVar(ls, "METRICS_TOKEN", force) =
               Filled(a, IF b = Empty \/ force THEN Generated(commands) ELSE b)
<1>1. /\ DOMAIN ls = DOMAIN Template
      /\ \A i \in DOMAIN ls : ls[i].name = Template[i].name /\ ls[i].live /\ ls[i].found
      /\ \A i, j \in DOMAIN ls : ls[i].name = ls[j].name => i = j
  <2>1. DOMAIN ls = DOMAIN Template
    BY FilledDomain
  <2>2. ASSUME NEW i \in DOMAIN Template
        PROVE  ls[i].name = Template[i].name /\ ls[i].live /\ ls[i].found
    BY FilledLine
  <2> QED
    BY <2>1, <2>2, TemplateAssumption
<1>2. DOMAIN ls = 1..Len(ls) /\ Len(ls) \in Nat
  BY LenProperties
<1>3. \A i \in DOMAIN Template :
         /\ Template[i].name = "JWT_SECRET" => ls[i] = Line("JWT_SECRET", TRUE, a)
         /\ Template[i].name = "METRICS_TOKEN" => ls[i] = Line("METRICS_TOKEN", TRUE, b)
  BY FilledJwt, FilledMetrics
<1>4. ASSUME NEW x \in {"JWT_SECRET", "METRICS_TOKEN"}, NEW t, NEW u,
             t = IF x = "JWT_SECRET" THEN a ELSE b,
             u = IF t = Empty \/ force THEN Generated(commands) ELSE t
      PROVE  /\ Sets(ls, x, force) <=> t = Empty \/ force
             /\ SetEnvVar(ls, x, force) =
                   IF x = "JWT_SECRET" THEN Filled(u, b) ELSE Filled(a, u)
  <2>1. PICK k \in DOMAIN ls : ls[k] = Line(x, TRUE, t)
    <3>1. PICK k \in DOMAIN Template : Template[k] = Line(x, TRUE, Empty)
      BY TemplateAssumption
    <3>2. Template[k].name = x
      BY <3>1 DEF Line
    <3> QED
      <4>1. k \in DOMAIN ls
        BY <1>1
      <4>2. CASE x = "JWT_SECRET"
        <5>1. ls[k] = Line("JWT_SECRET", TRUE, a)
          BY <1>3, <3>2, <4>2
        <5> QED
          BY <1>4, <4>1, <4>2, <5>1
      <4>3. CASE x = "METRICS_TOKEN"
        <5>1. ls[k] = Line("METRICS_TOKEN", TRUE, b)
          BY <1>3, <3>2, <4>3
        <5> QED
          BY <1>4, <4>1, <4>3, <5>1
      <4> QED
        BY <4>2, <4>3
  <2>2. ls[k].name = x /\ ls[k].live /\ ls[k].found /\ ls[k].text = t
    BY <2>1 DEF Line
  <2>3. \A j \in DOMAIN ls : ls[j].name = x => j = k
    BY <1>1, <2>2
  <2>4. \A j \in DOMAIN ls : ls[j].name = x /\ ls[j].found => k <= j
    BY <1>2, <2>3
  <2>5. /\ Sets(ls, x, force) <=> t = Empty \/ force
        /\ Matching(ls, x) # {} /\ Least(Matching(ls, x)) = k
    BY <2>2, <2>4, SetsFirst
  <2> DEFINE g == IF x = "JWT_SECRET" THEN Filled(u, b) ELSE Filled(a, u)
  <2>6. CASE t = Empty \/ force
    <3>1. SetEnvVar(ls, x, force) = [ls EXCEPT ![k] = New(x)]
      BY <2>5, <2>6 DEF SetEnvVar
    <3>2. New(x) = Line(x, TRUE, u)
      BY <1>4, <2>6 DEF New
    <3>3. [ls EXCEPT ![k] = New(x)] = [i \in DOMAIN Template |-> IF i = k THEN New(x) ELSE ls[i]]
      BY <1>1
    <3>4. ASSUME NEW i \in DOMAIN Template
          PROVE  g[i] = IF i = k THEN New(x) ELSE ls[i]
      <4>1. Template[i].name = x <=> i = k
        BY <1>1, <2>2
      <4>2. ls[i] = Filled(a, b)[i]
        OBVIOUS
      <4>3. CASE x = "JWT_SECRET"
        <5>1. g[i] = Filled(u, b)[i]
          BY <4>3
        <5>2. CASE i = k
          <6>1. Filled(u, b)[i] = Line("JWT_SECRET", TRUE, u)
            <7>1. Template[i].name = "JWT_SECRET"
              BY <4>1, <4>3, <5>2
            <7> HIDE DEF g
            <7> QED
              BY <7>1, FilledJwt
          <6> QED
            BY <3>2, <4>3, <5>1, <5>2, <6>1
        <5>3. CASE i # k
          <6>1. Template[i].name # "JWT_SECRET"
            BY <4>1, <4>3, <5>3
          <6>2. Filled(u, b)[i] = Filled(a, b)[i]
            BY <6>1, FilledSame
          <6> QED
            BY <4>2, <5>1, <5>3, <6>2
        <5> QED
          BY <5>2, <5>3
      <4>4. CASE x = "METRICS_TOKEN"
        <5>1. g[i] = Filled(a, u)[i]
          BY <4>4
        <5>2. CASE i = k
          <6>1. Filled(a, u)[i] = Line("METRICS_TOKEN", TRUE, u)
            <7>1. Template[i].name = "METRICS_TOKEN"
              BY <4>1, <4>4, <5>2
            <7> HIDE DEF g
            <7> QED
              BY <7>1, FilledMetrics
          <6> QED
            BY <3>2, <4>4, <5>1, <5>2, <6>1
        <5>3. CASE i # k
          <6>1. Template[i].name # "METRICS_TOKEN"
            BY <4>1, <4>4, <5>3
          <6>2. Filled(a, u)[i] = Filled(a, b)[i]
            BY <6>1, FilledSame
          <6> QED
            BY <4>2, <5>1, <5>3, <6>2
        <5> QED
          BY <5>2, <5>3
      <4> QED
        BY <4>3, <4>4
    <3>5. g = [i \in DOMAIN Template |-> g[i]]
      BY FilledDomain
    <3> HIDE DEF g
    <3>6. SetEnvVar(ls, x, force) = g
      BY <3>1, <3>3, <3>4, <3>5
    <3> QED
      BY <2>5, <3>6 DEF g
  <2>7. CASE ~(t = Empty \/ force)
    BY <1>4, <2>5, <2>7 DEF SetEnvVar
  <2> QED
    BY <2>5, <2>6, <2>7
<1> QED
  BY <1>4

\* .env.example has no address for an administrator, so no password is generated for one.
LEMMA FilledNoAdmin ==
  ASSUME NEW a, NEW b
  PROVE  ~HasNonEmptyValue(Filled(a, b), "ADMIN_EMAIL")
<1>1. PICK k \in DOMAIN Template : Template[k] = Line("ADMIN_EMAIL", TRUE, Empty)
  BY TemplateAssumption
<1>2. ASSUME NEW i \in DOMAIN Template, Template[i].name = "ADMIN_EMAIL"
      PROVE  Filled(a, b)[i].text = Empty
  <2>1. i = k
    BY <1>1, <1>2, TemplateAssumption DEF Line
  <2>2. Filled(a, b)[i] = Line("ADMIN_EMAIL", TRUE, Empty)
    <3>1. Template[i].name \notin {"JWT_SECRET", "METRICS_TOKEN"} =>
             Filled(a, b)[i] = Template[i]
      BY FilledLine
    <3> QED
      BY <1>1, <1>2, <2>1, <3>1
  <2> QED
    BY <2>2 DEF Line
<1>3. ASSUME NEW i \in Live(Filled(a, b), "ADMIN_EMAIL") PROVE Filled(a, b)[i].text = Empty
  <2>1. i \in DOMAIN Filled(a, b) /\ Filled(a, b)[i].name = "ADMIN_EMAIL"
    BY DEF Live, LinesOf
  <2>2. i \in DOMAIN Template
    BY <2>1, FilledDomain
  <2>3. Filled(a, b)[i].name = Template[i].name
    BY <2>2, FilledLine
  <2> QED
    BY <1>2, <2>1, <2>2, <2>3
<1> QED
  BY <1>3, Zenon DEF HasNonEmptyValue

\* The server reads the scrape token that is filled in.
LEMMA FilledToken ==
  ASSUME NEW a, NEW b, NEW ls \in Seq(LineType), ls = Filled(a, b)
  PROVE  Value(FirstWins(ls), "METRICS_TOKEN") = b
<1>1. PICK k \in DOMAIN Template : Template[k] = Line("METRICS_TOKEN", TRUE, Empty)
  BY TemplateAssumption
<1>2. Template[k].name = "METRICS_TOKEN"
  BY <1>1 DEF Line
<1>3. k \in DOMAIN ls /\ ls[k] = Line("METRICS_TOKEN", TRUE, b)
  BY <1>2, FilledMetrics, FilledDomain
<1>4. ls[k].name = "METRICS_TOKEN" /\ ls[k].live /\ ls[k].text = b
  BY <1>3 DEF Line
<1>5. ASSUME NEW i \in Live(ls, "METRICS_TOKEN") PROVE i = k
  <2>1. i \in DOMAIN ls /\ ls[i].name = "METRICS_TOKEN"
    BY DEF Live, LinesOf
  <2>2. i \in DOMAIN Template /\ Template[i].name = "METRICS_TOKEN"
    <3>1. i \in DOMAIN Template
      BY <2>1, FilledDomain
    <3>2. ls[i].name = Template[i].name
      BY <3>1, FilledLine
    <3> QED
      BY <2>1, <3>1, <3>2
  <2> QED
    BY <1>2, <2>2, TemplateAssumption
<1>6. k \in Live(ls, "METRICS_TOKEN") /\ Live(ls, "METRICS_TOKEN") \in SUBSET Nat
  BY <1>3, <1>4, MatchingIs
<1>7. Least(Live(ls, "METRICS_TOKEN")) = k
  BY <1>5, <1>6, LeastUnique
<1>8. "METRICS_TOKEN" \in Names(ls)
  BY <1>3, <1>4 DEF Names
<1> QED
  BY <1>4, <1>7, <1>8 DEF Value, FirstWins
-----------------------------------------------------------------------------
(* Type correctness and where the commands are *)

\* The files that the actions write are sequences of lines.
LEMMA FilesAre ==
  ASSUME TypeOK
  PROVE  /\ commands \in Nat /\ cmd.force \in BOOLEAN /\ Template \in Seq(LineType)
         /\ Final \in Seq(LineType)
         /\ SetEnvVar(file, "JWT_SECRET", cmd.force) \in Seq(LineType)
         /\ SetEnvVar(SetEnvVar(file, "JWT_SECRET", cmd.force), "METRICS_TOKEN", cmd.force)
               \in Seq(LineType)
<1>0. "JWT_SECRET" \in VarName /\ "METRICS_TOKEN" \in VarName /\ "ADMIN_PASSWORD" \in VarName
  BY DEF VarName, Secrets
<1>1. /\ commands \in Nat /\ cmd.force \in BOOLEAN
      /\ file \in Seq(LineType) /\ lines \in Seq(LineType)
  BY ConstantsAssumption DEF TypeOK
<1>2. \A ls \in Seq(LineType) : \A x \in VarName : SetEnvVar(ls, x, cmd.force) \in Seq(LineType)
  BY <1>1, SetEnvVarType
<1>3. SetEnvVar(file, "JWT_SECRET", cmd.force) \in Seq(LineType)
  BY <1>0, <1>1, <1>2
<1>4. SetEnvVar(SetEnvVar(file, "JWT_SECRET", cmd.force), "METRICS_TOKEN", cmd.force)
         \in Seq(LineType)
  BY <1>0, <1>2, <1>3
<1>5. SetEnvVar(lines, "ADMIN_PASSWORD", cmd.force) \in Seq(LineType)
  BY <1>0, <1>1, <1>2
<1> QED
  BY <1>1, <1>3, <1>4, <1>5, ConstantsAssumption DEF Final

\* An edit by hand leaves a sequence of lines.
LEMMA EditType ==
  ASSUME TypeOK, Edit
  PROVE  file' \in Seq(LineType)
<1>1. file \in Seq(LineType) /\ DOMAIN file = 1..Len(file) /\ Len(file) \in Nat
  BY LenProperties DEF TypeOK
<1>2. \A i \in DOMAIN file : file[i] \in LineType
  BY <1>1, ElementOfSeq
<1>3. ASSUME NEW l \in EditLine, file' = <<l>> \o file PROVE file' \in Seq(LineType)
  BY <1>1, <1>3, ConstantsAssumption, ConcatProperties
<1>4. ASSUME NEW l \in EditLine, file' = Append(file, l) PROVE file' \in Seq(LineType)
  BY <1>1, <1>4, ConstantsAssumption, AppendProperties
<1>5. ASSUME NEW l \in EditLine, NEW i \in LinesOf(file, l.name), file' = [file EXCEPT ![i] = l]
      PROVE  file' \in Seq(LineType)
  <2>1. i \in 1..Len(file) /\ l \in LineType
    BY <1>1, ConstantsAssumption DEF LinesOf
  <2> QED
    BY <1>1, <1>5, <2>1, ExceptSeq
<1>6. ASSUME NEW i \in DOMAIN file, file' = RemoveAt(file, i) PROVE file' \in Seq(LineType)
  <2>1. SubSeq(file, 1, i - 1) \in Seq(LineType)
    BY <1>1, <1>2, SubSeqProperties
  <2>2. SubSeq(file, i + 1, Len(file)) \in Seq(LineType)
    BY <1>1, <1>2, SubSeqProperties
  <2> QED
    BY <1>6, <2>1, <2>2, ConcatProperties DEF RemoveAt
<1> QED
  BY <1>3, <1>4, <1>5, <1>6 DEF Edit

LEMMA StartType ==
  ASSUME TypeOK, NEW op \in {"setup", "gen", "seed"}, NEW step \in Step,
         NEW force \in BOOLEAN, NEW seed \in BOOLEAN, Start(op, step, force, seed)
  PROVE  TypeOK'
<1>1. commands' \in 0..MaxCommands
  BY ConstantsAssumption DEF Start, TypeOK
<1>2. cmd' \in [step : Step, op : {"none", "setup", "gen", "seed"},
                force : BOOLEAN, seed : BOOLEAN]
  BY DEF Start
<1>3. rejected' \in BOOLEAN
  BY DEF Start
<1>4. UNCHANGED <<exists, file, shell, db, lines, changed, edits, torn, rotated>>
  BY DEF Start, quiet
<1> QED
  BY <1>1, <1>2, <1>3, <1>4 DEF TypeOK

\* What a step of a running command leaves of its record.
LEMMA AtType ==
  ASSUME TypeOK, NEW step \in Step, At(step)
  PROVE  /\ cmd' \in [step : Step, op : {"none", "setup", "gen", "seed"},
                      force : BOOLEAN, seed : BOOLEAN]
         /\ cmd'.step = step /\ cmd'.op = cmd.op /\ cmd'.force = cmd.force
BY DEF At, TypeOK

LEMMA EndType ==
  ASSUME End
  PROVE  /\ cmd' \in [step : Step, op : {"none", "setup", "gen", "seed"},
                      force : BOOLEAN, seed : BOOLEAN]
         /\ lines' \in Seq(LineType) /\ lines' = <<>> /\ changed' = {}
         /\ cmd'.step = "idle"
BY DEF End, Idle, Step

LEMMA TypeStep ==
  ASSUME TypeOK, [Next]_vars
  PROVE  TypeOK'
<1>0. /\ commands \in 0..MaxCommands /\ edits \in 0..MaxEdits
      /\ MaxCommands \in Nat /\ MaxEdits \in Nat /\ <<>> \in Seq(LineType)
      /\ Step = {"idle", "copy", "read", "sync", "write", "load", "reset", "seed"}
  BY ConstantsAssumption DEF TypeOK, Step
<1>1. ASSUME NEW b \in BOOLEAN, StartSetup(b) PROVE TypeOK'
  <2>1. Start("setup", IF exists THEN "read" ELSE "copy", ~exists, b)
    BY <1>1 DEF StartSetup
  <2>2. (IF exists THEN "read" ELSE "copy") \in Step /\ (~exists) \in BOOLEAN
    BY <1>0
  <2> QED
    BY <2>1, <2>2, StartType
<1>2. ASSUME NEW b \in BOOLEAN, StartGen(b) PROVE TypeOK'
  BY <1>0, <1>2, StartType DEF StartGen
<1>3. ASSUME NEW fresh \in BOOLEAN, NEW confirmed \in BOOLEAN, StartSeed(fresh, confirmed)
      PROVE  TypeOK'
  <2>1. Start("seed", IF fresh THEN "reset" ELSE "seed", FALSE, TRUE)
    BY <1>3 DEF StartSeed
  <2>2. (IF fresh THEN "reset" ELSE "seed") \in Step
    BY <1>0
  <2> QED
    BY <2>1, <2>2, StartType
<1>4. CASE CopyTemplate
  BY <1>4, FilesAre DEF CopyTemplate, At, quiet, TypeOK, Step
<1>5. CASE Generate
  <2>1. cmd' \in [step : Step, op : {"none", "setup", "gen", "seed"},
                  force : BOOLEAN, seed : BOOLEAN]
    BY <1>0, <1>5, AtType, EndType DEF Generate
  <2>2. lines' \in Seq(LineType)
    BY <1>5, FilesAre, EndType DEF Generate
  <2>3. changed' \subseteq Secrets
    BY <1>5, EndType DEF Generate, Secrets
  <2>4. UNCHANGED <<quiet, exists, file, commands, rejected, torn, rotated>>
    BY <1>5 DEF Generate
  <2> QED
    BY <2>1, <2>2, <2>3, <2>4 DEF TypeOK, quiet
<1>6. CASE SyncPrometheusToken
  BY <1>6 DEF SyncPrometheusToken, At, TypeOK, Step
<1>7. CASE WriteEnv
  <2>1. cmd' \in [step : Step, op : {"none", "setup", "gen", "seed"},
                  force : BOOLEAN, seed : BOOLEAN]
    BY <1>0, <1>7, AtType, EndType DEF WriteEnv
  <2>2. lines' \in Seq(LineType) /\ changed' \subseteq Secrets
    BY <1>0, <1>7, EndType DEF WriteEnv
  <2>3. file' \in Seq(LineType) /\ rotated' \in BOOLEAN
    BY <1>7, FilesAre DEF WriteEnv, TypeOK
  <2>4. UNCHANGED <<quiet, exists, commands, rejected, torn>>
    BY <1>7 DEF WriteEnv
  <2> QED
    BY <2>1, <2>2, <2>3, <2>4 DEF TypeOK, quiet
<1>8. CASE LoadConfig
  BY <1>0, <1>8 DEF LoadConfig, End, Idle, TypeOK, Step
<1>9. CASE Reset \/ SeedRun \/ Serve
  <2>1. /\ cmd' \in [step : Step, op : {"none", "setup", "gen", "seed"},
                     force : BOOLEAN, seed : BOOLEAN]
        /\ lines' \in Seq(LineType) /\ changed' \subseteq Secrets
    BY <1>0, <1>9, AtType, EndType DEF Reset, SeedRun, Serve, TypeOK
  <2>2. db' \subseteq {"schema", "own", "seed"}
    BY <1>9 DEF Reset, SeedRun, Serve, TypeOK
  <2>3. UNCHANGED <<exists, file, shell, commands, edits, rejected, torn, rotated>>
    BY <1>9 DEF Reset, SeedRun, Serve
  <2> QED
    BY <2>1, <2>2, <2>3 DEF TypeOK
<1>10. CASE Copy
  BY <1>10, FilesAre DEF Copy, quiet, TypeOK
<1>11. CASE Edit
  <2>1. file' \in Seq(LineType)
    BY <1>11, EditType
  <2>2. edits' \in 0..MaxEdits
    BY <1>0, <1>11 DEF Edit
  <2> QED
    BY <1>11, <2>1, <2>2 DEF Edit, TypeOK
<1>12. CASE Interrupt
  <2>1. file' \in Seq(LineType)
    BY <1>12, FilesAre, CutsAre DEF Interrupt, TypeOK
  <2>2. db' \subseteq {"schema", "own", "seed"} /\ rotated' \in BOOLEAN
    BY <1>12 DEF Interrupt, TypeOK
  <2>3. exists' \in BOOLEAN /\ torn' \in BOOLEAN
    BY <1>12 DEF Interrupt, TypeOK
  <2> QED
    BY <1>0, <1>12, <2>1, <2>2, <2>3 DEF Interrupt, End, Idle, TypeOK, Step
<1>13. CASE UNCHANGED vars
  BY <1>13 DEF vars, TypeOK
<1> QED
  BY <1>1, <1>2, <1>3, <1>4, <1>5, <1>6, <1>7, <1>8, <1>9, <1>10, <1>11, <1>12, <1>13 DEF Next

LEMMA ControlStep ==
  ASSUME TypeOK, ControlInv, [Next]_vars
  PROVE  ControlInv'
<1>0. exists \in BOOLEAN /\ commands \in Nat
  BY FilesAre DEF TypeOK
<1>1. ASSUME NEW b \in BOOLEAN, StartSetup(b) PROVE ControlInv'
  BY <1>0, <1>1 DEF StartSetup, Start, quiet, ControlInv, InMemory
<1>2. ASSUME NEW b \in BOOLEAN, StartGen(b) PROVE ControlInv'
  BY <1>0, <1>2 DEF StartGen, Start, quiet, ControlInv, InMemory
<1>3. ASSUME NEW fresh \in BOOLEAN, NEW confirmed \in BOOLEAN, StartSeed(fresh, confirmed)
      PROVE  ControlInv'
  BY <1>0, <1>3 DEF StartSeed, Start, quiet, ControlInv, InMemory
<1>4. CASE CopyTemplate \/ Copy
  BY <1>4 DEF CopyTemplate, Copy, At, TypeOK, ControlInv, InMemory
<1>5. CASE Generate
  BY <1>5 DEF Generate, End, Idle, At, TypeOK, ControlInv, InMemory
<1>6. CASE SyncPrometheusToken
  BY <1>6 DEF SyncPrometheusToken, At, TypeOK, ControlInv, InMemory
<1>7. CASE WriteEnv
  BY <1>7 DEF WriteEnv, End, Idle, At, TypeOK, ControlInv, InMemory
<1>8. CASE LoadConfig
  BY <1>8 DEF LoadConfig, End, Idle, ControlInv, InMemory
<1>9. CASE Reset \/ SeedRun \/ Serve
  BY <1>9 DEF Reset, SeedRun, Serve, End, Idle, At, TypeOK, ControlInv, InMemory
<1>10. CASE Edit
  BY <1>10 DEF Edit, ControlInv, InMemory
<1>11. CASE Interrupt
  BY <1>11 DEF Interrupt, End, Idle, ControlInv, InMemory
<1>12. CASE UNCHANGED vars
  BY <1>12 DEF vars, ControlInv, InMemory
<1> QED
  BY <1>1, <1>2, <1>3, <1>4, <1>5, <1>6, <1>7, <1>8, <1>9, <1>10, <1>11, <1>12 DEF Next
-----------------------------------------------------------------------------
(* The promised values *)

\* What a command promises is in the file, and is none of what it is forced to replace.
LEMMA PromisedHolds ==
  ASSUME TypeOK, NEW force \in BOOLEAN, NEW x \in DOMAIN Promised(force)
  PROVE  /\ Promised(force)[x] # Empty /\ Holds(file, x, Promised(force)[x])
         /\ force => x \notin Secrets
<1> DEFINE now == FirstWins(file)
           i == Least(Live(file, x))
<1>1. /\ x \in DOMAIN now /\ NonEmpty(now, x) /\ (force => x \notin Secrets)
      /\ \A j \in Matching(file, x) : i <= j
      /\ Promised(force)[x] = now[x]
  BY DEF Promised
<1>2. x \in Names(file) /\ now[x] = file[i].text
  BY <1>1 DEF FirstWins
<1>3. Live(file, x) # {}
  BY <1>2 DEF Names, Live, LinesOf
<1>4. file \in Seq(LineType)
  BY DEF TypeOK
<1>5. i \in Live(file, x)
  BY <1>3, <1>4, MatchingIs, LeastIs
<1>6. i \in DOMAIN file /\ file[i].name = x /\ file[i].live /\ file[i] \in LineType
  BY <1>4, <1>5, MatchingIs
<1>7. \A j \in DOMAIN file : Seen(file[j], x) => i <= j
  <2>1. \A j \in Live(file, x) : i <= j
    BY <1>3, <1>4, MatchingIs, LeastIs
  <2> QED
    BY <1>1, <2>1 DEF Seen, Matching, Live, LinesOf
<1>9. now[x] # Empty
  BY <1>1 DEF NonEmpty, Value, Empty, Text
<1> HIDE DEF now, i
<1> QED
  BY <1>1, <1>2, <1>6, <1>7, <1>9 DEF Holds

\* Steps that write no file and bring none into memory.
LEMMA KeptFrame ==
  ASSUME KeptInv, kept' = kept, file' = file, InMemory' => InMemory /\ lines' = lines,
         cmd'.step # "idle" => cmd.step # "idle" /\ cmd'.force = cmd.force
  PROVE  KeptInv'
BY DEF KeptInv, Holds

\* Nothing is promised of a file that is not there.
LEMMA NothingKept ==
  ASSUME ControlInv, KeptInv, ~exists
  PROVE  DOMAIN kept = {}
<1>1. DOMAIN file = {}
  BY DEF ControlInv
<1> QED
  BY <1>1 DEF KeptInv, Holds

LEMMA KeptStart ==
  ASSUME TypeOK, NEW op, NEW step \in {"copy", "read", "reset", "seed"},
         NEW force \in BOOLEAN, NEW seed, Start(op, step, force, seed)
  PROVE  KeptInv'
<1>1. /\ kept' = Promised(force) /\ file' = file
      /\ cmd'.step = step /\ cmd'.force = force
  BY DEF Start
<1>2. ~InMemory'
  BY <1>1 DEF InMemory
<1>3. ASSUME NEW x \in DOMAIN Promised(force)
      PROVE  /\ Promised(force)[x] # Empty /\ Holds(file', x, Promised(force)[x])
             /\ force => x \notin Secrets
  <2>1. /\ Promised(force)[x] # Empty /\ Holds(file, x, Promised(force)[x])
        /\ force => x \notin Secrets
    BY PromisedHolds
  <2> QED
    BY <1>1, <2>1, Zenon
<1> QED
  BY <1>1, <1>2, <1>3 DEF KeptInv

LEMMA KeptStep ==
  ASSUME TypeOK, ControlInv, KeptInv, [Next]_vars
  PROVE  KeptInv'
<1>0. /\ commands \in Nat /\ cmd.force \in BOOLEAN
      /\ file \in Seq(LineType) /\ lines \in Seq(LineType)
      /\ "JWT_SECRET" \in VarName /\ "METRICS_TOKEN" \in VarName /\ "ADMIN_PASSWORD" \in VarName
  BY FilesAre DEF TypeOK, VarName, Secrets
<1>1. ASSUME NEW b \in BOOLEAN, StartSetup(b) PROVE KeptInv'
  <2>1. Start("setup", IF exists THEN "read" ELSE "copy", ~exists, b)
    BY <1>1 DEF StartSetup
  <2>2. (IF exists THEN "read" ELSE "copy") \in {"copy", "read"} /\ (~exists) \in BOOLEAN
    OBVIOUS
  <2> QED
    BY <2>1, <2>2, KeptStart
<1>2. ASSUME NEW b \in BOOLEAN, StartGen(b) PROVE KeptInv'
  BY <1>2, KeptStart DEF StartGen
<1>3. ASSUME NEW fresh \in BOOLEAN, NEW confirmed \in BOOLEAN, StartSeed(fresh, confirmed)
      PROVE  KeptInv'
  <2>1. Start("seed", IF fresh THEN "reset" ELSE "seed", FALSE, TRUE)
    BY <1>3 DEF StartSeed
  <2>2. (IF fresh THEN "reset" ELSE "seed") \in {"reset", "seed"}
    OBVIOUS
  <2> QED
    BY <2>1, <2>2, KeptStart
<1>4. CASE CopyTemplate \/ Copy
  <2>1. ~exists /\ kept' = kept
    BY <1>4 DEF CopyTemplate, Copy, ControlInv
  <2> QED
    BY <2>1, NothingKept DEF KeptInv
<1>5. CASE Generate
  <2>1. kept' = kept /\ file' = file
    BY <1>5 DEF Generate
  <2>2. CASE ~exists
    <3>1. DOMAIN kept = {}
      BY <2>2, NothingKept
    <3> QED
      BY <2>1, <3>1 DEF KeptInv
  <2>3. CASE exists
    <3> DEFINE ls == SetEnvVar(file, "JWT_SECRET", cmd.force)
               ms == SetEnvVar(ls, "METRICS_TOKEN", cmd.force)
    <3>1. lines' = ms /\ cmd'.force = cmd.force /\ cmd.step # "idle"
      BY <1>5, <2>3 DEF Generate, At, TypeOK
    <3>2. ASSUME NEW x \in DOMAIN kept PROVE Holds(ms, x, kept[x])
      <4>1. /\ kept[x] # Empty /\ Holds(file, x, kept[x])
            /\ cmd.force => x # "JWT_SECRET" /\ x # "METRICS_TOKEN"
        BY <3>1 DEF KeptInv, Secrets
      <4>2. Holds(ls, x, kept[x])
        BY <1>0, <4>1, HoldsStays
      <4>3. ls \in Seq(LineType)
        BY FilesAre
      <4> HIDE DEF ls
      <4> QED
        BY <1>0, <4>1, <4>2, <4>3, HoldsStays
    <3> HIDE DEF ms
    <3>3. ASSUME NEW x \in DOMAIN kept PROVE Holds(lines', x, kept[x])
      BY <3>1, <3>2
    <3> QED
      BY <2>1, <3>1, <3>3 DEF KeptInv, Holds
  <2> QED
    BY <2>2, <2>3
<1>6. CASE SyncPrometheusToken
  <2>1. /\ kept' = kept /\ file' = file /\ lines' = lines /\ InMemory
        /\ cmd.step # "idle" /\ cmd'.force = cmd.force
    BY <1>6 DEF SyncPrometheusToken, At, TypeOK, InMemory
  <2> QED
    BY <2>1, KeptFrame
<1>7. CASE WriteEnv
  <2>1. /\ kept' = kept /\ file' \in {file, lines, SetEnvVar(lines, "ADMIN_PASSWORD", cmd.force)}
        /\ InMemory /\ cmd.step # "idle"
    BY <1>7 DEF WriteEnv, Final, InMemory
  <2>2. ~InMemory' /\ (cmd'.step # "idle" => cmd'.force = cmd.force)
    BY <1>7, AtType, EndType DEF WriteEnv, InMemory, Step
  <2>3. ASSUME NEW x \in DOMAIN kept PROVE Holds(file', x, kept[x])
    <3>1. /\ kept[x] # Empty /\ Holds(file, x, kept[x]) /\ Holds(lines, x, kept[x])
          /\ cmd.force => x # "ADMIN_PASSWORD"
      BY <2>1 DEF KeptInv, Secrets
    <3>2. Holds(SetEnvVar(lines, "ADMIN_PASSWORD", cmd.force), x, kept[x])
      BY <1>0, <3>1, HoldsStays
    <3> QED
      BY <2>1, <3>1, <3>2
  <2> QED
    BY <2>1, <2>2, <2>3 DEF KeptInv, Holds
<1>8. CASE LoadConfig \/ SeedRun
  <2>1. kept' = kept /\ file' = file /\ cmd'.step = "idle"
    BY <1>8, EndType DEF LoadConfig, SeedRun
  <2> QED
    BY <2>1, KeptFrame DEF InMemory
<1>9. CASE Reset
  <2>1. kept' = kept /\ file' = file /\ cmd.step = "reset" /\ cmd' = [cmd EXCEPT !.step = "seed"]
    BY <1>9 DEF Reset, At
  <2>2. cmd'.step = "seed" /\ cmd'.force = cmd.force
    BY <2>1 DEF TypeOK
  <2> QED
    BY <2>1, <2>2, KeptFrame DEF InMemory
<1>10. CASE Serve \/ UNCHANGED vars
  <2>1. kept' = kept /\ file' = file /\ cmd' = cmd /\ lines' = lines
    BY <1>10 DEF Serve, vars
  <2> QED
    BY <2>1, KeptFrame DEF InMemory
<1>11. CASE Edit
  <2>1. kept' = << >>
    BY <1>11 DEF Edit
  <2> QED
    BY <2>1 DEF KeptInv
<1>12. CASE Interrupt
  <2>1. cmd'.step = "idle"
    BY <1>12, EndType DEF Interrupt
  <2>2. CASE torn'
    <3>1. kept' = << >>
      BY <1>12, <2>2 DEF Interrupt
    <3> QED
      BY <3>1 DEF KeptInv
  <2>3. CASE ~torn'
    <3>1. kept' = kept /\ file' = file
      BY <1>12, <2>3 DEF Interrupt
    <3> QED
      BY <2>1, <3>1, KeptFrame DEF InMemory
  <2> QED
    BY <2>2, <2>3
<1> QED
  BY <1>1, <1>2, <1>3, <1>4, <1>5, <1>6, <1>7, <1>8, <1>9, <1>10, <1>11, <1>12 DEF Next

\* What the file holds is what the server reads.
LEMMA HoldsIsRead ==
  ASSUME NEW ls \in Seq(LineType), NEW x, NEW v, Holds(ls, x, v)
  PROVE  Value(FirstWins(ls), x) = v
<1>1. PICK i \in DOMAIN ls : /\ ls[i].name = x /\ ls[i].live /\ ls[i].text = v
                             /\ \A j \in DOMAIN ls : Seen(ls[j], x) => i <= j
  BY DEF Holds
<1>3. i \in Live(ls, x) /\ \A j \in Live(ls, x) : i <= j
  BY <1>1 DEF Live, LinesOf, Seen
<1>4. Least(Live(ls, x)) = i
  BY <1>3, MatchingIs, LeastUnique
<1>5. x \in Names(ls)
  BY <1>1 DEF Names
<1> QED
  BY <1>1, <1>4, <1>5 DEF Value, FirstWins
-----------------------------------------------------------------------------
(* What setup has loaded *)

LEMMA TidyStep ==
  ASSUME TypeOK, TidyInv, [Next]_vars
  PROVE  TidyInv'
<1>1. CASE Edit
  <2>1. edits \in Nat /\ edits' = edits + 1
    BY <1>1, ConstantsAssumption DEF Edit, TypeOK
  <2> QED
    BY <2>1 DEF TidyInv
<1>2. CASE ~Edit
  <2>1. edits' = edits
    BY <1>2 DEF Next, StartSetup, StartGen, StartSeed, Start, CopyTemplate, Generate,
                SyncPrometheusToken, WriteEnv, LoadConfig, Reset, SeedRun, Serve, Copy,
                Interrupt, quiet, vars
  <2> SUFFICES ASSUME edits = 0 PROVE Tidy(file') /\ Tidy(lines')
    BY <2>1 DEF TidyInv, Tidy
  <2>2. Tidy(file) /\ Tidy(lines) /\ Tidy(<<>>)
    BY DEF TidyInv, Tidy
  <2>3. /\ commands \in Nat /\ cmd.force \in BOOLEAN
        /\ file \in Seq(LineType) /\ lines \in Seq(LineType)
        /\ "JWT_SECRET" \in VarName /\ "METRICS_TOKEN" \in VarName
        /\ "ADMIN_PASSWORD" \in VarName
    BY FilesAre DEF TypeOK, VarName, Secrets
  <2>4. Tidy(Final) /\ Final \in Seq(LineType)
    BY <2>2, <2>3, TidyStays, FilesAre DEF Final
  <2>5. Tidy(Template) /\ Template \in Seq(LineType)
    BY TemplateIs, FilesAre
  <2>6. \/ file' \in {file, Template, Final}
        \/ file' \in Cuts(Template)
        \/ file' \in Cuts(Final)
    BY <1>2 DEF Next, StartSetup, StartGen, StartSeed, Start, CopyTemplate, Generate,
                SyncPrometheusToken, WriteEnv, LoadConfig, Reset, SeedRun, Serve, Copy,
                Interrupt, vars
  <2>7. Tidy(file')
    BY <2>2, <2>4, <2>5, <2>6, CutsAre
  <2>8. CASE Generate /\ exists
    <3> DEFINE ls == SetEnvVar(file, "JWT_SECRET", cmd.force)
    <3>1. lines' = SetEnvVar(ls, "METRICS_TOKEN", cmd.force)
      BY <2>8 DEF Generate
    <3>2. ls \in Seq(LineType) /\ Tidy(ls)
      BY <2>2, <2>3, TidyStays, FilesAre
    <3> HIDE DEF ls
    <3>3. Tidy(lines')
      BY <2>3, <3>1, <3>2, TidyStays
    <3> QED
      BY <2>7, <3>3
  <2>9. CASE ~(Generate /\ exists)
    <3>1. lines' = lines \/ lines' = <<>>
      BY <1>2, <2>9 DEF Next, StartSetup, StartGen, StartSeed, Start, CopyTemplate, Generate,
                SyncPrometheusToken, WriteEnv, LoadConfig, Reset, SeedRun, Serve, Copy,
                Interrupt, End, vars
    <3> QED
      BY <2>2, <2>7, <3>1
  <2> QED
    BY <2>8, <2>9
<1> QED
  BY <1>1, <1>2

LEMMA ReadyStep ==
  ASSUME TypeOK, ControlInv, ReadyInv, [Next]_vars
  PROVE  ReadyInv'
<1>1. CASE LoadConfig
  <2>1. /\ cmd.step = "load" /\ exists /\ exists' = exists /\ cmd'.step = "idle"
        /\ file' = file /\ shell' = shell
    BY <1>1, EndType DEF LoadConfig, ControlInv
  <2>2. SetupEnv' = SetupEnv
    BY <2>1 DEF SetupEnv, LastWins, Over, Names, Live, LinesOf, Greatest
  <2>3. CASE Accepts(SetupEnv)
    <3>1. ready' = {Loaded(SetupEnv)} /\ "schema" \in db'
      BY <1>1, <2>3 DEF LoadConfig
    <3> QED
      BY <2>1, <2>2, <2>3, <3>1 DEF ReadyInv
  <2>4. CASE ~Accepts(SetupEnv)
    <3>1. ready' = ready
      BY <1>1, <2>4 DEF LoadConfig
    <3> QED
      BY <2>1, <3>1 DEF ReadyInv
  <2> QED
    BY <2>3, <2>4
<1>2. CASE Serve \/ UNCHANGED vars
  <2>1. /\ cmd' = cmd /\ exists' = exists /\ file' = file /\ shell' = shell /\ ready' = ready
        /\ db \subseteq db'
    BY <1>2 DEF Serve, vars
  <2>2. SetupEnv' = SetupEnv
    BY <2>1 DEF SetupEnv, LastWins, Over, Names, Live, LinesOf, Greatest
  <2> QED
    BY <2>1, <2>2 DEF ReadyInv
<1>3. CASE ~LoadConfig /\ ~Serve /\ ~UNCHANGED vars
  <2>1. ready' = {}
    BY <1>3 DEF Next, StartSetup, StartGen, StartSeed, Start, CopyTemplate, Generate,
                SyncPrometheusToken, WriteEnv, Reset, SeedRun, Copy, Edit, Interrupt, ReadyInv
  <2> QED
    BY <2>1 DEF ReadyInv
<1> QED
  BY <1>1, <1>2, <1>3

\* Without repeated names the first line of a name is the last one.
LEMMA FirstIsLast ==
  ASSUME NEW ls \in Seq(LineType), ~Repeats(ls)
  PROVE  FirstWins(ls) = LastWins(ls)
<1>1. ASSUME NEW x \in Names(ls) PROVE Least(Live(ls, x)) = Greatest(Live(ls, x))
  <2>1. PICK i \in DOMAIN ls : ls[i].live /\ ls[i].name = x
    BY DEF Names
  <2>2. i \in Live(ls, x) /\ \A j \in Live(ls, x) : j = i
    BY <2>1 DEF Live, LinesOf, Repeats
  <2>3. i \in Nat /\ Live(ls, x) = {i}
    BY <2>2, MatchingIs
  <2>4. Least({i}) = i /\ Greatest({i}) = i
    BY <2>3 DEF Least, Greatest
  <2> QED
    BY <2>3, <2>4
<1> QED
  BY <1>1 DEF FirstWins, LastWins

\* Nor does it matter which of two environments goes over the other if they share no name.
LEMMA OverCommutes ==
  ASSUME NEW f, NEW g, DOMAIN f \cap DOMAIN g = {}
  PROVE  Over(f, g) = Over(g, f)
<1>1. DOMAIN f \cup DOMAIN g = DOMAIN g \cup DOMAIN f
  OBVIOUS
<1>2. \A x \in DOMAIN f \cup DOMAIN g :
         (IF x \in DOMAIN f THEN f[x] ELSE g[x]) = (IF x \in DOMAIN g THEN g[x] ELSE f[x])
  OBVIOUS
<1> QED
  BY <1>1, <1>2 DEF Over

LEMMA ReadyServes ==
  ASSUME TypeOK, TidyInv, ReadyInv
  PROVE  ReadyIsWhatServes
<1> SUFFICES ASSUME ready # {}, edits > 0 => ~Repeats(file), Names(file) \cap DOMAIN shell = {}
             PROVE  /\ Accepts(ServeEnv) /\ Loaded(ServeEnv) \in ready
                    /\ "schema" \in db
  BY DEF ReadyIsWhatServes
<1>1. ~Repeats(file)
  <2>1. edits \in Nat
    BY ConstantsAssumption DEF TypeOK
  <2>2. CASE edits = 0
    BY <2>2 DEF TidyInv, Tidy, Repeats
  <2> QED
    BY <2>1, <2>2
<1>2. FirstWins(file) = LastWins(file)
  BY <1>1, FirstIsLast DEF TypeOK
<1>3. DOMAIN FirstWins(file) = Names(file)
  BY DEF FirstWins
<1>4. ServeEnv = SetupEnv
  BY <1>2, <1>3, OverCommutes DEF ServeEnv, SetupEnv
<1> QED
  BY <1>4 DEF ReadyInv
-----------------------------------------------------------------------------
(* The two files *)

\* Steps that write no file, are not between two writes, and do not lead there.
LEMMA FilledFrame ==
  ASSUME TypeOK, FilledInv,
         UNCHANGED <<exists, file, prom, edits, torn, rotated>>,
         commands' \in {commands, commands + 1}, ~Between,
         ~InMemory', cmd'.step # "load"
  PROVE  FilledInv'
<1>1. Tokens \subseteq Tokens'
  <2>1. commands \in Nat
    BY FilesAre
  <2>2. 1..commands \subseteq 1..(commands')
    BY <2>1
  <2> QED
    BY <2>2 DEF Tokens
<1>2. ~Between'
  BY DEF Between, InMemory
<1> SUFFICES ASSUME edits = 0, ~torn, exists
             PROVE  \E a, b \in Tokens' \cup {Empty} : FileIs(a, b)'
  BY DEF FilledInv
<1>3. PICK a, b \in Tokens \cup {Empty} : FileIs(a, b)
  BY DEF FilledInv
<1>4. FileIs(a, b)'
  BY <1>2, <1>3 DEF FileIs, RealToken
<1> QED
  BY <1>1, <1>3, <1>4

LEMMA FilledStart ==
  ASSUME TypeOK, FilledInv, NEW op, NEW step \in {"copy", "read", "reset", "seed"},
         NEW force, NEW seed, Start(op, step, force, seed)
  PROVE  FilledInv'
<1>1. /\ UNCHANGED <<exists, file, prom, edits, torn, rotated>>
      /\ commands' = commands + 1 /\ cmd.step = "idle" /\ cmd'.step = step
  BY DEF Start, quiet
<1> QED
  BY <1>1, FilledFrame DEF Between, InMemory

\* The secrets are generated in memory.
LEMMA FilledGenerate ==
  ASSUME TypeOK, ControlInv, FilledInv, Generate
  PROVE  FilledInv'
<1>1. /\ UNCHANGED <<exists, file, prom, edits, torn, rotated, commands>> /\ cmd.step = "read"
  BY DEF Generate, quiet
<1> SUFFICES ASSUME edits = 0, ~torn, exists
             PROVE  \E a, b \in Tokens \cup {Empty} :
                       FileIs(a, b)' /\ (InMemory' => \E c, d \in Tokens : LinesAre(a, b, c, d)')
  BY <1>1 DEF FilledInv, Tokens
<1>2. PICK a, b \in Tokens \cup {Empty} : FileIs(a, b)
  BY DEF FilledInv
<1> DEFINE setsJwt == a = Empty \/ cmd.force
           setsMetrics == b = Empty \/ cmd.force
           c == IF setsJwt THEN Generated(commands) ELSE a
           d == IF setsMetrics THEN Generated(commands) ELSE b
           ls == SetEnvVar(file, "JWT_SECRET", cmd.force)
<1>3. /\ commands \in Nat /\ cmd.force \in BOOLEAN
      /\ file \in Seq(LineType) /\ ls \in Seq(LineType) /\ file = Filled(a, b)
  BY <1>2, FilesAre DEF TypeOK, FileIs
<1>4. /\ Sets(file, "JWT_SECRET", cmd.force) <=> setsJwt
      /\ Sets(file, "METRICS_TOKEN", cmd.force) <=> setsMetrics
      /\ ls = Filled(c, b)
  BY <1>3, FilledSets
<1>5. SetEnvVar(ls, "METRICS_TOKEN", cmd.force) = Filled(c, d)
  <2> HIDE DEF ls, c
  <2> QED
    BY <1>3, <1>4, FilledSets
<1>6. /\ lines' = Filled(c, d)
      /\ changed' \subseteq {"JWT_SECRET", "METRICS_TOKEN"}
      /\ "JWT_SECRET" \in changed' <=> setsJwt
      /\ "METRICS_TOKEN" \in changed' <=> setsMetrics
      /\ cmd'.step = IF setsMetrics THEN "sync" ELSE "write"
  <2>1. /\ lines' = SetEnvVar(ls, "METRICS_TOKEN", cmd.force)
        /\ changed' = {x \in {"JWT_SECRET", "METRICS_TOKEN"} : Sets(file, x, cmd.force)}
        /\ At(IF "METRICS_TOKEN" \in changed' THEN "sync" ELSE "write")
    BY DEF Generate
  <2>2. /\ changed' \subseteq {"JWT_SECRET", "METRICS_TOKEN"}
        /\ "JWT_SECRET" \in changed' <=> setsJwt
        /\ "METRICS_TOKEN" \in changed' <=> setsMetrics
    BY <1>4, <2>1
  <2>3. cmd'.step = IF "METRICS_TOKEN" \in changed' THEN "sync" ELSE "write"
    BY <2>1 DEF At, TypeOK
  <2> QED
    BY <1>5, <2>1, <2>2, <2>3
<1>7. c \in Tokens /\ d \in Tokens
  <2>1. Generated(commands) \in Tokens
    <3>1. commands \in 1..commands
      BY <1>1, <1>3 DEF ControlInv
    <3> QED
      BY <3>1 DEF Tokens
  <2> QED
    BY <1>2, <2>1
<1>8. FileIs(a, b)'
  <2>1. ~Between /\ ~Between' /\ cmd'.step # "load"
    BY <1>1, <1>6 DEF Between
  <2> QED
    BY <1>1, <1>2, <2>1 DEF FileIs, RealToken
<1>9. PICK jwt, metrics \in Tokens : jwt = c /\ metrics = d
  BY <1>7
<1>10. LinesAre(a, b, jwt, metrics)'
  BY <1>1, <1>6, <1>9 DEF LinesAre
<1> QED
  BY <1>2, <1>8, <1>9, <1>10

\* .env is written.
LEMMA FilledWrite ==
  ASSUME TypeOK, ControlInv, FilledInv, WriteEnv
  PROVE  FilledInv'
<1>1. /\ UNCHANGED <<exists, prom, edits, torn, commands>> /\ cmd.step = "write"
      /\ rotated' = (rotated /\ "METRICS_TOKEN" \notin changed)
  BY DEF WriteEnv, quiet
<1>2. cmd'.step \in {"load", "idle"}
  BY AtType, EndType DEF WriteEnv, Step
<1>3. ~InMemory' /\ ~Between'
  BY <1>2 DEF InMemory, Between
<1> SUFFICES ASSUME edits = 0, ~torn, exists
             PROVE  \E a, b \in Tokens \cup {Empty} : FileIs(a, b)'
  BY <1>1, <1>3 DEF FilledInv, Tokens
<1>4. PICK a, b \in Tokens \cup {Empty} :
         FileIs(a, b) /\ (InMemory => \E c, d \in Tokens : LinesAre(a, b, c, d))
  BY DEF FilledInv
<1>5. PICK c, d \in Tokens : LinesAre(a, b, c, d)
  BY <1>1, <1>4 DEF InMemory
<1>6. c # Empty /\ d # Empty
  BY GeneratedIs, FilesAre
<1>7. ~AdminSet
  BY <1>5, FilledNoAdmin DEF AdminSet, LinesAre
<1>8. file' = Filled(c, d)
  <2>1. CASE changed = {}
    <3>1. file' = file /\ c = a /\ d = b
      BY <1>5, <1>7, <2>1 DEF WriteEnv, LinesAre
    <3> QED
      BY <1>4, <3>1 DEF FileIs
  <2>2. CASE changed # {}
    BY <1>5, <1>7, <2>2 DEF WriteEnv, Final, LinesAre
  <2> QED
    BY <2>1, <2>2
<1>9. ASSUME RealToken, ~rotated' PROVE prom = d
  <2>1. CASE "METRICS_TOKEN" \in changed
    BY <1>1, <1>4, <1>5, <1>9, <2>1 DEF FileIs, Between, LinesAre
  <2>2. CASE "METRICS_TOKEN" \notin changed
    BY <1>1, <1>4, <1>5, <1>6, <1>9, <2>2 DEF FileIs, Between, LinesAre
  <2> QED
    BY <2>1, <2>2
<1>10. FileIs(c, d)'
  BY <1>1, <1>3, <1>6, <1>8, <1>9 DEF FileIs, RealToken
<1> QED
  BY <1>5, <1>10

\* A command is interrupted.
LEMMA FilledInterrupt ==
  ASSUME TypeOK, ControlInv, FilledInv, Interrupt
  PROVE  FilledInv'
<1>1. /\ UNCHANGED <<edits, commands>> /\ cmd'.step = "idle"
      /\ rotated' = (rotated \/ (/\ Between \/ (cmd.step = "sync" /\ prom' = Generated(commands))
                                 /\ NonEmpty(FirstWins(file), "METRICS_TOKEN")))
  BY EndType DEF Interrupt, Between
<1>2. ~InMemory' /\ ~Between'
  BY <1>1 DEF InMemory, Between
<1> SUFFICES ASSUME edits = 0, ~torn', exists'
             PROVE  \E a, b \in Tokens \cup {Empty} : FileIs(a, b)'
  BY <1>1, <1>2 DEF FilledInv, Tokens
<1> DEFINE PromIs == \/ prom' = prom \/ prom' \in NoToken
                     \/ cmd.step = "sync" /\ prom' = Generated(commands)
<1>3. file' = file /\ exists' = exists /\ ~torn /\ PromIs
  <2>1. \/ file' = file /\ exists' = exists /\ prom' = prom /\ torn' = torn
        \/ torn' = TRUE
        \/ PromIs /\ file' = file /\ exists' = exists /\ torn' = torn
    BY DEF Interrupt, NoToken
  <2>2. torn' # TRUE
    BY Zenon
  <2>3. torn' = torn /\ file' = file /\ exists' = exists /\ PromIs
    BY <2>1, <2>2
  <2>4. ~torn
    BY <2>3, Zenon
  <2> QED
    BY <2>3, <2>4
<1>4. PICK a, b \in Tokens \cup {Empty} : FileIs(a, b)
  BY <1>3 DEF FilledInv
<1>5. ASSUME b # Empty, ~rotated'
      PROVE  ~rotated /\ ~Between /\ ~(cmd.step = "sync" /\ prom' = Generated(commands))
  <2>1. b.kind = "secret"
    BY <1>4, <1>5, GeneratedIs, FilesAre
  <2>2. Value(FirstWins(file), "METRICS_TOKEN") = b
    BY <1>4, FilledToken DEF FileIs, TypeOK
  <2>3. NonEmpty(FirstWins(file), "METRICS_TOKEN")
    BY <2>1, <2>2 DEF NonEmpty
  <2> QED
    BY <1>1, <1>5, <2>3
<1>6. FileIs(a, b)'
  BY <1>1, <1>2, <1>3, <1>4, <1>5 DEF FileIs, RealToken
<1> QED
  BY <1>4, <1>6

LEMMA FilledStep ==
  ASSUME TypeOK, ControlInv, FilledInv, [Next]_vars
  PROVE  FilledInv'
<1>1. ASSUME NEW b \in BOOLEAN, StartSetup(b) PROVE FilledInv'
  <2>1. Start("setup", IF exists THEN "read" ELSE "copy", ~exists, b)
    BY <1>1 DEF StartSetup
  <2>2. (IF exists THEN "read" ELSE "copy") \in {"copy", "read"}
    OBVIOUS
  <2> QED
    BY <2>1, <2>2, FilledStart
<1>2. ASSUME NEW b \in BOOLEAN, StartGen(b) PROVE FilledInv'
  BY <1>2, FilledStart DEF StartGen
<1>3. ASSUME NEW fresh \in BOOLEAN, NEW confirmed \in BOOLEAN, StartSeed(fresh, confirmed)
      PROVE  FilledInv'
  <2>1. Start("seed", IF fresh THEN "reset" ELSE "seed", FALSE, TRUE)
    BY <1>3 DEF StartSeed
  <2>2. (IF fresh THEN "reset" ELSE "seed") \in {"reset", "seed"}
    OBVIOUS
  <2> QED
    BY <2>1, <2>2, FilledStart
<1>4. CASE CopyTemplate \/ Copy
  <2>1. file' = Filled(Empty, Empty) /\ cmd'.step \in {"read", "idle"}
    BY <1>4, TemplateIs DEF CopyTemplate, Copy, At, TypeOK
  <2>2. ~InMemory' /\ FileIs(Empty, Empty)'
    BY <2>1 DEF InMemory, FileIs, Between
  <2> QED
    BY <2>2 DEF FilledInv
<1>5. CASE Generate
  BY <1>5, FilledGenerate
<1>6. CASE SyncPrometheusToken
  <2>1. /\ UNCHANGED <<exists, file, lines, changed, edits, torn, rotated, commands>>
        /\ cmd.step = "sync" /\ cmd'.step = "write" /\ "METRICS_TOKEN" \in changed
        /\ prom' \in NoToken \cup {Generated(commands)}
    BY <1>6 DEF SyncPrometheusToken, At, TypeOK, ControlInv, NoToken
  <2> SUFFICES ASSUME edits = 0, ~torn, exists
               PROVE  \E a, b \in Tokens \cup {Empty} :
                         FileIs(a, b)' /\ \E c, d \in Tokens : LinesAre(a, b, c, d)'
    BY <2>1 DEF FilledInv, Tokens
  <2>2. PICK a, b \in Tokens \cup {Empty} :
           FileIs(a, b) /\ \E c, d \in Tokens : LinesAre(a, b, c, d)
    BY <2>1 DEF FilledInv, InMemory
  <2>3. FileIs(a, b)'
    BY <2>1, <2>2 DEF FileIs, Between, RealToken
  <2>4. \A c, d \in Tokens : LinesAre(a, b, c, d) => LinesAre(a, b, c, d)'
    BY <2>1 DEF LinesAre
  <2> QED
    BY <2>2, <2>3, <2>4
<1>7. CASE WriteEnv
  BY <1>7, FilledWrite
<1>8. CASE LoadConfig \/ Reset \/ SeedRun \/ Serve
  <2>1. /\ UNCHANGED <<exists, file, prom, edits, torn, rotated, commands>>
        /\ cmd.step \in {"load", "reset", "seed", "idle"} /\ cmd'.step \in {"seed", "idle"}
    BY <1>8, EndType DEF LoadConfig, Reset, SeedRun, Serve, At, TypeOK
  <2> QED
    BY <2>1, FilledFrame DEF Between, InMemory
<1>9. CASE Edit
  <2>1. edits \in Nat /\ edits' = edits + 1
    BY <1>9, ConstantsAssumption DEF Edit, TypeOK
  <2> QED
    BY <2>1 DEF FilledInv
<1>10. CASE Interrupt
  BY <1>10, FilledInterrupt
<1>11. CASE UNCHANGED vars
  BY <1>11 DEF vars, FilledInv, FileIs, LinesAre, Tokens, RealToken, Between, InMemory
<1> QED
  BY <1>1, <1>2, <1>3, <1>4, <1>5, <1>6, <1>7, <1>8, <1>9, <1>10, <1>11 DEF Next

\* A .env with both secrets is accepted, so setup refuses none that the commands have made.
LEMMA CauseStep ==
  ASSUME TypeOK, ControlInv, FilledInv, SetupFailsForCause, [Next]_vars
  PROVE  SetupFailsForCause'
<1>1. CASE LoadConfig
  <2>0. /\ UNCHANGED <<edits, torn>> /\ edits \in Nat
        /\ Accepts(SetupEnv) => rejected' = rejected
    BY <1>1, ConstantsAssumption DEF LoadConfig, TypeOK
  <2> SUFFICES ASSUME edits = 0, ~torn PROVE Accepts(SetupEnv)
    <3>1. ~(edits = 0) => edits' > 0
      BY <2>0
    <3>2. ~(edits > 0)' => ~(edits > 0)
      BY <2>0
    <3> QED
      BY <2>0, <3>1, <3>2, Zenon DEF SetupFailsForCause
  <2>1. cmd.step = "load" /\ exists
    BY <1>1 DEF LoadConfig, ControlInv
  <2>2. PICK a, b \in Tokens \cup {Empty} : FileIs(a, b)
    BY <2>1 DEF FilledInv
  <2>3. a \in Tokens /\ b \in Tokens /\ file = Filled(a, b)
    BY <2>1, <2>2 DEF FileIs
  <2>4. PICK m \in 1..commands : a = Generated(m)
    BY <2>3 DEF Tokens
  <2>5. PICK n \in 1..commands : b = Generated(n)
    BY <2>3 DEF Tokens
  <2>6. m \in 1..MaxCommands /\ n \in 1..MaxCommands /\ shell \in Shell
    BY ConstantsAssumption DEF TypeOK
  <2>7. Accepts(Over(LastWins(Filled(Generated(m), Generated(n))), shell))
    BY <2>6, CompleteAssumption
  <2> QED
    BY <2>3, <2>4, <2>5, <2>7 DEF SetupEnv
<1>2. CASE ~LoadConfig
  <2>1. (rejected' = rejected \/ rejected' = FALSE) /\ (edits' = edits \/ edits' = edits + 1)
    BY <1>2 DEF Next, StartSetup, StartGen, StartSeed, Start, CopyTemplate, Generate,
                SyncPrometheusToken, WriteEnv, Reset, SeedRun, Serve, Copy, Edit, Interrupt,
                quiet, vars
  <2>3. torn' = torn \/ torn' = TRUE
    BY <1>2 DEF Next, StartSetup, StartGen, StartSeed, Start, CopyTemplate, Generate,
                SyncPrometheusToken, WriteEnv, Reset, SeedRun, Serve, Copy, Edit, Interrupt,
                quiet, vars
  <2>2. edits \in Nat
    BY ConstantsAssumption DEF TypeOK
  <2> QED
    <3>1. edits > 0 => edits' > 0
      BY <2>1, <2>2
    <3> QED
      BY <2>1, <2>3, <3>1, Zenon DEF SetupFailsForCause
<1> QED
  BY <1>1, <1>2

\* The token in prometheus.yml is the one that .env has, unless .env has none.
LEMMA TokenFits ==
  ASSUME TypeOK, ControlInv, FilledInv
  PROVE  ScrapesWork
<1> SUFFICES ASSUME cmd.step # "write", RealToken, edits = 0, ~torn, ~rotated,
                    NonEmpty(FirstWins(file), "METRICS_TOKEN")
             PROVE  prom = Value(FirstWins(file), "METRICS_TOKEN")
  BY DEF ScrapesWork, Render, RealToken
<1>1. exists
  <2>1. CASE ~exists
    <3>1. file = <<>>
      BY <2>1 DEF ControlInv
    <3>2. Names(file) = {}
      BY <3>1 DEF Names
    <3>3. Value(FirstWins(file), "METRICS_TOKEN") = Unset
      BY <3>2 DEF Value, FirstWins
    <3> QED
      BY <3>3 DEF NonEmpty, Unset, Text
  <2> QED
    BY <2>1
<1>2. PICK a, b \in Tokens \cup {Empty} : FileIs(a, b)
  BY <1>1 DEF FilledInv
<1>3. Value(FirstWins(file), "METRICS_TOKEN") = b
  BY <1>2, FilledToken DEF FileIs, TypeOK
<1>4. b # Empty
  BY <1>3 DEF NonEmpty, Empty, Text
<1> QED
  BY <1>2, <1>3, <1>4 DEF FileIs, Between

-----------------------------------------------------------------------------
(* The theorems *)

THEOREM Inductive == Spec => []IInv
<1>1. Init => IInv
  <2> SUFFICES ASSUME Init PROVE IInv
    OBVIOUS
  <2>1. TypeOK
    <3>1. /\ cmd \in [step : Step, op : {"none", "setup", "gen", "seed"},
                      force : BOOLEAN, seed : BOOLEAN]
          /\ file \in Seq(LineType) /\ lines \in Seq(LineType)
      BY DEF Init, Idle, Step
    <3>2. commands \in 0..MaxCommands /\ edits \in 0..MaxEdits
      BY ConstantsAssumption DEF Init
    <3> QED
      BY <3>1, <3>2 DEF Init, TypeOK
  <2>2. ControlInv /\ KeptInv /\ TidyInv
    BY DEF Init, Idle, ControlInv, KeptInv, TidyInv, Tidy, InMemory
  <2>3. ReadyInv /\ FilledInv /\ SetupFailsForCause
    BY DEF Init, ReadyInv, FilledInv, SetupFailsForCause
  <2> QED
    BY <2>1, <2>2, <2>3 DEF IInv
<1>2. IInv /\ [Next]_vars => IInv'
  BY TypeStep, ControlStep, KeptStep, TidyStep, ReadyStep, FilledStep, CauseStep DEF IInv
<1> QED
  BY <1>1, <1>2, PTL DEF Spec
\* Every variable of the model keeps its type: in particular .env is always a sequence of
\* lines, whatever the commands, their interruptions and the operator do to it.
THEOREM TypeCorrect == Spec => []TypeOK
BY Inductive, PTL DEF IInv

\* "Leaves anything already set untouched unless force is given" (secrets.rs): set_env_var
\* changes only the first line of a name, so no run of setup, gen or seed, interrupted or
\* not, changes a value that was promised at its start.
THEOREM ValuesStay == Spec => []SetValuesStay
<1>1. IInv => SetValuesStay
  BY HoldsIsRead DEF IInv, TypeOK, KeptInv, SetValuesStay
<1> QED
  BY <1>1, Inductive, PTL

\* "Ready" (setup.rs) is said of the configuration that the server then loads, although the
\* two read .env differently.
THEOREM ReadyServer == Spec => []ReadyIsWhatServes
<1>1. IInv => ReadyIsWhatServes
  BY ReadyServes DEF IInv
<1> QED
  BY <1>1, Inductive, PTL

\* "Idempotent: safe to run again" (setup.rs): setup rejects no .env that an operator has not
\* edited and no write was cut short of, wherever earlier commands were interrupted.
THEOREM SetupCompletes == Spec => []SetupFailsForCause
BY Inductive, PTL DEF IInv

\* The scrape token that sync_prometheus_token wrote is the one the server expects, also
\* after an interruption between the two files, unless a token in use was being rotated.
THEOREM TokensAgree == Spec => []ScrapesWork
<1>1. IInv => ScrapesWork
  BY TokenFits DEF IInv
<1> QED
  BY <1>1, Inductive, PTL

-----------------------------------------------------------------------------
(* Configurations *)

\* A setting reads the same from an environment and from what is configured by it.
LEMMA LoadedValue ==
  ASSUME NEW env, NEW x
  PROVE  /\ NonEmpty(Loaded(env), x) <=> NonEmpty(env, x)
         /\ NonEmpty(env, x) => Value(Loaded(env), x) = Value(env, x)
<1>1. CASE NonEmpty(env, x)
  <2>1. x \in DOMAIN env
    BY <1>1 DEF NonEmpty, Value, Unset, Text
  <2>2. x \in DOMAIN Loaded(env) /\ Loaded(env)[x] = env[x]
    BY <1>1, <2>1 DEF Loaded
  <2>3. Value(Loaded(env), x) = Value(env, x)
    BY <2>1, <2>2 DEF Value
  <2> QED
    BY <1>1, <2>3 DEF NonEmpty
<1>2. CASE ~NonEmpty(env, x)
  <2>1. x \notin DOMAIN Loaded(env)
    BY <1>2 DEF Loaded
  <2>2. Value(Loaded(env), x) = Unset
    BY <2>1 DEF Value
  <2> QED
    BY <1>2, <2>2 DEF NonEmpty, Unset, Text
<1> QED
  BY <1>1, <1>2

\* non_empty, required and optional (config/mod.rs) treat a blank variable as one that is not
\* set, and every check of from_env goes through them: a configuration is accepted or refused
\* for what it sets, however many blank lines .env.example leaves in it.
THEOREM BlankIsUnset == \A env : Accepts(env) <=> Accepts(Loaded(env))
<1> SUFFICES ASSUME NEW env PROVE Accepts(env) <=> Accepts(Loaded(env))
  OBVIOUS
<1>1. \A x : Required(Loaded(env), x) <=> Required(env, x)
  BY LoadedValue DEF Required
<1>2. \A x, type : Optional(Loaded(env), x, type) <=> Optional(env, x, type)
  BY LoadedValue DEF Optional
<1>3. \A x, default : Setting(Loaded(env), x, default) = Setting(env, x, default)
  BY LoadedValue DEF Setting
<1>4. JwtSecret(Loaded(env)) <=> JwtSecret(env)
  BY <1>1, LoadedValue DEF JwtSecret, Required
<1>5. /\ MaxConcurrentHashes(Loaded(env)) <=> MaxConcurrentHashes(env)
      /\ Smtp(Loaded(env)) <=> Smtp(env)
      /\ Media(Loaded(env)) <=> Media(env)
  <2>1. MaxConcurrentHashes(Loaded(env)) <=> MaxConcurrentHashes(env)
    BY <1>2, <1>3 DEF MaxConcurrentHashes
  <2>2. Smtp(Loaded(env)) <=> Smtp(env)
    BY <1>1, <1>2, <1>3 DEF Smtp
  <2>3. Media(Loaded(env)) <=> Media(env)
    BY <1>2, <1>3 DEF Media
  <2> QED
    BY <2>1, <2>2, <2>3
<1>6. /\ BootstrapAdmin(Loaded(env)) <=> BootstrapAdmin(env)
      /\ OAuth(Loaded(env)) <=> OAuth(env)
  BY LoadedValue DEF BootstrapAdmin, OAuth, Together
<1>7. /\ Storage(Loaded(env)) <=> Storage(env)
      /\ Webauthn(Loaded(env)) <=> Webauthn(env)
      /\ Metrics(Loaded(env)) <=> Metrics(env)
      /\ Account(Loaded(env)) <=> Account(env)
  BY <1>2, LoadedValue DEF Storage, Webauthn, Metrics, Account
<1>8. QrLogin(Loaded(env)) <=> QrLogin(env)
  BY <1>2, <1>3 DEF QrLogin
<1> QED
  BY <1>1, <1>2, <1>4, <1>5, <1>6, <1>7, <1>8, Zenon DEF Accepts

=============================================================================
