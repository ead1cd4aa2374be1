------------------------------ MODULE OvpnProofs ------------------------------
(***************************************************************************)
(* ParseOVPN returns what the file means, for every file.  The inductive   *)
(* invariant is a loop invariant: before the n-th line, the locals hold    *)
(* what the lines before it say.                                           *)
(***************************************************************************)
EXTENDS OvpnFile, TLAPS

Before(S, n) == {i \in S : i < n}

Loop ==
  /\ at \in 1 .. Len(file) + 1
  /\ \A i \in 1 .. at - 1 : file[i] # LongLine
  /\ defPort = PortBefore(file, at)
  /\ defProto = ProtoBefore(file, at)
  /\ remotes = [i \in Before(LinesOf(file, "remote"), at) |-> RemoteSpec(file[i])]

IInv ==
  /\ TypeOK
  /\ ret = "none" /\ file # Missing => Loop
  /\ ReturnsWhatTheFileMeans

-----------------------------------------------------------------------------
\* The line is a directive that is read, with an argument.
IsRead(l) == Directive(l) # ""

\* The parser's switch sees the directives that a line gives.
LEMMA SwitchSees ==
  ASSUME NEW l \in Line, NEW d \in {"port", "proto", "remote"}
  PROVE  Gives(l, d) <=> Directive(l) = d
<1>1. CASE l = LongLine
  BY <1>1 DEF Gives, Directive
<1>2. CASE l # LongLine /\ l = <<>>
  <2>1. ~(Len(l) >= 2)
    BY <1>2
  <2>2. Directive(l) = ""
    BY <1>2 DEF Directive
  <2> QED
    BY <2>1, <2>2 DEF Gives
<1>3. CASE l # LongLine /\ l # <<>>
  <2>1. Len(l) < 2 <=> ~(Len(l) >= 2)
    <3>1. l \in Seq(Token)
      BY <1>3 DEF Line
    <3>2. Len(l) \in Nat
      BY <3>1
    <3> QED
      BY <3>2
  <2>2. Directive(l) =
          IF l[1] \in Comments \/ Lower[l[1]] \notin {"port", "proto", "remote"}
          THEN "" ELSE IF ~(Len(l) >= 2) THEN "" ELSE Lower[l[1]]
    BY <1>3, <2>1, Zenon DEF Directive
  <2>3. Gives(l, d) <=> Len(l) >= 2 /\ l[1] \notin Comments /\ Lower[l[1]] = d
    BY <1>3 DEF Gives
  <2> HIDE DEF Gives, Directive
  <2> QED
    BY <2>2, <2>3
<1> QED
  BY <1>1, <1>2, <1>3

\* Reading a remote line and filling it in later yields its endpoint.
LEMMA FilledLater ==
  ASSUME NEW l \in Line, NEW p \in Port, NEW q \in Proto
  PROVE  Filled(RemoteSpec(l), p, q) = Endpoint(l, p, q)
<1> DEFINE a == IF Len(l) >= 3 /\ IsPort(l[3]) THEN Number[l[3]] ELSE 0
           b == IF Len(l) >= 4 THEN NormProto(l[4]) ELSE ""
           c == IF Len(l) >= 3 /\ Number[l[3]] \in Port \ {0} THEN Number[l[3]] ELSE p
           e == IF Len(l) >= 4 THEN Named(l[4]) ELSE q
<1>1. (IF a = 0 THEN p ELSE a) = c
  BY DEF IsPort
<1>2. (IF b = "" THEN q ELSE b) = e
  BY DEF NormProto, Named
<1>3. RemoteSpec(l) = [host |-> l[2], port |-> a, proto |-> b]
  BY DEF RemoteSpec
<1>4. Endpoint(l, p, q) = [host |-> l[2], port |-> c, proto |-> e]
  BY DEF Endpoint
<1> HIDE DEF a, b, c, e
<1>5. Filled([host |-> l[2], port |-> a, proto |-> b], p, q)
        = [host |-> l[2], port |-> c, proto |-> e]
  BY <1>1, <1>2 DEF Filled
<1> QED
  BY <1>3, <1>4, <1>5

\* The last element of a set of line numbers is its greatest one.
LEMMA LastIsGreatest ==
  ASSUME NEW S \in SUBSET Int, NEW m \in S, \A j \in S : j <= m
  PROVE  LastOf(S) = m
<1>1. \E i \in S : \A j \in S : j <= i
  OBVIOUS
<1>2. LastOf(S) \in S /\ \A j \in S : j <= LastOf(S)
  BY <1>1 DEF LastOf
<1>3. LastOf(S) <= m /\ m <= LastOf(S)
  BY <1>2
<1>4. LastOf(S) \in Int /\ m \in Int
  BY <1>2
<1> QED
  BY <1>3, <1>4

\* A file that is there is a sequence of lines.
LEMMA FileIsLines ==
  ASSUME NEW f \in Files, f # Missing
  PROVE  f \in Seq(Line)
BY FilesAssumption

\* The first field of a directive is one, and its second is there.
LEMMA DirectiveHasArgument ==
  ASSUME NEW l \in Line, IsRead(l)
  PROVE  l \in Seq(Token) /\ Len(l) >= 2 /\ l[1] \in Token /\ l[2] \in Token
<1>1. l # LongLine /\ l # <<>> /\ ~(Len(l) < 2)
  BY DEF Directive, IsRead
<1>2. l \in Seq(Token)
  BY <1>1 DEF Line
<1>3. Len(l) \in Nat
  BY <1>2
<1>4. Len(l) >= 2
  BY <1>1, <1>3
<1>5. 1 \in 1 .. Len(l) /\ 2 \in 1 .. Len(l)
  BY <1>3, <1>4
<1>6. l[1] \in Token /\ l[2] \in Token
  BY <1>2, <1>5
<1> QED
  BY <1>2, <1>4, <1>6

\* The endpoint of a remote line has its type: its port is one.
LEMMA RemoteSpecTyped ==
  ASSUME NEW l \in Line, IsRead(l)
  PROVE  RemoteSpec(l) \in [host : Token, port : Port, proto : Proto \cup {""}]
<1>1. l \in Seq(Token) /\ Len(l) >= 2 /\ l[2] \in Token
  BY DirectiveHasArgument
<1>2. (IF Len(l) >= 3 /\ IsPort(l[3]) THEN Number[l[3]] ELSE 0) \in Port
  <2>1. 0 \in Port
    BY DEF Port
  <2> QED
    BY <2>1 DEF IsPort
<1>3. (IF Len(l) >= 4 THEN NormProto(l[4]) ELSE "") \in Proto \cup {""}
  BY DEF NormProto, Proto
<1> QED
  BY <1>1, <1>2, <1>3 DEF RemoteSpec

\* Filling in keeps the type.
LEMMA FilledTyped ==
  ASSUME NEW r \in [host : Token, port : Port, proto : Proto \cup {""}],
         NEW p \in Port, NEW q \in Proto
  PROVE  Filled(r, p, q) \in [host : Token, port : Port, proto : Proto \cup {""}]
BY DEF Filled

\* The lines of a directive up to the n-th: the n-th is added when it is one.
LEMMA OneMoreLine ==
  ASSUME NEW f \in Seq(Line), NEW n \in 1 .. Len(f), NEW S \in SUBSET DOMAIN f
  PROVE  /\ n \in S => Before(S, n + 1) = Before(S, n) \cup {n}
         /\ n \notin S => Before(S, n + 1) = Before(S, n)
<1>1. S \subseteq Int
  OBVIOUS
<1>2. \A i \in S : i < n + 1 <=> i < n \/ i = n
  BY <1>1
<1> QED
  BY <1>2 DEF Before

\* The port after the n-th line.
LEMMA PortStep ==
  ASSUME NEW f \in Seq(Line), NEW n \in 1 .. Len(f)
  PROVE  PortBefore(f, n + 1) =
           IF Directive(f[n]) = "port" /\ IsPort(f[n][2]) THEN Number[f[n][2]]
           ELSE PortBefore(f, n)
<1> DEFINE S == PortLines(f)
<1>1. S \in SUBSET DOMAIN f /\ n \in DOMAIN f
  BY DEF PortLines, LinesOf
<1>2. n \in S <=> Directive(f[n]) = "port" /\ IsPort(f[n][2])
  BY <1>1, SwitchSees DEF PortLines, LinesOf, IsPort
<1>3. CASE n \in S
  <2>1. Before(S, n + 1) = Before(S, n) \cup {n}
    BY <1>1, <1>3, OneMoreLine
  <2>2. LastOf(Before(S, n + 1)) = n
    <3>1. Before(S, n + 1) \in SUBSET Int /\ n \in Before(S, n + 1)
      BY <1>1, <2>1 DEF Before
    <3>2. \A j \in Before(S, n + 1) : j <= n
      BY <1>1, <2>1 DEF Before
    <3> QED
      BY <3>1, <3>2, LastIsGreatest
  <2> QED
    BY <1>2, <1>3, <2>1, <2>2 DEF PortBefore, Before
<1>4. CASE n \notin S
  <2>1. Before(S, n + 1) = Before(S, n)
    BY <1>1, <1>4, OneMoreLine
  <2>2. PortBefore(f, n + 1) = PortBefore(f, n)
    <3>1. {i \in PortLines(f) : i < n + 1} = {i \in PortLines(f) : i < n}
      BY <2>1 DEF Before
    <3> DEFINE P(T) == IF T = {} THEN 1194 ELSE Number[f[LastOf(T)][2]]
    <3>2. /\ PortBefore(f, n + 1) = P({i \in PortLines(f) : i < n + 1})
          /\ PortBefore(f, n) = P({i \in PortLines(f) : i < n})
      BY DEF PortBefore
    <3> HIDE DEF P
    <3> QED
      BY <3>1, <3>2
  <2>3. ~(Directive(f[n]) = "port" /\ IsPort(f[n][2]))
    BY <1>2, <1>4
  <2> QED
    BY <2>2, <2>3
<1> QED
  BY <1>3, <1>4

\* The protocol after the n-th line.
LEMMA ProtoStep ==
  ASSUME NEW f \in Seq(Line), NEW n \in 1 .. Len(f)
  PROVE  ProtoBefore(f, n + 1) =
           IF Directive(f[n]) = "proto" THEN NormProto(f[n][2])
           ELSE ProtoBefore(f, n)
<1> DEFINE S == LinesOf(f, "proto")
<1>1. S \in SUBSET DOMAIN f /\ n \in DOMAIN f
  BY DEF LinesOf
<1>2. n \in S <=> Directive(f[n]) = "proto"
  BY <1>1, SwitchSees DEF LinesOf
<1>3. CASE n \in S
  <2>1. Before(S, n + 1) = Before(S, n) \cup {n}
    BY <1>1, <1>3, OneMoreLine
  <2>2. LastOf(Before(S, n + 1)) = n
    <3>1. Before(S, n + 1) \in SUBSET Int /\ n \in Before(S, n + 1)
      BY <1>1, <2>1 DEF Before
    <3>2. \A j \in Before(S, n + 1) : j <= n
      BY <1>1, <2>1 DEF Before
    <3> QED
      BY <3>1, <3>2, LastIsGreatest
  <2> QED
    BY <1>2, <1>3, <2>1, <2>2 DEF ProtoBefore, Before, Named, NormProto
<1>4. CASE n \notin S
  <2>1. Before(S, n + 1) = Before(S, n)
    BY <1>1, <1>4, OneMoreLine
  <2> QED
    BY <1>2, <1>4, <2>1 DEF ProtoBefore, Before
<1> QED
  BY <1>3, <1>4

\* The remotes after the n-th line.
LEMMA RemotesStep ==
  ASSUME NEW f \in Seq(Line), NEW n \in 1 .. Len(f)
  PROVE  Before(LinesOf(f, "remote"), n + 1) =
           Before(LinesOf(f, "remote"), n)
             \cup (IF Directive(f[n]) = "remote" THEN {n} ELSE {})
<1>1. LinesOf(f, "remote") \in SUBSET DOMAIN f /\ n \in DOMAIN f
  BY DEF LinesOf
<1>2. n \in LinesOf(f, "remote") <=> Directive(f[n]) = "remote"
  BY <1>1, SwitchSees DEF LinesOf
<1> QED
  BY <1>1, <1>2, OneMoreLine

-----------------------------------------------------------------------------
LEMMA InitInv == Init => IInv
<1> SUFFICES ASSUME Init PROVE IInv
  OBVIOUS
<1>1. TypeOK
  BY DEF Init, TypeOK, Port, Proto
<1>2. ASSUME file # Missing PROVE Loop
  <2>1. file \in Seq(Line) /\ Len(file) \in Nat
    BY <1>2, FileIsLines DEF Init
  <2>2. \A S \in SUBSET DOMAIN file : Before(S, 1) = {}
    BY <2>1 DEF Before
  <2>3. LinesOf(file, "remote") \in SUBSET DOMAIN file
        /\ LinesOf(file, "proto") \in SUBSET DOMAIN file
        /\ PortLines(file) \in SUBSET DOMAIN file
    BY DEF LinesOf, PortLines
  <2>4. PortBefore(file, 1) = 1194 /\ ProtoBefore(file, 1) = "udp"
    BY <2>2, <2>3 DEF PortBefore, ProtoBefore, Before
  <2>5. Before(LinesOf(file, "remote"), 1) = {}
    BY <2>2, <2>3
  <2>6. remotes = [i \in Before(LinesOf(file, "remote"), at) |-> RemoteSpec(file[i])]
    BY <2>5 DEF Init
  <2> QED
    BY <2>1, <2>4, <2>6 DEF Loop, Init
<1> QED
  BY <1>1, <1>2 DEF IInv, Init, ReturnsWhatTheFileMeans

\* A step that reads a line.
LEMMA LineRead ==
  ASSUME IInv, Scanning, PortLine \/ ProtoLine \/ RemoteLine \/ OtherLine
  PROVE  IInv'
<1>1. file \in Seq(Line) /\ at \in 1 .. Len(file) /\ Len(file) \in Nat
      /\ file' = file /\ at' = at + 1 /\ ret' = "none" /\ ret = "none"
      /\ file # Missing /\ file[at] # LongLine /\ Loop
  <2>1. ret = "none" /\ file # Missing /\ at <= Len(file) /\ file[at] # LongLine
    BY DEF Scanning
  <2>2. Loop /\ file \in Files /\ at \in Nat \ {0}
    BY <2>1 DEF IInv, TypeOK
  <2>3. file \in Seq(Line)
    BY <2>1, <2>2, FileIsLines
  <2>4. Len(file) \in Nat
    BY <2>3
  <2>5. at \in 1 .. Len(file)
    BY <2>1, <2>2, <2>4
  <2>6. file' = file /\ at' = at + 1 /\ ret' = ret
    BY DEF PortLine, ProtoLine, RemoteLine, OtherLine
  <2> QED
    BY <2>1, <2>2, <2>3, <2>4, <2>5, <2>6
<1>2. file[at] \in Line
  BY <1>1
<1>3. defPort' = PortBefore(file, at + 1)
  <2>1. defPort = PortBefore(file, at)
    BY <1>1 DEF Loop
  <2>2. PortBefore(file, at + 1) =
          IF Directive(file[at]) = "port" /\ IsPort(file[at][2]) THEN Number[file[at][2]]
          ELSE PortBefore(file, at)
    BY <1>1, PortStep
  <2>3. CASE PortLine
    BY <2>1, <2>2, <2>3 DEF PortLine
  <2>4. CASE ProtoLine \/ RemoteLine \/ OtherLine
    <3>1. Directive(file[at]) # "port" /\ defPort' = defPort
      BY <2>4 DEF ProtoLine, RemoteLine, OtherLine
    <3> QED
      BY <2>1, <2>2, <3>1
  <2> QED
    BY <2>3, <2>4
<1>4. defProto' = ProtoBefore(file, at + 1)
  <2>1. defProto = ProtoBefore(file, at)
    BY <1>1 DEF Loop
  <2>2. ProtoBefore(file, at + 1) =
          IF Directive(file[at]) = "proto" THEN NormProto(file[at][2])
          ELSE ProtoBefore(file, at)
    BY <1>1, ProtoStep
  <2>3. CASE ProtoLine
    BY <2>1, <2>2, <2>3 DEF ProtoLine
  <2>4. CASE PortLine \/ RemoteLine \/ OtherLine
    <3>1. Directive(file[at]) # "proto" /\ defProto' = defProto
      BY <2>4 DEF PortLine, RemoteLine, OtherLine
    <3> QED
      BY <2>1, <2>2, <3>1
  <2> QED
    BY <2>3, <2>4
<1>5. remotes' = [i \in Before(LinesOf(file, "remote"), at + 1) |-> RemoteSpec(file[i])]
  <2> DEFINE B == Before(LinesOf(file, "remote"), at)
  <2>1. remotes = [i \in B |-> RemoteSpec(file[i])]
    BY <1>1 DEF Loop
  <2>2. Before(LinesOf(file, "remote"), at + 1) =
          B \cup (IF Directive(file[at]) = "remote" THEN {at} ELSE {})
    BY <1>1, RemotesStep
  <2>3. CASE RemoteLine
    <3>1. Directive(file[at]) = "remote"
      BY <2>3 DEF RemoteLine
    <3>2. remotes' = [i \in B \cup {at} |->
                        IF i = at THEN RemoteSpec(file[at]) ELSE remotes[i]]
      BY <2>1, <2>3 DEF RemoteLine
    <3>3. \A i \in B \cup {at} :
            (IF i = at THEN RemoteSpec(file[at]) ELSE remotes[i]) = RemoteSpec(file[i])
      BY <2>1
    <3> QED
      BY <2>2, <3>1, <3>2, <3>3
  <2>4. CASE PortLine \/ ProtoLine \/ OtherLine
    <3>1. Directive(file[at]) # "remote" /\ remotes' = remotes
      BY <2>4 DEF PortLine, ProtoLine, OtherLine
    <3> QED
      BY <2>1, <2>2, <3>1
  <2> QED
    BY <2>3, <2>4
<1>6. \A i \in 1 .. at' - 1 : file'[i] # LongLine
  <2>1. \A i \in 1 .. at - 1 : file[i] # LongLine
    BY <1>1 DEF Loop
  <2>2. \A i \in 1 .. at' - 1 : i \in 1 .. at - 1 \/ i = at
    BY <1>1
  <2> QED
    BY <1>1, <2>1, <2>2
<1>7. Loop'
  BY <1>1, <1>3, <1>4, <1>5, <1>6 DEF Loop
<1>8. TypeOK'
  <2>1. defPort' \in Port
    BY DEF IInv, TypeOK, PortLine, ProtoLine, RemoteLine, OtherLine, IsPort
  <2>2. defProto' \in Proto
    BY DEF IInv, TypeOK, PortLine, ProtoLine, RemoteLine, OtherLine, NormProto, Proto
  <2>3. \A i \in DOMAIN remotes' :
          remotes'[i] \in [host : Token, port : Port, proto : Proto \cup {""}]
    <3>1. \A i \in Before(LinesOf(file, "remote"), at + 1) :
            file[i] \in Line /\ IsRead(file[i])
      <4>1. \A i \in LinesOf(file, "remote") : file[i] \in Line /\ Gives(file[i], "remote")
        BY <1>1 DEF LinesOf
      <4>2. \A i \in LinesOf(file, "remote") : Directive(file[i]) = "remote"
        BY <4>1, SwitchSees
      <4> QED
        BY <4>1, <4>2 DEF Before, IsRead
    <3> QED
      BY <1>5, <3>1, RemoteSpecTyped
  <2>4. file' \in Files /\ at' \in Nat \ {0} /\ ret' \in {"none", "error", "remotes"}
    <3>1. file \in Files
      BY DEF IInv, TypeOK
    <3>2. at + 1 \in Nat \ {0}
      BY <1>1
    <3> QED
      BY <1>1, <3>1, <3>2
  <2> QED
    BY <2>1, <2>2, <2>3, <2>4 DEF TypeOK
<1>9. ReturnsWhatTheFileMeans'
  BY <1>1 DEF ReturnsWhatTheFileMeans
<1> QED
  BY <1>1, <1>7, <1>8, <1>9 DEF IInv

\* The return: all lines are read, the defaults are filled in.
LEMMA Returned ==
  ASSUME IInv, Return
  PROVE  IInv'
<1>1. file \in Seq(Line) /\ Len(file) \in Nat /\ at = Len(file) + 1 /\ Loop
      /\ file' = file /\ file # Missing
  <2>1. ret = "none" /\ file # Missing /\ at > Len(file) /\ file' = file
    BY DEF Return
  <2>2. Loop /\ file \in Files
    BY <2>1 DEF IInv, TypeOK
  <2>3. file \in Seq(Line)
    BY <2>1, <2>2, FileIsLines
  <2>4. Len(file) \in Nat /\ at \in 1 .. Len(file) + 1
    BY <2>2, <2>3 DEF Loop
  <2> QED
    BY <2>1, <2>2, <2>3, <2>4
<1> DEFINE R == LinesOf(file, "remote")
<1>2. Before(R, at) = R
  BY <1>1 DEF Before, LinesOf
<1>3. remotes = [i \in R |-> RemoteSpec(file[i])]
  BY <1>1, <1>2 DEF Loop
<1>4. remotes' = Meaning(file)
  <2>1. remotes' = [i \in R |-> Filled(remotes[i], defPort, defProto)]
    BY <1>3 DEF Return
  <2>2. defPort = PortBefore(file, Len(file) + 1)
        /\ defProto = ProtoBefore(file, Len(file) + 1)
    BY <1>1 DEF Loop
  <2>3. \A i \in R : /\ remotes[i] = RemoteSpec(file[i])
                    /\ file[i] \in Line /\ Gives(file[i], "remote")
    BY <1>1, <1>3 DEF LinesOf
  <2>4. \A i \in R : Filled(remotes[i], defPort, defProto)
                     = Endpoint(file[i], defPort, defProto)
    BY <2>3, FilledLater DEF IInv, TypeOK
  <2> QED
    BY <2>1, <2>2, <2>4 DEF Meaning
<1>5. Readable(file)
  BY <1>1 DEF Loop, Readable
<1>6. ReturnsWhatTheFileMeans'
  <2>1. DOMAIN remotes = R
    BY <1>3
  <2> QED
    BY <1>1, <1>4, <1>5, <2>1 DEF Return, ReturnsWhatTheFileMeans
<1>7. TypeOK'
  <2>1. \A i \in DOMAIN remotes' :
          remotes'[i] \in [host : Token, port : Port, proto : Proto \cup {""}]
    BY FilledTyped DEF Return, IInv, TypeOK
  <2> QED
    BY <2>1 DEF Return, IInv, TypeOK
<1>8. ret' # "none"
  BY DEF Return
<1> QED
  BY <1>6, <1>7, <1>8 DEF IInv

LEMMA NextInv == IInv /\ [Next]_vars => IInv'
<1> SUFFICES ASSUME IInv, [Next]_vars PROVE IInv'
  OBVIOUS
<1>1. CASE PortLine \/ ProtoLine \/ RemoteLine \/ OtherLine
  <2>1. Scanning
    BY <1>1 DEF PortLine, ProtoLine, RemoteLine, OtherLine
  <2> QED
    BY <1>1, <2>1, LineRead
<1>2. CASE Return
  BY <1>2, Returned
<1>3. CASE OpenFails
  BY <1>3 DEF OpenFails, IInv, TypeOK, ReturnsWhatTheFileMeans, Readable
<1>4. CASE ScanFails
  <2>1. ~Readable(file)
    <3>0. Loop /\ file \in Seq(Line) /\ at <= Len(file)
      BY <1>4, FileIsLines DEF ScanFails, IInv, TypeOK
    <3>1. file \in Seq(Line) /\ at \in 1 .. Len(file)
      BY <3>0 DEF Loop
    <3> QED
      BY <1>4, <3>1 DEF ScanFails, Readable
  <2> QED
    BY <1>4, <2>1 DEF ScanFails, IInv, TypeOK, ReturnsWhatTheFileMeans, Readable
<1>5. CASE UNCHANGED vars
  BY <1>5 DEF vars, IInv, TypeOK, Loop, ReturnsWhatTheFileMeans, Readable
<1> QED
  BY <1>1, <1>2, <1>3, <1>4, <1>5 DEF Next

\* Every port ParseOVPN returns or keeps fits 16 bits, whatever the file.
THEOREM TypeCorrect == Spec => []TypeOK
<1>1. IInv => TypeOK
  BY DEF IInv
<1> QED
  BY <1>1, InitInv, NextInv, PTL DEF Spec

(***************************************************************************)
(* For every file, of any length, ParseOVPN returns the endpoints the file *)
(* means as a whole, or an error exactly where it has none to return.      *)
(***************************************************************************)
THEOREM Correct == Spec => []ReturnsWhatTheFileMeans
<1>1. IInv => ReturnsWhatTheFileMeans
  BY DEF IInv
<1> QED
  BY <1>1, InitInv, NextInv, PTL DEF Spec
=============================================================================
