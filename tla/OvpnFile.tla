------------------------------- MODULE OvpnFile -------------------------------
(***************************************************************************)
(* config.ParseOVPN: the endpoints of an OpenVPN client file, read line by *)
(* line, against what the file means as a whole.                           *)
(*                                                                         *)
(* A line is the sequence of its fields; a field is a token of which the   *)
(* constants tell what the code asks: its lower case, its value as a       *)
(* decimal number, whether it begins with "tcp".  The endpoints are kept   *)
(* by the number of their line, which is their order in the code's slice.  *)
(***************************************************************************)
EXTENDS Integers, Sequences

CONSTANTS Token,      \* fields of lines
          Lower,      \* strings.ToLower of a first field
          Number,     \* the decimal number a token is; -1 when it is none
          Tcp,        \* tokens whose lower case begins with "tcp"
          Comments,   \* first fields that begin with "#" or ";"
          LongLine,   \* a line beyond the scanner's limit
          Missing,    \* no file
          Files       \* the files read

Line == Seq(Token) \cup {LongLine}

ASSUME TokenAssumption ==
  Lower \in [Token -> Token] /\ Number \in [Token -> Int] /\ Tcp \subseteq Token
ASSUME FilesAssumption ==
  /\ Files \subseteq Seq(Line) \cup {Missing} /\ Missing \notin Seq(Line)
  /\ LongLine \notin Seq(Token)

VARIABLES file,      \* the file's lines
          at,        \* the next line
          defPort,   \* ParseOVPN's locals of these names
          defProto,
          remotes,
          ret        \* "remotes" or "error" once it has returned, "none" before

vars == <<file, at, defPort, defProto, remotes, ret>>

Port == 0 .. 65535
Proto == {"udp", "tcp"}

\* strconv.ParseUint(t, 10, 16) succeeds.
IsPort_AnyWidth(t) == Number[t] >= 0

IsPort(t) == Number[t] \in Port

NormProto(t) == IF t \in Tcp THEN "tcp" ELSE "udp"

\* What the switch sees of a line: "" for one that is skipped or unknown.
Directive(l) ==
  IF l = LongLine \/ l = <<>> THEN ""
  ELSE IF l[1] \in Comments \/ Lower[l[1]] \notin {"port", "proto", "remote"} THEN ""
  ELSE IF Len(l) < 2 THEN "" ELSE Lower[l[1]]

\* The endpoint of a remote line; 0 and "" where it does not say.
RemoteSpec(l) ==
  [host |-> l[2],
   port |-> IF Len(l) >= 3 /\ IsPort(l[3]) THEN Number[l[3]] ELSE 0,
   proto |-> IF Len(l) >= 4 THEN NormProto(l[4]) ELSE ""]

Filled(r, port, proto) ==
  [host |-> r.host,
   port |-> IF r.port = 0 THEN port ELSE r.port,
   proto |-> IF r.proto = "" THEN proto ELSE r.proto]

Init ==
  /\ file \in Files /\ at = 1
  /\ defPort = 1194 /\ defProto = "udp"
  /\ remotes = <<>> /\ ret = "none"

Scanning == ret = "none" /\ file # Missing /\ at <= Len(file) /\ file[at] # LongLine

OpenFails ==
  /\ ret = "none" /\ file = Missing
  /\ ret' = "error"
  /\ UNCHANGED <<file, at, defPort, defProto, remotes>>

PortLine ==
  /\ Scanning /\ Directive(file[at]) = "port"
  /\ defPort' = IF IsPort(file[at][2]) THEN Number[file[at][2]] ELSE defPort
  /\ at' = at + 1
  /\ UNCHANGED <<file, defProto, remotes, ret>>

ProtoLine ==
  /\ Scanning /\ Directive(file[at]) = "proto"
  /\ defProto' = NormProto(file[at][2])
  /\ at' = at + 1
  /\ UNCHANGED <<file, defPort, remotes, ret>>

RemoteLine_FillsAtOnce ==
  /\ Scanning /\ Directive(file[at]) = "remote"
  /\ remotes' = [i \in DOMAIN remotes \cup {at} |->
                   IF i = at THEN Filled(RemoteSpec(file[at]), defPort, defProto)
                   ELSE remotes[i]]
  /\ at' = at + 1
  /\ UNCHANGED <<file, defPort, defProto, ret>>

RemoteLine ==
  /\ Scanning /\ Directive(file[at]) = "remote"
  /\ remotes' = [i \in DOMAIN remotes \cup {at} |->
                   IF i = at THEN RemoteSpec(file[at]) ELSE remotes[i]]
  /\ at' = at + 1
  /\ UNCHANGED <<file, defPort, defProto, ret>>

\* Empty lines, comments, other directives, directives without an argument.
OtherLine ==
  /\ Scanning /\ Directive(file[at]) = ""
  /\ at' = at + 1
  /\ UNCHANGED <<file, defPort, defProto, remotes, ret>>

ScanFails ==
  /\ ret = "none" /\ file # Missing /\ at <= Len(file) /\ file[at] = LongLine
  /\ ret' = "error"
  /\ UNCHANGED <<file, at, defPort, defProto, remotes>>

\* The loop that fills in the defaults, and the return.
Return ==
  /\ ret = "none" /\ file # Missing /\ at > Len(file)
  /\ remotes' = [i \in DOMAIN remotes |-> Filled(remotes[i], defPort, defProto)]
  /\ ret' = IF DOMAIN remotes = {} THEN "error" ELSE "remotes"
  /\ UNCHANGED <<file, at, defPort, defProto>>

Next ==
  \/ OpenFails \/ PortLine \/ ProtoLine \/ RemoteLine \/ OtherLine
  \/ ScanFails \/ Return

Spec == Init /\ [][Next]_vars

-----------------------------------------------------------------------------
(***************************************************************************)
(* What a file means: a remote has the port and protocol of its own line,  *)
(* otherwise those of the last valid port line and the last proto line     *)
(* anywhere in the file, otherwise OpenVPN's defaults.                     *)
(***************************************************************************)
Gives(l, d) ==
  l # LongLine /\ Len(l) >= 2 /\ l[1] \notin Comments /\ Lower[l[1]] = d

LinesOf(f, d) == {i \in DOMAIN f : Gives(f[i], d)}
PortLines(f) == {i \in LinesOf(f, "port") : Number[f[i][2]] \in Port}

LastOf(S) == CHOOSE i \in S : \A j \in S : j <= i
Named(t) == IF t \in Tcp THEN "tcp" ELSE "udp"

\* The port and the protocol that the lines of f before n set.
PortBefore(f, n) ==
  LET S == {i \in PortLines(f) : i < n}
  IN  IF S = {} THEN 1194 ELSE Number[f[LastOf(S)][2]]

ProtoBefore(f, n) ==
  LET S == {i \in LinesOf(f, "proto") : i < n}
  IN  IF S = {} THEN "udp" ELSE Named(f[LastOf(S)][2])

\* The endpoint of a remote line, with what holds where it does not say.
Endpoint(l, port, proto) ==
  [host |-> l[2],
   port |-> IF Len(l) >= 3 /\ Number[l[3]] \in Port \ {0} THEN Number[l[3]] ELSE port,
   proto |-> IF Len(l) >= 4 THEN Named(l[4]) ELSE proto]

Meaning(f) ==
  [i \in LinesOf(f, "remote") |->
     Endpoint(f[i], PortBefore(f, Len(f) + 1), ProtoBefore(f, Len(f) + 1))]

Readable(f) == f # Missing /\ \A i \in DOMAIN f : f[i] # LongLine

\* Every variable has its type: no port beyond 16 bits gets through.
TypeOK ==
  /\ file \in Files /\ at \in Nat \ {0}
  /\ defPort \in Port /\ defProto \in Proto /\ ret \in {"none", "error", "remotes"}
  /\ \A i \in DOMAIN remotes :
       remotes[i] \in [host : Token, port : Port, proto : Proto \cup {""}]

(***************************************************************************)
(* ParseOVPN returns what the file means ("Handles: remote <host> [port]   *)
(* [proto], global port, global proto"): a port or proto line applies to   *)
(* the remotes before it too, a number beyond 16 bits counts as not given, *)
(* as does 0 on a remote line, and there is an error exactly where the     *)
(* file cannot be read to its end or names no remote.                      *)
(***************************************************************************)
ReturnsWhatTheFileMeans ==
  /\ ret = "error" =>
       ~Readable(file) \/ LinesOf(file, "remote") = {}
  /\ ret = "remotes" =>
       /\ Readable(file) /\ LinesOf(file, "remote") # {}
       /\ remotes = Meaning(file)
=============================================================================
