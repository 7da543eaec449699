-------------------------- MODULE PortSetupProofs --------------------------
(***************************************************************************)
(* Proofs about the start-up: for any number of runs of the script and any *)
(* programs started by hand, parser and tester of a run are on the two     *)
(* ends of one line, on a line of their own if socat is quick, and of what *)
(* a program has set at a port another undoes one flag, in one way.        *)
(***************************************************************************)
EXTENDS PortSetup, TLAPS

-----------------------------------------------------------------------------
(* The call tables.                                                        *)

LEMMA ProcessFacts ==
  ASSUME NEW p \in Process
  PROVE  /\ p.program \in Program
         /\ p.session = 0 \/ p.session \in Sessions
         /\ p.program = "imu_reader" => p.session = 0
  BY SetupAssumption DEF Process, Program, Sessions

(* Every program opens its port before it asks for its settings, and asks  *)
(* before it writes them back.                                             *)
LEMMA CallOrder ==
  ASSUME NEW g \in Program, NEW k \in DOMAIN Calls[g]
  PROVE  /\ k \in 1..4
         /\ Calls[g][k] \in {"tcgetattr", "tcsetattr"} => \E i \in 1 .. k - 1 : Calls[g][i] = "open"
         /\ Calls[g][k] = "tcsetattr" =>
              /\ g \in {"imu_reader", "LoopTester"}
              /\ \E i \in 1 .. k - 1 : Calls[g][i] = "tcgetattr"
<1>1. CASE g = "imu_parser"
  BY <1>1 DEF Calls
<1>2. CASE g = "imu_reader"
  BY <1>2 DEF Calls
<1>3. CASE g = "mock_imu"
  BY <1>3 DEF Calls
<1>4. CASE g = "LoopTester"
  BY <1>4 DEF Calls
<1> QED
  BY <1>1, <1>2, <1>3, <1>4 DEF Program

(* Who is in the loop has made all of its calls.                           *)
LEMMA LoopFacts ==
  ASSUME NEW p \in Process, InLoop(p)
  PROVE  /\ Past(p, "open")
         /\ p.program \in {"imu_reader", "LoopTester"} => Past(p, "tcsetattr")
<1> DEFINE g == p.program
<1>1. /\ \E i \in 1 .. Len(Calls[g]) : Calls[g][i] = "open"
      /\ g \in {"imu_reader", "LoopTester"} =>
           \E i \in 1 .. Len(Calls[g]) : Calls[g][i] = "tcsetattr"
      /\ Len(Calls[g]) \in 2..4
  <2> HIDE DEF g
  <2>1. CASE g = "imu_parser"
    BY <2>1 DEF Calls
  <2>2. CASE g = "imu_reader"
    BY <2>2 DEF Calls
  <2>3. CASE g = "mock_imu"
    BY <2>3 DEF Calls
  <2>4. CASE g = "LoopTester"
    BY <2>4 DEF Calls
  <2>5. g \in Program
    BY ProcessFacts DEF g
  <2> QED
    BY <2>1, <2>2, <2>3, <2>4, <2>5 DEF Program
<1>2. at[p] - 1 = Len(Calls[g])
  BY <1>1 DEF InLoop
<1> QED
  BY <1>1, <1>2 DEF Past

LEMMA PastReturns ==
  ASSUME TypeOK, NEW p \in Process, NEW call, Returns(p, call), NEW q \in Process, NEW c
  PROVE  Past(q, c)' <=> Past(q, c) \/ (q = p /\ c = call)
<1>1. at \in [Process -> 0..5] /\ at' = [at EXCEPT ![p] = @ + 1]
  BY DEF TypeOK, Returns
<1>2. CASE q # p
  BY <1>1, <1>2 DEF Past
<1>3. CASE q = p
  <2>1. at[p] \in 1..4 /\ Calls[p.program][at[p]] = call
    BY CallOrder, ProcessFacts DEF Returns, Running
  <2>2. at'[p] - 1 = at[p]
    BY <1>1, <2>1
  <2>3. \A i : i \in 1..at[p] <=> i \in 1 .. at[p] - 1 \/ i = at[p]
    BY <2>1
  <2> QED
    BY <1>3, <2>1, <2>2, <2>3 DEF Past
<1> QED
  BY <1>2, <1>3
-----------------------------------------------------------------------------
LEMMA SetupInit == Init => SetupInv
<1> SUFFICES ASSUME Init PROVE SetupInv
  OBVIOUS
<1>1. TypeOK
  <2>1. settings \in [Port -> Settings]
    BY DEF Init, AtFirst, Settings, Cooked
  <2>2. config \in [Process -> Settings]
    BY DEF Init, Settings
  <2>3. at \in [Process -> 0..5]
    BY DEF Init
  <2> QED
    BY <2>1, <2>2, <2>3 DEF Init, TypeOK
<1>2. LogInv
  BY DEF Init, LogInv
<1>3. NamesInv
  BY DEF Init, NamesInv
<1>4. PortsInv
  BY DEF Init, PortsInv, PortMade, Past
<1> QED
  BY <1>1, <1>2, <1>3, <1>4 DEF SetupInv

(* imu_reader is never started by the script: it is on the default device. *)
LEMMA ReadersFile ==
  ASSUME NEW r \in Process, r.program = "imu_reader"
  PROVE  File(r) = UART_PORT_FILE /\ (File(r) = UART_PORT_FILE)'
<1>1. r.session = 0
  BY ProcessFacts
<1> QED
  BY <1>1 DEF File

(* The steps of the script leave processes and settings alone; a name they *)
(* change is that of a session none of whose processes has begun.          *)
LEMMA ScriptPorts ==
  ASSUME TypeOK, PortsInv, UNCHANGED <<hand, settings, at, config>>,
         \A p \in Process : HasStarted(p) => HasStarted(p)' /\ File(p)' = File(p)
  PROVE  PortsInv'
<1>1. \A p \in Process : \A call : Past(p, call)' <=> Past(p, call)
  BY DEF Past
<1>2. \A p \in Process : \A call : Past(p, call) => HasStarted(p)
  <2>1. ASSUME NEW p \in Process, NEW call, Past(p, call) PROVE at[p] > 1
    BY <2>1 DEF Past, TypeOK
  <2> QED
    BY <2>1 DEF PortsInv
<1>3. \A p \in Process : CopyMade(p)' <=> CopyMade(p)
  BY DEF CopyMade
<1>4. \A port \in Port : PortMade(port) => PortMade(port)'
  <2>1. \A port : ReadersCopy(port) => ReadersCopy(port)'
    BY ReadersFile DEF ReadersCopy
  <2> QED
    BY <2>1 DEF PortMade
<1> QED
  BY <1>1, <1>2, <1>3, <1>4 DEF PortsInv, Port, Ends

LEMMA StartStep ==
  ASSUME SetupInv, NEW s \in Sessions, StartSocat(s)
  PROVE  SetupInv'
<1>1. TypeOK /\ LogInv /\ NamesInv /\ PortsInv
  BY DEF SetupInv
<1>2. /\ UNCHANGED <<quick, hand, socat, log, vport, settings, at, config>>
      /\ script[s] = "idle"
      /\ \A earlier \in 1 .. s - 1 : script[earlier] = "started" /\ socat[earlier] = 2
      /\ script' = [script EXCEPT ![s] = "waiting"]
  BY DEF StartSocat
<1>3. TypeOK'
  BY <1>1, <1>2 DEF TypeOK
<1>4. LogInv'
  <2>1. \A t \in Sessions : t < s => t \in 1 .. s - 1
    BY SetupAssumption DEF Sessions
  <2>2. \A t \in Sessions : script'[t] = "idle" => script[t] = "idle"
    BY <1>1, <1>2 DEF TypeOK
  <2>3. \A t \in Sessions : script[t] = "started" => script'[t] = "started"
    BY <1>1, <1>2 DEF TypeOK
  <2>4. \A t \in Sessions : t # s => script'[t] = script[t]
    BY <1>1, <1>2 DEF TypeOK
  <2> QED
    BY <1>1, <1>2, <2>1, <2>2, <2>3, <2>4 DEF LogInv
<1>5. NamesInv'
  <2>1. \A t \in Sessions : script'[t] = "started" => script[t] = "started"
    BY <1>1, <1>2 DEF TypeOK
  <2> QED
    BY <1>1, <1>2, <2>1 DEF NamesInv
<1>6. PortsInv'
  <2>1. \A p \in Process : HasStarted(p) => HasStarted(p)' /\ File(p)' = File(p)
    BY <1>1, <1>2, ProcessFacts DEF HasStarted, File, TypeOK
  <2> QED
    BY <1>1, <1>2, <2>1, ScriptPorts
<1> QED
  BY <1>3, <1>4, <1>5, <1>6 DEF SetupInv

(* The session whose socat is at work is the newest one.                   *)
LEMMA Newest ==
  ASSUME LogInv, TypeOK, NEW s \in Sessions, socat[s] # 2 \/ script[s] = "waiting",
         NEW t \in Sessions, t > s
  PROVE  socat[t] = -1
  BY SetupAssumption DEF LogInv, TypeOK, Sessions

LEMMA TeeStep ==
  ASSUME SetupInv, NEW s \in Sessions, TeeOpens(s)
  PROVE  SetupInv'
<1>1. TypeOK /\ LogInv /\ NamesInv /\ PortsInv
  BY DEF SetupInv
<1>2. /\ UNCHANGED <<quick, hand, script, vport, settings, at, config>>
      /\ script[s] # "idle"
      /\ socat[s] = -1
      /\ socat' = [socat EXCEPT ![s] = 0]
      /\ log' = <<>>
  BY DEF TeeOpens
<1>3. TypeOK'
  BY <1>1, <1>2 DEF TypeOK
<1>4. LogInv'
  <2>1. \A t \in Sessions : t # s => socat'[t] = socat[t]
    BY <1>1, <1>2 DEF TypeOK
  <2>2. socat'[s] = 0 /\ Made(s, 0) = <<>>
    BY <1>1, <1>2 DEF TypeOK, Made
  <2>3. \A t \in Sessions : t > s => socat[t] = -1
    BY <1>1, <1>2, Newest
  <2>4. \A t \in Sessions : t < s \/ t = s \/ t > s
    BY SetupAssumption DEF Sessions
  <2>5. ASSUME NEW t \in Sessions, socat'[t] \in 0..2, \A u \in Sessions : u > t => socat'[u] = -1
        PROVE  t = s
    <3>1. ~ (s > t)
      BY <2>2, <2>5
    <3>2. t > s => socat'[t] = -1
      BY <2>1, <2>3, SetupAssumption DEF Sessions
    <3> QED
      BY <2>4, <2>5, <3>1, <3>2, SetupAssumption DEF Sessions
  <2>6. \A t \in Sessions :
          socat'[t] \in 0..2 /\ (\A u \in Sessions : u > t => socat'[u] = -1)
          => log' = Made(t, socat'[t])
    BY <1>2, <2>2, <2>5
  <2>7. /\ \A t \in Sessions : script'[t] = "idle" => socat'[t] = -1
        /\ \A t, u \in Sessions :
             t < u /\ script'[u] # "idle" => script'[t] = "started" /\ socat'[t] = 2
    BY <1>1, <1>2, <2>1 DEF LogInv
  <2> QED
    BY <1>2, <2>6, <2>7 DEF LogInv, Made
<1>5. NamesInv'
  BY <1>1, <1>2 DEF NamesInv
<1>6. PortsInv'
  <2>1. \A p \in Process : HasStarted(p) => HasStarted(p)' /\ File(p)' = File(p)
    BY <1>2 DEF HasStarted, File
  <2> QED
    BY <1>1, <1>2, <2>1, ScriptPorts
<1> QED
  BY <1>3, <1>4, <1>5, <1>6 DEF SetupInv

LEMMA MakesEndStep ==
  ASSUME SetupInv, NEW s \in Sessions, SocatMakesEnd(s)
  PROVE  SetupInv'
<1>1. TypeOK /\ LogInv /\ NamesInv /\ PortsInv
  BY DEF SetupInv
<1>2. /\ UNCHANGED <<quick, hand, script, vport, settings, at, config>>
      /\ socat[s] \in {0, 1}
      /\ socat' = [socat EXCEPT ![s] = @ + 1]
      /\ log' = Append(log, <<s, socat[s] + 1>>)
  BY DEF SocatMakesEnd
<1>3. TypeOK'
  <2>1. <<s, socat[s] + 1>> \in Ends
    BY <1>2 DEF Ends
  <2>2. log' \in Seq(Ends)
    BY <1>1, <1>2, <2>1 DEF TypeOK
  <2>3. socat' \in [Sessions -> -1..2]
    BY <1>1, <1>2 DEF TypeOK
  <2> QED
    BY <1>1, <1>2, <2>2, <2>3 DEF TypeOK
<1>4. LogInv'
  <2>1. \A t \in Sessions : t # s => socat'[t] = socat[t]
    BY <1>1, <1>2 DEF TypeOK
  <2>2. socat'[s] = socat[s] + 1
    BY <1>1, <1>2 DEF TypeOK
  <2>3. \A t \in Sessions : t > s => socat[t] = -1
    BY <1>1, <1>2, Newest
  <2>4. log = Made(s, socat[s])
    BY <1>1, <1>2, <2>3 DEF LogInv
  <2>5. log' = Made(s, socat'[s])
    <3>1. ASSUME NEW n \in Nat PROVE Append(Made(s, n), <<s, n + 1>>) = Made(s, n + 1)
      <4>1. Made(s, n) \in Seq({s} \X Int) /\ Len(Made(s, n)) = n
        BY DEF Made
      <4>2. \A i \in 1..n : Made(s, n)[i] = <<s, i>>
        BY DEF Made
      <4>3. \A i \in 1 .. n + 1 : i \in 1..n \/ i = n + 1
        OBVIOUS
      <4> QED
        BY <4>1, <4>2, <4>3 DEF Made
    <3> QED
      BY <1>2, <2>2, <2>4, <3>1
  <2>6. \A t \in Sessions : t < s \/ t = s \/ t > s
    BY SetupAssumption DEF Sessions
  <2>7. ASSUME NEW t \in Sessions, socat'[t] \in 0..2, \A u \in Sessions : u > t => socat'[u] = -1
        PROVE  t = s
    <3>1. ~ (s > t)
      BY <1>2, <2>2, <2>7
    <3>2. t > s => socat'[t] = -1
      BY <2>1, <2>3, SetupAssumption DEF Sessions
    <3> QED
      BY <2>6, <2>7, <3>1, <3>2, SetupAssumption DEF Sessions
  <2>8. script[s] # "idle" /\ socat'[s] \in 0..2
    BY <1>1, <1>2, <2>2 DEF LogInv
  <2>9. /\ \A t \in Sessions : script'[t] = "idle" => socat'[t] = -1
        /\ \A t, u \in Sessions :
             t < u /\ script'[u] # "idle" => script'[t] = "started" /\ socat'[t] = 2
    BY <1>1, <1>2, <2>1, <2>8 DEF LogInv
  <2> QED
    BY <2>5, <2>7, <2>8, <2>9 DEF LogInv
<1>5. NamesInv'
  BY <1>1, <1>2 DEF NamesInv
<1>6. PortsInv'
  <2>1. \A p \in Process : HasStarted(p) => HasStarted(p)' /\ File(p)' = File(p)
    BY <1>2 DEF HasStarted, File
  <2> QED
    BY <1>1, <1>2, <2>1, ScriptPorts
<1> QED
  BY <1>3, <1>4, <1>5, <1>6 DEF SetupInv

LEMMA ReadNamesStep ==
  ASSUME SetupInv, NEW s \in Sessions, ReadNames(s)
  PROVE  SetupInv'
<1>1. TypeOK /\ LogInv /\ NamesInv /\ PortsInv
  BY DEF SetupInv
<1>2. /\ UNCHANGED <<quick, hand, socat, log, settings, at, config>>
      /\ script[s] = "waiting"
      /\ quick => socat[s] = 2
      /\ vport' = [vport EXCEPT ![s] = <<Line(1), Line(2)>>]
      /\ script' = [script EXCEPT ![s] = "started"]
  BY DEF ReadNames
<1>3. /\ vport'[s] = <<Line(1), Line(2)>>
      /\ script'[s] = "started"
      /\ \A t \in Sessions : t # s => vport'[t] = vport[t] /\ script'[t] = script[t]
  BY <1>1, <1>2 DEF TypeOK
<1>4. ASSUME NEW t \in Sessions, NEW n \in 0..2, log = Made(t, n)
      PROVE  /\ <<Line(1), Line(2)>> \in {<<NoName, NoName>>} \cup NamesOf(t)
             /\ n = 2 => <<Line(1), Line(2)>> = << <<t, 1>>, <<t, 2>> >>
  <2>1. Len(log) = n /\ \A i \in 1..n : log[i] = <<t, i>>
    BY <1>4 DEF Made
  <2>2. n = 0 \/ n = 1 \/ n = 2
    BY <1>4
  <2> QED
    BY <2>1, <2>2 DEF Line, NamesOf
<1>5. vport'[s] = <<NoName, NoName>> \/ \E t \in Sessions : vport'[s] \in NamesOf(t)
  <2>1. CASE log = <<>>
    BY <1>3, <2>1 DEF Line
  <2>2. CASE \E t \in Sessions : socat[t] \in 0..2 /\ log = Made(t, socat[t])
    BY <1>3, <1>4, <2>2
  <2> QED
    BY <1>1, <2>1, <2>2 DEF LogInv
<1>6. TypeOK'
  <2>1. <<Line(1), Line(2)>> \in (Ends \cup {NoName}) \X (Ends \cup {NoName})
    BY <1>1 DEF TypeOK, Line
  <2>2. vport' \in [Sessions -> (Ends \cup {NoName}) \X (Ends \cup {NoName})]
    BY <1>1, <1>2, <2>1 DEF TypeOK
  <2>3. script' \in [Sessions -> {"idle", "waiting", "started"}]
    BY <1>1, <1>2 DEF TypeOK
  <2> QED
    BY <1>1, <1>2, <2>2, <2>3 DEF TypeOK
<1>7. LogInv'
  <2>1. \A t \in Sessions : script'[t] = "idle" <=> script[t] = "idle"
    BY <1>2, <1>3
  <2>2. \A t \in Sessions : script[t] = "started" => script'[t] = "started"
    BY <1>3
  <2> QED
    BY <1>1, <1>2, <2>1, <2>2 DEF LogInv
<1>8. NamesInv'
  <2>1. quick => vport'[s] = << <<s, 1>>, <<s, 2>> >>
    <3>1. \A t \in Sessions : t > s => socat[t] = -1
      BY <1>1, <1>2, Newest
    <3>2. quick => socat[s] = 2 /\ log = Made(s, 2)
      BY <1>1, <1>2, <3>1 DEF LogInv
    <3> QED
      BY <1>3, <1>4, <3>2
  <2> QED
    BY <1>1, <1>2, <1>3, <1>5, <2>1 DEF NamesInv
<1>9. PortsInv'
  <2>1. \A p \in Process : HasStarted(p) => HasStarted(p)' /\ File(p)' = File(p)
    BY <1>2, <1>3, ProcessFacts DEF HasStarted, File
  <2> QED
    BY <1>1, <1>2, <2>1, ScriptPorts
<1> QED
  BY <1>6, <1>7, <1>8, <1>9 DEF SetupInv
-----------------------------------------------------------------------------
(* The steps of the programs leave the script and its log alone.           *)
LEMMA ProgramSteps ==
  ASSUME SetupInv, UNCHANGED scriptVars
  PROVE  LogInv' /\ NamesInv' /\ (\A p \in Process : File(p)' = File(p))
  BY DEF SetupInv, scriptVars, LogInv, NamesInv, File, Made, NamesOf

(* A process that asks for or sets its settings has a port, and, if it     *)
(* sets them, a copy.                                                      *)
LEMMA HasPort ==
  ASSUME SetupInv, NEW p \in Process, Running(p),
         Calls[p.program][at[p]] \in {"tcgetattr", "tcsetattr"}
  PROVE  /\ File(p) \in Port
         /\ Calls[p.program][at[p]] = "tcsetattr" =>
              p.program \in {"imu_reader", "LoopTester"} /\ CopyMade(p)
<1>1. p.program \in Program /\ at[p] \in DOMAIN Calls[p.program]
  BY ProcessFacts DEF Running
<1>2. Past(p, "open")
  BY <1>1, CallOrder DEF Past
<1>3. Calls[p.program][at[p]] = "tcsetattr" =>
        p.program \in {"imu_reader", "LoopTester"} /\ Past(p, "tcgetattr")
  BY <1>1, CallOrder DEF Past
<1> QED
  BY <1>2, <1>3 DEF SetupInv, PortsInv

(* A process on the default device was started by hand.                    *)
LEMMA OnDefault ==
  ASSUME SetupInv, NEW p \in Process, HasStarted(p), File(p) = UART_PORT_FILE
  PROVE  p.program \in hand
<1>1. CASE p.session = 0
  BY <1>1 DEF HasStarted
<1>2. CASE p.session \in Sessions /\ p.session # 0
  <2>1. vport[p.session] \in (Ends \cup {NoName}) \X (Ends \cup {NoName})
    BY <1>2 DEF SetupInv, TypeOK
  <2>2. File(p) \in Ends \cup {NoName}
    BY <1>2, <2>1 DEF File
  <2>3. UART_PORT_FILE \notin Ends \cup {NoName}
    BY SetupAssumption DEF UART_PORT_FILE, Ends, NoName, Sessions
  <2> QED
    BY <2>2, <2>3
<1> QED
  BY <1>1, <1>2, ProcessFacts

(* The calls: what each does to the copies and to the settings.            *)
LEMMA CallStep ==
  ASSUME SetupInv, NEW p \in Process, NEW call, Returns(p, call),
         settings' \in [Port -> Settings], config' \in [Process -> Settings],
         call = "open" => File(p) \in Port,
         \A q \in Process : q # p => config'[q] = config[q],
         IF call = "tcgetattr" THEN CopyMade(p)' ELSE config'[p] = config[p],
         \A port \in Port : PortMade(port)',
         \A port \in Port :
           settings[port] # AtFirst(port) => settings'[port] # AtFirst(port),
         call = "tcsetattr" => File(p) \in Port /\ settings'[File(p)] # AtFirst(File(p))
  PROVE  SetupInv'
<1>1. TypeOK /\ PortsInv
  BY DEF SetupInv
<1>2. UNCHANGED scriptVars /\ Running(p) /\ at' = [at EXCEPT ![p] = @ + 1]
  BY DEF Returns
<1>3. \A q \in Process : File(q)' = File(q)
  BY <1>2, ProgramSteps
<1>4. \A q \in Process : \A c : Past(q, c)' <=> Past(q, c) \/ (q = p /\ c = call)
  BY <1>1, PastReturns
<1>5. \A port : AtFirst(port)' = AtFirst(port)
  BY DEF AtFirst
<1>6. at[p] \in 1..4
  BY <1>2, CallOrder, ProcessFacts DEF Running
<1>7. TypeOK'
  <2>1. at' \in [Process -> 0..5]
    BY <1>1, <1>2, <1>6 DEF TypeOK
  <2> QED
    BY <1>1, <1>2, <2>1 DEF TypeOK, scriptVars
<1>8. \A q \in Process : Past(q, "open")' => (File(q) \in Port)'
  BY <1>1, <1>3, <1>4 DEF PortsInv, Port, Ends
<1>9. PortsInv'
  <2>1. \A q \in Process : at'[q] > 1 => HasStarted(q)'
    <3>1. \A q \in Process : HasStarted(q)' <=> HasStarted(q)
      BY <1>2 DEF HasStarted, scriptVars
    <3>2. \A q \in Process : q # p => at'[q] = at[q]
      BY <1>1, <1>2 DEF TypeOK
    <3> QED
      BY <1>1, <1>2, <3>1, <3>2 DEF PortsInv, Running
  <2>2. ASSUME NEW q \in Process, Past(q, "tcgetattr")'
        PROVE  CopyMade(q)'
    <3>1. Past(q, "tcgetattr") \/ (q = p /\ call = "tcgetattr")
      BY <1>4, <2>2
    <3>2. config'[q] = config[q] /\ CopyMade(q) => CopyMade(q)'
      BY <1>2 DEF CopyMade, scriptVars
    <3> QED
      BY <1>1, <3>1, <3>2 DEF PortsInv
  <2>3. ASSUME NEW q \in Process, Past(q, "tcsetattr")'
        PROVE  File(q) \in Port /\ settings'[File(q)] # AtFirst(File(q))
    <3>1. Past(q, "tcsetattr") \/ (q = p /\ call = "tcsetattr")
      BY <1>4, <2>3
    <3>2. CASE Past(q, "tcsetattr")
      BY <1>1, <3>2 DEF PortsInv
    <3>3. CASE q = p /\ call = "tcsetattr"
      BY <3>3
    <3> QED
      BY <3>1, <3>2, <3>3
  <2>4. Port' = Port
    BY DEF Port, Ends
  <2> QED
    BY <1>3, <1>5, <1>8, <2>1, <2>2, <2>3, <2>4 DEF PortsInv
<1> QED
  BY <1>2, <1>7, <1>9, ProgramSteps DEF SetupInv

(* What a port is does not depend on the script and the places.            *)
LEMMA PortMadeKept ==
  ASSUME SetupInv, UNCHANGED <<scriptVars, config>>, NEW port \in Port,
         settings'[port] = settings[port]
  PROVE  PortMade(port)'
<1>1. PortMade(port)
  BY DEF SetupInv, PortsInv
<1>2. ReadersCopy(port) => ReadersCopy(port)'
  BY ReadersFile DEF ReadersCopy
<1> QED
  BY <1>1, <1>2 DEF PortMade, AtFirst, scriptVars

LEMMA OpenStep ==
  ASSUME SetupInv, NEW p \in Process, Open(p) \/ CreateSocket(p)
  PROVE  SetupInv'
<1>1. PICK call \in {"open", "socket"} : Returns(p, call) /\ (call = "open" => Exists(File(p)))
  BY DEF Open, CreateSocket
<1>2. UNCHANGED <<settings, config, scriptVars>>
  BY DEF Open, CreateSocket, Returns
<1>3. Exists(File(p)) => File(p) \in Port
  BY DEF Exists, Port
<1>4. \A port \in Port : PortMade(port)'
  BY <1>2, PortMadeKept
<1> QED
  BY <1>1, <1>2, <1>3, <1>4, CallStep DEF SetupInv, TypeOK

LEMMA GetStep ==
  ASSUME SetupInv, NEW p \in Process, GetAttributes(p)
  PROVE  SetupInv'
<1> DEFINE t == settings[File(p)]
<1>1. /\ Returns(p, "tcgetattr")
      /\ config' = [config EXCEPT ![p] = Configure(p.program, t)]
      /\ settings' = settings
      /\ UNCHANGED scriptVars
  BY DEF GetAttributes, Returns
<1>2. File(p) \in Port /\ Running(p)
  BY <1>1, HasPort DEF Returns
<1>3. t \in Settings
  BY <1>2 DEF SetupInv, TypeOK
<1>4. PortMade(File(p))
  BY <1>2 DEF SetupInv, PortsInv
<1>5. Configure(p.program, t) \in Settings
  <2> HIDE DEF t
  <2>1. /\ t.flags \subseteq Cooked /\ t.speed \in {"initial", "B921600"}
        /\ [t EXCEPT !.speed = "B921600"] = [speed |-> "B921600", flags |-> t.flags]
    BY <1>3 DEF Settings
  <2> QED
    BY <2>1, ProcessFacts DEF Configure, Settings, Program
<1>6. /\ config' \in [Process -> Settings]
      /\ config'[p] = Configure(p.program, t)
      /\ \A q \in Process : q # p => config'[q] = config[q]
  BY <1>1, <1>5 DEF SetupInv, TypeOK
<1>7. ASSUME p.program = "imu_reader"
      PROVE  /\ File(p) = UART_PORT_FILE
             /\ t = AtFirst(UART_PORT_FILE) \/ t = CRConverted => config'[p] = CRConverted
             /\ t = RawInput => config'[p] = RawInput /\ "LoopTester" \in hand
  <2>1. File(p) = UART_PORT_FILE
    BY <1>7, ReadersFile
  <2>2. config'[p] = [speed |-> "B921600", flags |-> t.flags \ {"ICANON", "ISIG", "IXON"}]
    BY <1>6, <1>7 DEF Configure
  <2>3. t = AtFirst(UART_PORT_FILE) => config'[p] = CRConverted
    <3>1. Cooked \ {"ICANON", "ISIG", "IXON"} = {"ICRNL"}
      BY DEF Cooked
    <3> QED
      BY <2>2, <3>1 DEF AtFirst, CRConverted
  <2>4. t = CRConverted => config'[p] = CRConverted
    <3>1. {"ICRNL"} \ {"ICANON", "ISIG", "IXON"} = {"ICRNL"}
      OBVIOUS
    <3> QED
      BY <2>2, <3>1 DEF CRConverted
  <2>5. t = RawInput => config'[p] = RawInput
    BY <2>2 DEF RawInput
  <2>6. t = RawInput => "LoopTester" \in hand
    BY <1>4, <2>1 DEF PortMade, RawInput, CRConverted, AtFirst
  <2> QED
    BY <2>1, <2>3, <2>4, <2>5, <2>6
<1>8. CopyMade(p)'
  <2>1. p.program = "LoopTester" => config'[p] = RawInput
    BY <1>6 DEF Configure, RawInput
  <2>2. hand' = hand
    BY <1>1 DEF scriptVars
  <2>3. p.program = "imu_reader" =>
          config'[p] = CRConverted \/ (config'[p] = RawInput /\ "LoopTester" \in hand)
    BY <1>4, <1>7 DEF PortMade
  <2> QED
    BY <2>1, <2>2, <2>3 DEF CopyMade, RawInput, CRConverted
<1>9. ASSUME NEW port \in Port PROVE PortMade(port)'
  <2>1. PortMade(port)
    BY DEF SetupInv, PortsInv
  <2>2. ASSUME settings[port] = CRConverted, ReadersCopy(port) PROVE ReadersCopy(port)'
    <3>1. PICK r \in Process : r.program = "imu_reader" /\ File(r) = port /\ config[r] = CRConverted
      BY <2>2 DEF ReadersCopy
    <3>2. (File(r) = port)'
      BY <3>1, ReadersFile
    <3>3. config'[r] = CRConverted
      <4>1. CASE r = p
        BY <1>7, <2>2, <3>1, <4>1
      <4>2. CASE r # p
        BY <1>6, <3>1, <4>2
      <4> QED
        BY <4>1, <4>2
    <3> QED
      BY <3>1, <3>2, <3>3 DEF ReadersCopy, CRConverted
  <2> QED
    BY <1>1, <2>1, <2>2 DEF PortMade, AtFirst, RawInput, CRConverted, scriptVars
<1> QED
  BY <1>1, <1>6, <1>8, <1>9, CallStep DEF SetupInv, TypeOK

(* What tcsetattr() writes.                                                *)
LEMMA Written ==
  ASSUME SetupInv, NEW p \in Process, SetAttributes(p)
  PROVE  /\ File(p) \in Port
         /\ settings'[File(p)] = config[p]
         /\ \A port \in Port : port # File(p) => settings'[port] = settings[port]
         /\ \/ config[p] = RawInput /\ (File(p) = UART_PORT_FILE => "LoopTester" \in hand)
            \/ p.program = "imu_reader" /\ config[p] = CRConverted
<1>1. /\ Returns(p, "tcsetattr")
      /\ settings' = [settings EXCEPT ![File(p)] = config[p]]
  BY DEF SetAttributes
<1>2. File(p) \in Port /\ p.program \in {"imu_reader", "LoopTester"} /\ CopyMade(p) /\ HasStarted(p)
  BY <1>1, HasPort DEF Returns, Running
<1>3. File(p) = UART_PORT_FILE => p.program \in hand
  BY <1>2, OnDefault
<1> QED
  BY <1>1, <1>2, <1>3 DEF SetupInv, TypeOK, CopyMade

LEMMA SetStep ==
  ASSUME SetupInv, NEW p \in Process, SetAttributes(p)
  PROVE  SetupInv'
<1>1. /\ Returns(p, "tcsetattr")
      /\ settings' = [settings EXCEPT ![File(p)] = config[p]]
      /\ UNCHANGED <<scriptVars, config>>
  BY DEF SetAttributes, Returns
<1>2. settings' \in [Port -> Settings]
  BY <1>1, Written DEF SetupInv, TypeOK
<1>3. settings'[File(p)] # AtFirst(File(p))
  BY Written DEF RawInput, CRConverted, AtFirst
<1>4. ASSUME NEW port \in Port PROVE PortMade(port)'
  <2>1. CASE port # File(p)
    BY <1>1, <2>1, Written, PortMadeKept
  <2>2. CASE port = File(p) /\ config[p] = RawInput
    BY <1>1, <2>2, Written DEF PortMade, RawInput, CRConverted, scriptVars
  <2>3. CASE port = File(p) /\ p.program = "imu_reader" /\ config[p] = CRConverted
    <3>1. (File(p) = port)' /\ config'[p] = CRConverted
      BY <1>1, <2>3, ReadersFile
    <3>2. ReadersCopy(port)'
      BY <2>3, <3>1 DEF ReadersCopy, CRConverted
    <3> QED
      BY <2>3, <3>2, Written DEF PortMade, CRConverted
  <2> QED
    BY <2>1, <2>2, <2>3, Written
<1>5. \A port \in Port :
        settings[port] # AtFirst(port) => settings'[port] # AtFirst(port)
  BY <1>3, Written
<1> QED
  BY <1>1, <1>2, <1>3, <1>4, <1>5, Written, CallStep DEF SetupInv, TypeOK

LEMMA FailStep ==
  ASSUME SetupInv, NEW p \in Process, Fails(p)
  PROVE  SetupInv'
<1>1. TypeOK /\ PortsInv
  BY DEF SetupInv
<1>2. UNCHANGED <<scriptVars, settings, config>> /\ at' = [at EXCEPT ![p] = 0]
  BY DEF Fails
<1>3. LogInv' /\ NamesInv' /\ (\A q \in Process : File(q)' = File(q))
  BY <1>2, ProgramSteps
<1>4. TypeOK'
  <2>1. at' \in [Process -> 0..5]
    BY <1>1, <1>2 DEF TypeOK
  <2> QED
    BY <1>1, <1>2, <2>1 DEF TypeOK, scriptVars
<1>5. ASSUME NEW q \in Process
      PROVE  /\ at'[q] > 1 => at'[q] = at[q]
             /\ \A c : Past(q, c)' => Past(q, c)
  <2>1. at'[q] = at[q] \/ at'[q] = 0
    BY <1>1, <1>2 DEF TypeOK
  <2>2. CASE at'[q] = at[q]
    BY <2>2 DEF Past
  <2>3. CASE at'[q] = 0
    BY <2>3 DEF Past
  <2> QED
    BY <2>1, <2>2, <2>3
<1>6. /\ \A q \in Process : CopyMade(q) => CopyMade(q)'
      /\ \A port \in Port : PortMade(port)' /\ AtFirst(port)' = AtFirst(port)
  BY <1>2, PortMadeKept DEF CopyMade, AtFirst, scriptVars
<1>7. \A q \in Process : HasStarted(q)' <=> HasStarted(q)
  BY <1>2 DEF HasStarted, scriptVars
<1>8. PortsInv'
  BY <1>1, <1>2, <1>3, <1>5, <1>6, <1>7 DEF PortsInv, Port, Ends
<1> QED
  BY <1>3, <1>4, <1>8 DEF SetupInv

LEMMA SetupStep == SetupInv /\ [Next]_vars => SetupInv'
<1> SUFFICES ASSUME SetupInv, [Next]_vars PROVE SetupInv'
  OBVIOUS
<1>1. CASE \E s \in Sessions : StartSocat(s) \/ TeeOpens(s) \/ SocatMakesEnd(s) \/ ReadNames(s)
  BY <1>1, StartStep, TeeStep, MakesEndStep, ReadNamesStep
<1>2. CASE \E p \in Process :
             Open(p) \/ GetAttributes(p) \/ SetAttributes(p) \/ CreateSocket(p) \/ Fails(p)
  BY <1>2, OpenStep, GetStep, SetStep, FailStep
<1>3. CASE UNCHANGED vars
  BY <1>3 DEF vars, SetupInv, TypeOK, LogInv, NamesInv, PortsInv, Made, NamesOf, Past, File,
              HasStarted, CopyMade, PortMade, ReadersCopy, AtFirst
<1> QED
  BY <1>1, <1>2, <1>3 DEF Next

LEMMA SetupInvariant == Spec => []SetupInv
<1> QED
  BY SetupInit, SetupStep, PTL DEF Spec
-----------------------------------------------------------------------------
(* Type correctness of the start-up, for any number of runs and programs.  *)
THEOREM SetupTypeOK == Spec => []TypeOK
<1>1. SetupInv => TypeOK
  BY DEF SetupInv
<1> QED
  BY <1>1, SetupInvariant, PTL

(* Parser and tester of a run of the script that get to their loops are on *)
(* the two ends of one line (run_tests.sh:43-45), its own or not.          *)
THEOREM EndsArePaired == Spec => []PairedEnds
<1>1. SetupInv => PairedEnds
  <2> SUFFICES ASSUME SetupInv, NEW p \in InScript, NEW q \in InScript,
                      InLoop(p), p.program = "imu_parser",
                      InLoop(q), q.program = "LoopTester", p.session = q.session
               PROVE  \E t \in Sessions : File(p) = <<t, 1>> /\ File(q) = <<t, 2>>
    BY DEF PairedEnds
  <2>1. p \in Process /\ q \in Process /\ p.session \in Sessions /\ p.session # 0
    BY ProcessFacts DEF InScript
  <2>2. File(p) \in Port /\ File(q) \in Port
    BY <2>1, LoopFacts DEF SetupInv, PortsInv
  <2>3. File(p) = vport[p.session][1] /\ File(q) = vport[p.session][2]
    BY <2>1 DEF File
  <2>4. NoName \notin Port
    BY DEF NoName, Port, Ends, UART_PORT_FILE
  <2>5. \/ vport[p.session] = <<NoName, NoName>>
        \/ \E t \in Sessions : vport[p.session] \in NamesOf(t)
    BY <2>1 DEF SetupInv, NamesInv
  <2> QED
    BY <2>2, <2>3, <2>4, <2>5 DEF NamesOf
<1> QED
  BY <1>1, SetupInvariant, PTL

(* If socat takes less than its second, every run of the script is on a    *)
(* line of its own (run_tests.sh:38-43), however many came before it.      *)
THEOREM LinesAreOwn == Spec => []OwnLine
<1>1. SetupInv => OwnLine
  <2> SUFFICES ASSUME SetupInv, quick, NEW p \in InScript, NEW q \in InScript,
                      InLoop(p), InLoop(q), p # q
               PROVE  File(p) # File(q)
    BY DEF OwnLine
  <2>1. /\ p \in [program : {"imu_parser", "LoopTester"}, session : Sessions]
        /\ q \in [program : {"imu_parser", "LoopTester"}, session : Sessions]
        /\ p.session # 0 /\ q.session # 0 /\ p \in Process /\ q \in Process
    BY DEF InScript, Process
  <2>2. script[p.session] = "started" /\ script[q.session] = "started"
    <3>1. ASSUME NEW r \in Process, r.session # 0, InLoop(r) PROVE script[r.session] = "started"
      <4>1. Past(r, "open")
        BY <3>1, LoopFacts
      <4>2. at[r] > 1
        BY <4>1 DEF Past, SetupInv, TypeOK
      <4> QED
        BY <3>1, <4>2 DEF SetupInv, PortsInv, HasStarted
    <3> QED
      BY <2>1, <3>1
  <2>3. /\ vport[p.session] = << <<p.session, 1>>, <<p.session, 2>> >>
        /\ vport[q.session] = << <<q.session, 1>>, <<q.session, 2>> >>
    BY <2>1, <2>2 DEF SetupInv, NamesInv
  <2>4. p.session # q.session \/ p.program # q.program
    BY <2>1
  <2> QED
    BY <2>1, <2>3, <2>4 DEF File
<1> QED
  BY <1>1, SetupInvariant, PTL

(* A port that imu_reader or LoopTester has set up is raw, but for the CR  *)
(* conversion of a copy imu_reader has made, which alone is what it gets   *)
(* (imu_reader.cpp:118-139).                                               *)
THEOREM InputAsSet == Spec => []InputOnceSet
<1>1. SetupInv => InputOnceSet
  <2> SUFFICES ASSUME SetupInv, NEW p \in Process, InLoop(p),
                      p.program \in {"imu_reader", "LoopTester"}
               PROVE  \/ /\ settings[File(p)] = RawInput
                         /\ p.program = "imu_reader" => "LoopTester" \in hand
                      \/ /\ settings[File(p)] = CRConverted
                         /\ ReadersCopy(File(p))
    BY DEF InputOnceSet
  <2>1. Past(p, "tcsetattr")
    BY LoopFacts
  <2>2. File(p) \in Port /\ settings[File(p)] # AtFirst(File(p)) /\ PortMade(File(p))
    BY <2>1 DEF SetupInv, PortsInv
  <2>3. p.program = "imu_reader" => File(p) = UART_PORT_FILE
    BY ReadersFile
  <2> QED
    BY <2>2, <2>3 DEF PortMade
<1> QED
  BY <1>1, SetupInvariant, PTL

(* Of what LoopTester has set, the CR conversion alone is undone, and by   *)
(* imu_reader alone, with a copy from before (imu_reader.cpp:118, 139).    *)
THEOREM OneFlagUndone == Spec => UndoneByStaleCopyOnly
<1> DEFINE Undone(port) ==
             /\ settings[port] = RawInput
             /\ \E p \in Process :
                  /\ p.program = "imu_reader"
                  /\ File(p) = port
                  /\ config[p] = CRConverted
                  /\ Stale(p)
                  /\ settings'[port] = config[p]
           Kept(port) ==
             /\ settings[port].speed = "B921600" => settings'[port].speed = "B921600"
             /\ ~ (settings'[port].flags \subseteq settings[port].flags) => Undone(port)
<1>1. SetupInv /\ [Next]_vars => [\A port \in Port : Kept(port)]_vars
  <2> SUFFICES ASSUME SetupInv, [Next]_vars, NEW port \in Port, ~ UNCHANGED vars
               PROVE  Kept(port)
    BY Zenon
  <2>1. CASE settings'[port] = settings[port]
    BY <2>1
  <2>2. CASE settings'[port] # settings[port]
    <3>1. PICK p \in Process : SetAttributes(p)
      BY <2>2 DEF Next, vars, StartSocat, TeeOpens, SocatMakesEnd, ReadNames, Open,
                  GetAttributes, CreateSocket, Fails
    <3>2. port = File(p) /\ settings'[port] = config[p]
      BY <2>2, <3>1, Written
    <3>3. PortMade(port)
      BY DEF SetupInv, PortsInv
    <3>4. CASE config[p] = RawInput
      BY <3>2, <3>4 DEF RawInput
    <3>5. CASE p.program = "imu_reader" /\ config[p] = CRConverted
      <4>1. CASE settings[port] = AtFirst(port)
        <5>1. port = UART_PORT_FILE
          BY <3>2, <3>5, ReadersFile
        <5> QED
          BY <3>2, <3>5, <4>1, <5>1 DEF AtFirst, CRConverted, Cooked
      <4>2. CASE settings[port] = RawInput
        <5>1. Configure(p.program, RawInput) = RawInput
          BY <3>5 DEF Configure, RawInput
        <5>2. Stale(p)
          BY <3>2, <3>5, <4>2, <5>1 DEF Stale, RawInput, CRConverted
        <5>3. Undone(port)
          BY <3>2, <3>5, <4>2, <5>2
        <5> QED
          BY <3>2, <3>5, <5>3 DEF CRConverted
      <4>3. CASE settings[port] = CRConverted
        BY <3>2, <3>5, <4>3
      <4> QED
        BY <3>3, <4>1, <4>2, <4>3 DEF PortMade
    <3> QED
      BY <3>1, <3>4, <3>5, Written
  <2> QED
    BY <2>1, <2>2
<1> QED
  BY <1>1, SetupInvariant, PTL DEF Spec, UndoneByStaleCopyOnly
=============================================================================
