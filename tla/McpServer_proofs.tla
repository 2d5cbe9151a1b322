--------------------------- MODULE McpServer_proofs ---------------------------
(***************************************************************************)
(* Theorems about McpServer, for any lines that clients send: types, that  *)
(* its steps are steps of RpcService, that an agent which follows          *)
(* tools/list gets its calls through, that no request is answered twice or *)
(* out of order, and that every line comes to an end.  OrderInv has the    *)
(* ids in the pipe in the order of the requests; CallInv says what is      *)
(* known of the call in hand.                                              *)
(***************************************************************************)
EXTENDS McpServer, SequenceTheorems, TLAPS

\* Ids ascend, those that wait for an answer are not zero, and the call came first.
OrderInv ==
    /\ \A i \in DOMAIN stdin : stdin[i].id <= asked /\ (stdin[i].id # 0 => Waits(stdin[i].method))
    /\ \A i, j \in DOMAIN stdin :
          i < j /\ stdin[i].id # 0 /\ stdin[j].id # 0 => stdin[i].id < stdin[j].id
    /\ call # Idle =>
          /\ call.id <= asked
          /\ \A i \in DOMAIN stdin : stdin[i].id # 0 => call.id < stdin[i].id

\* What a call that follows its schema may have come to.
Fair(params, kind, met) ==
    Follows(params) =>
        /\ kind \in {"ok", "isError"} \union (IF "fault" \in met THEN {"badargs"} ELSE {})
        /\ params.value = "known" /\ NamesRepo(params, met) /\ "fault" \notin met => kind = "ok"

CallInv ==
    call # Idle =>
        /\ Fair(call.params, call.kind, call.met)
        /\ \A i \in DOMAIN call.gets :
              call.gets[i] \in {"manifest", "page"} => call.params.tool \in DOMAIN WikiHandlers

\* Only calls have a tool.
LineInv ==
    \A i \in DOMAIN stdin :
        stdin[i].method # "tools/call" => stdin[i].params.tool \in {"none", "odd"}

IInv == TypeOK /\ OrderInv /\ CallInv /\ LineInv /\ AdvertisedWorks
-----------------------------------------------------------------------------
(* The tools.                                                               *)

LEMMA WikiNames == DOMAIN WikiHandlers = {"wiki_list", "wiki_read", "wiki_search"}
  BY DEF WikiHandlers

LEMMA PlatformNames ==
    DOMAIN PlatformHandlers =
        {"service_map", "credentials", "storage_map", "runtime_matrix", "pipeline_patterns",
         "compute_limits", "probe", "mlflow_experiments", "ray_status"}
  BY DEF PlatformHandlers

\* What is advertised is what the functions take.
LEMMA Agree == Tools(server) = Handlers(server)
  BY DEF Tools, Handlers, PlatformTools, PlatformHandlers, WikiTools, WikiHandlers

LEMMA OutsetType ==
    ASSUME NEW c \in Call
    PROVE  /\ Outset(c) \in {"ok", "isError"}
           /\ c.value = "known" => Outset(c) = "ok"
<1>1. /\ Lookup(c) \in {"ok", "isError"} /\ (c.value = "known" => Lookup(c) = "ok")
      /\ StorageMap(c) \in {"ok", "isError"} /\ (c.value = "known" => StorageMap(c) = "ok")
      /\ Probe(c) \in {"ok", "isError"} /\ (c.value = "known" => Probe(c) = "ok")
      /\ WikiSearch(c) \in {"ok", "isError"} /\ (c.value = "known" => WikiSearch(c) = "ok")
  BY DEF Lookup, StorageMap, Probe, WikiSearch, Given
<1> QED
  BY <1>1 DEF Outset, ServiceMap, Credentials

LEMMA GetsType ==
    ASSUME NEW c \in Call
    PROVE  /\ Gets(c) \in Seq(Urls)
           /\ Gets(c) # <<>> => Outset(c) = "ok"
           /\ \A i \in DOMAIN Gets(c) :
                 Gets(c)[i] \in {"manifest", "page"} => c.tool \in DOMAIN WikiHandlers
<1>1. CASE Outset(c) # "ok"
  BY <1>1 DEF Gets
<1>2. CASE Outset(c) = "ok"
  <2>1. CASE c.tool = "probe"
    <3>1. Gets(c) = <<"health">>
      BY <1>2, <2>1, WikiNames DEF Gets
    <3> QED
      BY <1>2, <3>1 DEF Urls
  <2>2. CASE c.tool = "mlflow_experiments"
    <3>1. Gets(c) = <<"experiments">>
      BY <1>2, <2>2, WikiNames DEF Gets
    <3> QED
      BY <1>2, <3>1 DEF Urls
  <2>3. CASE c.tool = "ray_status"
    <3>1. Gets(c) = <<"version", "nodes">>
      BY <1>2, <2>3, WikiNames DEF Gets
    <3> QED
      BY <1>2, <3>1 DEF Urls
  <2>4. CASE c.tool \in DOMAIN WikiHandlers
    <3>1. Gets(c) = <<"manifest">>
      BY <1>2, <2>4, WikiNames DEF Gets
    <3> QED
      BY <1>2, <2>4, <3>1 DEF Urls
  <2>5. CASE c.tool \notin {"probe", "mlflow_experiments", "ray_status"} \union DOMAIN WikiHandlers
    <3>1. Gets(c) = <<>>
      BY <1>2, <2>5 DEF Gets
    <3> QED
      BY <3>1
  <2> QED
    BY <2>1, <2>2, <2>3, <2>4, <2>5
<1> QED
  BY <1>1, <1>2

\* What a GET makes of the answer.
LEMMA VerdictsAre ==
    ASSUME NEW c \in Call, NEW get \in Urls, NEW o \in Outcomes, NEW k \in Verdicts(c, get, o)
    PROVE  /\ k \in {"ok", "isError", "badargs"}
           /\ o = "ok" => k = "ok"
<1>1. /\ Experiments(o) \subseteq {"ok", "isError", "badargs"} /\ (o = "ok" => Experiments(o) = {"ok"})
      /\ Nodes(o) \subseteq {"ok", "isError", "badargs"} /\ (o = "ok" => Nodes(o) = {"ok"})
      /\ Manifest(o) \subseteq {"ok", "isError", "badargs"} /\ (o = "ok" => Manifest(o) = {"ok"})
      /\ ReadPage(o) \subseteq {"ok", "isError", "badargs"} /\ (o = "ok" => ReadPage(o) = {"ok"})
      /\ SearchPage(o) = {"ok"}
  BY DEF Experiments, Nodes, Manifest, ReadPage, SearchPage, Raised
<1>2. CASE o = "torn"
  BY <1>2 DEF Verdicts
<1>3. CASE o # "torn"
  BY <1>1, <1>3 DEF Verdicts, Urls
<1> QED
  BY <1>2, <1>3

\* What may follow the manifest.
LEMMA ResolvedIs ==
    ASSUME NEW c \in Call, c.tool \in DOMAIN WikiHandlers, NEW several \in BOOLEAN,
           NEW next \in Resolved(c, several)
    PROVE  /\ next[1] \in {"ok", "isError", "badargs"} /\ next[2] \in Seq(Urls)
           /\ next[2] # <<>> => next[1] = "ok"
           /\ c.value # "odd" => next[1] # "badargs"
           /\ c.value = "known" =>
                 \/ next[1] = "ok"
                 \/ c.tool = "wiki_read" /\ "repo" \notin c.names /\ several
<1> DEFINE fails == {<<k, <<>>>> : k \in IF c.value = "odd" THEN Raised ELSE {"isError"}}
           pages == {<<"ok", [i \in 1..n |-> "page"]>> : n \in 0..MaxPages}
           lone == c.tool = "wiki_read" /\ "repo" \notin c.names /\ several
<1>0. MaxPages \in Nat
  BY ShapeAssumption
<1>1. \/ next \in fails /\ c.value # "known"
      \/ next \in pages \/ next \in {<<"ok", <<>>>>, <<"ok", <<"page">>>>}
      \/ next = <<"isError", <<>>>> /\ (c.value = "known" => lone)
  BY WikiNames DEF Resolved
<1>2. CASE next \in fails /\ c.value # "known"
  <2>1. PICK k \in (IF c.value = "odd" THEN Raised ELSE {"isError"}) : next = <<k, <<>>>>
    BY <1>2
  <2>2. next[1] = k /\ next[2] = <<>>
    BY <2>1
  <2>3. k \in {"isError", "badargs"} /\ (c.value # "odd" => k = "isError")
    BY <2>1 DEF Raised
  <2>4. <<>> \in Seq(Urls)
    OBVIOUS
  <2> QED
    BY <1>2, <2>2, <2>3, <2>4
<1>3. CASE next \in pages
  <2>1. PICK n \in 0..MaxPages : next = <<"ok", [i \in 1..n |-> "page"]>>
    BY <1>3
  <2>2. n \in Nat
    BY <1>0, <2>1
  <2>3. [i \in 1..n |-> "page"] \in Seq(Urls)
    BY <2>2 DEF Urls
  <2> QED
    BY <2>1, <2>3
<1>4. CASE next \in {<<"ok", <<>>>>, <<"ok", <<"page">>>>}
  <2>1. next[1] = "ok" /\ next[2] \in {<<>>, <<"page">>}
    BY <1>4
  <2>2. <<>> \in Seq(Urls) /\ <<"page">> \in Seq(Urls)
    BY DEF Urls
  <2> QED
    BY <2>1, <2>2
<1>5. CASE next = <<"isError", <<>>>> /\ (c.value = "known" => lone)
  <2>1. next[1] = "isError" /\ next[2] = <<>> /\ <<>> \in Seq(Urls)
    BY <1>5
  <2> QED
    BY <1>5, <2>1
<1> QED
  BY <1>1, <1>2, <1>3, <1>4, <1>5

LEMMA ReplyType ==
    ASSUME NEW line \in Line, ~Silent(line), ~Fatal(line)
    PROVE  Reply(line) \in Kinds
<1>1. line.method \in {"odd", "initialize", "ping", "tools/list", "unknown", "tools/call"}
  BY DEF Line, Methods, Silent, Fatal
<1> QED
  BY <1>1 DEF Reply, Kinds
-----------------------------------------------------------------------------
(* The invariant.                                                           *)

LEMMA InitInv == Init => IInv
<1> SUFFICES ASSUME Init PROVE IInv
  OBVIOUS
<1>1. TypeOK
  <2>1. stdin \in Seq(Line) /\ stdout \in Seq(Answer)
    BY DEF Init
  <2> QED
    BY <2>1, ShapeAssumption DEF Init, TypeOK
<1>2. OrderInv /\ CallInv /\ LineInv /\ AdvertisedWorks
  BY DEF Init, OrderInv, CallInv, LineInv, AdvertisedWorks
<1> QED
  BY <1>1, <1>2 DEF IInv

LEMMA LineType ==
    ASSUME TypeOK, NEW i \in DOMAIN stdin
    PROVE  stdin[i].id \in Nat /\ stdin[i].method \in Methods /\ stdin[i].params \in Call
<1>1. stdin[i] \in Line
  BY DEF TypeOK
<1> QED
  BY <1>1 DEF Line

LEMMA SendInv == ASSUME IInv, NEW s \in Shapes, Send(s) PROVE IInv'
<1> DEFINE waits == s.ids /\ Waits(s.method)
           line == [id |-> IF waits THEN asked + 1 ELSE 0, method |-> s.method, params |-> s.params]
           n == Len(stdin)
<1>1. s.ids \in BOOLEAN /\ s.method \in Methods /\ s.params \in Call
      /\ (s.method # "tools/call" => s.params.tool \in {"none", "odd"})
  BY ShapeAssumption
<1>2. stdin \in Seq(Line) /\ asked \in Nat
  BY DEF IInv, TypeOK
<1>3. line \in Line /\ stdin' = Append(stdin, line)
  BY <1>1, <1>2 DEF Send, Line
<1>4. asked' \in Nat /\ asked <= asked' /\ line.id <= asked'
      /\ (line.id # 0 => line.id = asked + 1 /\ Waits(line.method))
  BY <1>2 DEF Send
<1>5. /\ stdin' \in Seq(Line) /\ DOMAIN stdin' = 1..n + 1 /\ DOMAIN stdin = 1..n /\ n \in Nat
      /\ \A i \in 1..n : stdin'[i] = stdin[i]
      /\ stdin'[n + 1] = line
  <2> HIDE DEF line
  <2> QED
    BY <1>2, <1>3
<1> HIDE DEF line, n
<1>6. TypeOK'
  <2>1. sent' \in 0..MaxLines
    BY ShapeAssumption DEF IInv, TypeOK, Send
  <2> QED
    BY <1>4, <1>5, <2>1 DEF IInv, TypeOK, Send
<1>7. OrderInv'
  <2>1. \A i \in 1..n : stdin[i].id \in Nat /\ stdin[i].id <= asked
    BY <1>5, LineType DEF IInv, OrderInv
  <2>2. ASSUME NEW i \in DOMAIN stdin'
        PROVE  stdin'[i].id <= asked' /\ (stdin'[i].id # 0 => Waits(stdin'[i].method))
    <3>1. CASE i \in 1..n
      BY <1>2, <1>4, <1>5, <2>1, <3>1 DEF IInv, OrderInv
    <3>2. CASE i = n + 1
      BY <1>4, <1>5, <3>2
    <3> QED
      BY <1>5, <3>1, <3>2
  <2>3. ASSUME NEW i \in DOMAIN stdin', NEW j \in DOMAIN stdin', i < j,
               stdin'[i].id # 0, stdin'[j].id # 0
        PROVE  stdin'[i].id < stdin'[j].id
    <3>1. i \in 1..n
      BY <1>5, <2>3
    <3>2. CASE j \in 1..n
      BY <1>5, <2>3, <3>1, <3>2 DEF IInv, OrderInv
    <3>3. CASE j = n + 1
      BY <1>2, <1>4, <1>5, <2>1, <2>3, <3>1, <3>3
    <3> QED
      BY <1>5, <3>2, <3>3
  <2>4. ASSUME call # Idle
        PROVE  /\ call.id <= asked'
               /\ \A i \in DOMAIN stdin' : stdin'[i].id # 0 => call.id < stdin'[i].id
    <3>1. call.id \in Nat /\ call.id <= asked
      BY <2>4 DEF IInv, TypeOK, Running, OrderInv
    <3>2. ASSUME NEW i \in DOMAIN stdin', stdin'[i].id # 0
          PROVE  call.id < stdin'[i].id
      <4>1. CASE i \in 1..n
        BY <1>5, <2>4, <3>2, <4>1 DEF IInv, OrderInv
      <4>2. CASE i = n + 1
        BY <1>2, <1>4, <1>5, <3>1, <3>2, <4>2
      <4> QED
        BY <1>5, <4>1, <4>2
    <3> QED
      BY <1>2, <1>4, <3>1, <3>2
  <2> QED
    BY <2>2, <2>3, <2>4 DEF OrderInv, Send
<1>8. LineInv'
  <2>1. line.method = s.method /\ line.params = s.params
    BY DEF line
  <2> QED
    BY <1>1, <1>5, <2>1 DEF IInv, LineInv
<1>9. CallInv' /\ AdvertisedWorks'
  BY DEF IInv, CallInv, Fair, AdvertisedWorks, Follows, Tools, Send
<1> QED
  BY <1>6, <1>7, <1>8, <1>9 DEF IInv

\* The first line is gone.
LEMMA TailIs ==
    ASSUME TypeOK, stdin # <<>>
    PROVE  /\ Head(stdin) \in Line /\ Head(stdin) = stdin[1] /\ 1 \in DOMAIN stdin
           /\ Tail(stdin) \in Seq(Line)
           /\ \A i \in DOMAIN Tail(stdin) : i + 1 \in DOMAIN stdin /\ Tail(stdin)[i] = stdin[i + 1]
           /\ \A i \in DOMAIN stdin : i # 1 => i - 1 \in DOMAIN Tail(stdin)
  BY DEF TypeOK

\* What is left of the pipe is in order, after whatever came first.
LEMMA TailInv ==
    ASSUME IInv, stdin # <<>>, stdin' = Tail(stdin), asked' = asked,
           call' = Idle \/ call'.id = Head(stdin).id
    PROVE  OrderInv' /\ LineInv'
<1>1. TypeOK /\ OrderInv /\ LineInv
  BY DEF IInv
<1>2. LineInv'
  BY <1>1, TailIs DEF LineInv
<1>3. /\ \A i \in DOMAIN stdin' : stdin'[i].id <= asked' /\ (stdin'[i].id # 0 => Waits(stdin'[i].method))
      /\ \A i, j \in DOMAIN stdin' :
            i < j /\ stdin'[i].id # 0 /\ stdin'[j].id # 0 => stdin'[i].id < stdin'[j].id
  <2>1. ASSUME NEW i \in DOMAIN stdin', NEW j \in DOMAIN stdin', i < j
        PROVE  i + 1 < j + 1
    BY <1>1, <2>1, TailIs
  <2> QED
    BY <1>1, <2>1, TailIs DEF OrderInv
<1>4. ASSUME call' # Idle
      PROVE  /\ call'.id <= asked'
             /\ \A i \in DOMAIN stdin' : stdin'[i].id # 0 => call'.id < stdin'[i].id
  <2>1. call'.id = stdin[1].id /\ stdin[1].id <= asked /\ 1 \in DOMAIN stdin
    BY <1>1, <1>4, TailIs DEF OrderInv
  <2>2. ASSUME NEW i \in DOMAIN stdin', stdin'[i].id # 0
        PROVE  stdin[1].id < stdin'[i].id
    <3>1. i + 1 \in DOMAIN stdin /\ stdin'[i] = stdin[i + 1] /\ i \in Nat /\ 1 < i + 1
      BY <1>1, TailIs DEF TypeOK
    <3>2. stdin[1].id \in Nat /\ stdin[i + 1].id \in Nat
      BY <1>1, <2>1, <3>1, LineType
    <3> QED
      BY <1>1, <2>1, <2>2, <3>1, <3>2 DEF OrderInv
  <2> QED
    BY <2>1, <2>2
<1> QED
  BY <1>2, <1>3, <1>4 DEF OrderInv
LEMMA SkipInv == IInv /\ Skip => IInv'
<1> SUFFICES ASSUME IInv, Skip PROVE IInv'
  OBVIOUS
<1>1. TypeOK'
  BY TailIs DEF IInv, TypeOK, Skip, Waiting
<1>2. OrderInv' /\ LineInv'
  BY TailInv DEF Skip, Waiting
<1>3. CallInv' /\ AdvertisedWorks'
  BY DEF IInv, CallInv, Fair, AdvertisedWorks, Follows, Tools, Skip
<1> QED
  BY <1>1, <1>2, <1>3 DEF IInv

\* The process is new, or the pipe is.
LEMMA Anew ==
    ASSUME IInv, stdin' = <<>>, call' = Idle, UNCHANGED <<server, stdout, asked, sent>>,
           died' \in Nat, killed' \in 0..MaxKills
    PROVE  IInv'
<1>1. TypeOK'
  <2>1. stdin' \in Seq(Line)
    OBVIOUS
  <2> QED
    BY <2>1 DEF IInv, TypeOK
<1>2. OrderInv' /\ LineInv' /\ CallInv'
  BY DEF OrderInv, LineInv, CallInv
<1>3. AdvertisedWorks'
  BY DEF IInv, AdvertisedWorks, Follows, Tools
<1> QED
  BY <1>1, <1>2, <1>3 DEF IInv

LEMMA DieInv == IInv /\ Die => IInv'
<1> SUFFICES ASSUME IInv, Die PROVE IInv'
  OBVIOUS
<1>1. died' \in Nat /\ killed' \in 0..MaxKills /\ call' = Idle
  BY DEF IInv, TypeOK, Die, Waiting
<1> QED
  BY <1>1, Anew DEF Die

LEMMA KillInv == IInv /\ Kill => IInv'
<1> SUFFICES ASSUME IInv, Kill PROVE IInv'
  OBVIOUS
<1>1. died' \in Nat /\ killed' \in 0..MaxKills
  BY ShapeAssumption DEF IInv, TypeOK, Kill
<1> QED
  BY <1>1, Anew DEF Kill

\* A line that is fair to agents goes out.
LEMMA WriteInv ==
    ASSUME TypeOK, AdvertisedWorks, server' = server,
           NEW id \in Nat, NEW params \in Call, NEW kind \in Kinds, NEW met \in Met,
           Fair(params, kind, met), Write(id, params, kind, met)
    PROVE  stdout' \in Seq(Answer) /\ AdvertisedWorks'
<1> DEFINE a == [id |-> id, params |-> params, kind |-> kind, met |-> met]
           n == Len(stdout)
<1>1. a \in Answer /\ a.params = params /\ a.kind = kind /\ a.met = met
  BY DEF Answer
<1>2. stdout' = Append(stdout, a) /\ stdout \in Seq(Answer)
  BY DEF Write, TypeOK
<1> HIDE DEF a
<1>3. /\ stdout' \in Seq(Answer) /\ DOMAIN stdout' = 1..n + 1 /\ DOMAIN stdout = 1..n /\ n \in Nat
      /\ \A i \in 1..n : stdout'[i] = stdout[i]
      /\ stdout'[n + 1] = a
  BY <1>1, <1>2
<1> HIDE DEF n
<1>4. AdvertisedWorks'
  <2> SUFFICES ASSUME NEW i \in DOMAIN stdout'
               PROVE  Fair(stdout'[i].params, stdout'[i].kind, stdout'[i].met)
    BY DEF AdvertisedWorks, Fair, Follows, Tools
  <2>1. CASE i \in 1..n
    BY <1>3, <2>1 DEF AdvertisedWorks, Fair
  <2>2. CASE i = n + 1
    BY <1>1, <1>3, <2>2
  <2> QED
    BY <1>3, <2>1, <2>2
<1> QED
  BY <1>3, <1>4

LEMMA RespondInv == IInv /\ Respond => IInv'
<1> SUFFICES ASSUME IInv, Respond PROVE IInv'
  OBVIOUS
<1> DEFINE line == Head(stdin)
<1>0. TypeOK /\ stdin # <<>> /\ call = Idle
  BY DEF IInv, Respond, Waiting
<1>1. line \in Line /\ line.id \in Nat /\ line.params \in Call /\ stdin' \in Seq(Line)
  BY <1>0, TailIs DEF Respond, Line
<1>2. Reply(line) \in Kinds
  BY <1>1, ReplyType DEF Respond
<1>3. ~Follows(line.params)
  <2>1. line.method # "tools/call" => line.params.tool \in {"none", "odd"}
    BY <1>0, TailIs DEF IInv, LineInv
  <2>2. {"none", "odd"} \cap DOMAIN Handlers(server) = {}
    BY WikiNames, PlatformNames DEF Handlers
  <2> QED
    BY <2>1, <2>2, Agree DEF Follows, Respond, Runs
<1>4. stdout' \in Seq(Answer) /\ AdvertisedWorks'
  <2>1. Fair(line.params, Reply(line), {})
    BY <1>3 DEF Fair
  <2>2. Write(line.id, line.params, Reply(line), {}) /\ server' = server
    BY DEF Respond
  <2>3. AdvertisedWorks
    BY DEF IInv
  <2> HIDE DEF line
  <2> QED
    BY <1>0, <1>1, <1>2, <2>1, <2>2, <2>3, WriteInv DEF Met
<1>5. TypeOK'
  BY <1>0, <1>1, <1>4 DEF TypeOK, Respond
<1>6. OrderInv' /\ LineInv'
  BY <1>0, TailInv DEF Respond
<1>7. CallInv'
  BY <1>0 DEF CallInv, Respond
<1> QED
  BY <1>4, <1>5, <1>6, <1>7 DEF IInv

LEMMA BeginInv == IInv /\ Begin => IInv' /\ call' \in Running
<1> SUFFICES ASSUME IInv, Begin PROVE IInv' /\ call' \in Running
  OBVIOUS
<1> DEFINE line == Head(stdin)
           c == line.params
<1>0. TypeOK /\ stdin # <<>> /\ call = Idle
  BY DEF IInv, Begin, Waiting
<1>1. line.id \in Nat /\ c \in Call /\ stdin' \in Seq(Line)
  BY <1>0, TailIs DEF Begin, Line
<1>2. call' = [id |-> line.id, params |-> c, gets |-> Gets(c), kind |-> Outset(c), met |-> {}]
  BY DEF Begin
<1> HIDE DEF line, c
<1>3. /\ call' \in Running /\ call'.id = line.id /\ call'.params = c /\ call'.gets = Gets(c)
      /\ call'.kind = Outset(c) /\ call'.met = {}
  BY <1>1, <1>2, OutsetType, GetsType DEF Running, Kinds, Met
<1>4. TypeOK'
  BY <1>0, <1>1, <1>3, GetsType DEF TypeOK, Begin
<1>5. OrderInv' /\ LineInv'
  BY <1>0, <1>3, TailInv DEF Begin, line
<1>6. CallInv'
  <2>1. Fair(c, Outset(c), {})
    BY <1>1, OutsetType DEF Fair, Follows
  <2> QED
    BY <1>1, <1>3, <2>1, GetsType DEF CallInv, Fair, Follows, Tools, Begin
<1>7. AdvertisedWorks'
  BY DEF IInv, AdvertisedWorks, Follows, Tools, Begin
<1> QED
  BY <1>3, <1>4, <1>5, <1>6, <1>7 DEF IInv
LEMMA GetInv == ASSUME IInv, NEW o \in Outcomes, Get(o) PROVE IInv' /\ call' \in Running
<1> DEFINE c == call.params
           get == Head(call.gets)
<1>0. TypeOK /\ call # Idle /\ call.gets # <<>> /\ CallInv
  BY DEF IInv, Get
<1>1. /\ call \in Running /\ c \in Call /\ call.gets \in Seq(Urls) /\ call.met \in Met
      /\ call.kind = "ok" /\ get \in Urls /\ get = call.gets[1] /\ 1 \in DOMAIN call.gets
  BY <1>0 DEF TypeOK, Running
<1>2. PICK k \in Verdicts(c, get, o), several \in Wikis(get) :
        \E next \in IF k # "ok" THEN {<<k, <<>>>>}
                     ELSE IF get = "manifest" THEN Resolved(c, several)
                     ELSE {<<"ok", Tail(call.gets)>>} :
           call' = [call EXCEPT !.kind = next[1], !.gets = next[2], !.met = Meets(@, o, several)]
  BY DEF Get
<1>3. PICK next \in IF k # "ok" THEN {<<k, <<>>>>}
                     ELSE IF get = "manifest" THEN Resolved(c, several)
                     ELSE {<<"ok", Tail(call.gets)>>} :
           call' = [call EXCEPT !.kind = next[1], !.gets = next[2], !.met = Meets(@, o, several)]
  BY <1>2
<1>4. k \in {"ok", "isError", "badargs"} /\ (o = "ok" => k = "ok")
  BY <1>1, VerdictsAre
\* What comes next, whichever way.
<1>5. /\ next[1] \in {"ok", "isError", "badargs"} /\ next[2] \in Seq(Urls)
      /\ next[2] # <<>> => next[1] = "ok"
      /\ o = "ok" /\ c.value # "odd" => next[1] # "badargs"
      /\ o = "ok" /\ c.value = "known" =>
            next[1] = "ok" \/ (c.tool = "wiki_read" /\ "repo" \notin c.names /\ several)
      /\ next[1] = "badargs" /\ c.value # "odd" => o # "ok"
      /\ \A i \in DOMAIN next[2] :
            next[2][i] \in {"manifest", "page"} => c.tool \in DOMAIN WikiHandlers
  <2>1. CASE k # "ok"
    <3>1. next[1] = k /\ next[2] = <<>>
      BY <1>3, <2>1
    <3> QED
      BY <1>4, <2>1, <3>1
  <2>2. CASE k = "ok" /\ get = "manifest"
    <3>1. c.tool \in DOMAIN WikiHandlers
      BY <1>0, <1>1, <2>2 DEF CallInv
    <3>2. next \in Resolved(c, several)
      BY <1>3, <2>2
    <3> QED
      <4>1. several \in BOOLEAN
        BY <1>2 DEF Wikis
      <4> QED
        BY <1>1, <3>1, <3>2, <4>1, ResolvedIs
  <2>3. CASE k = "ok" /\ get # "manifest"
    <3>1. next[1] = "ok" /\ next[2] = Tail(call.gets)
      BY <1>3, <2>3
    <3>2. Tail(call.gets) \in Seq(Urls)
          /\ \A i \in DOMAIN Tail(call.gets) :
                i + 1 \in DOMAIN call.gets /\ Tail(call.gets)[i] = call.gets[i + 1]
      BY <1>0, <1>1
    <3> QED
      BY <1>0, <3>1, <3>2 DEF CallInv
  <2> QED
    BY <2>1, <2>2, <2>3
<1> HIDE DEF c, get
<1>6. /\ call'.id = call.id /\ call'.params = call.params /\ call'.kind = next[1]
      /\ call'.gets = next[2] /\ call'.met = Meets(call.met, o, several) /\ call' \in Running
  <2>1. Meets(call.met, o, several) \in Met
    BY <1>1 DEF Meets, Met
  <2>2. next[1] \in Kinds
    BY <1>5 DEF Kinds
  <2> QED
    BY <1>1, <1>3, <1>5, <2>1, <2>2 DEF Running
<1>7. TypeOK'
  BY <1>0, <1>5, <1>6 DEF TypeOK, Get
<1>8. OrderInv' /\ LineInv'
  <2>1. call' # Idle
    BY <1>6, IdleAssumption
  <2> QED
    BY <1>0, <1>6, <2>1 DEF IInv, OrderInv, LineInv, Get
<1>9. CallInv'
  <2>1. Fair(call.params, call.kind, call.met)
    BY <1>0 DEF CallInv
  <2>2. Follows(call.params)' => Follows(call.params) /\ call.params.value # "odd"
    BY <1>6 DEF Follows, Tools, Get
  <2>3. Fair(call.params, call.kind, call.met)'
    <3>1. "fault" \notin call'.met <=> "fault" \notin call.met /\ o = "ok"
      BY <1>6 DEF Meets
    <3>2. NamesRepo(c, call'.met) =>
              NamesRepo(c, call.met) /\ ~(c.tool = "wiki_read" /\ "repo" \notin c.names /\ several)
      BY <1>6 DEF Meets, NamesRepo
    <3>3. NamesRepo(call.params, call.met)' => NamesRepo(c, call'.met)
      BY <1>6 DEF NamesRepo, c
    <3> QED
      BY <1>1, <1>5, <1>6, <2>1, <2>2, <3>1, <3>2, <3>3 DEF Fair, c
  <2> QED
    BY <1>5, <1>6, <2>3 DEF CallInv, c
<1>10. AdvertisedWorks'
  BY DEF IInv, AdvertisedWorks, Follows, Tools, Get
<1> QED
  BY <1>6, <1>7, <1>8, <1>9, <1>10 DEF IInv

LEMMA FinishInv == IInv /\ Finish => IInv'
<1> SUFFICES ASSUME IInv, Finish PROVE IInv'
  OBVIOUS
<1>1. TypeOK /\ call \in Running /\ AdvertisedWorks /\ server' = server
  BY DEF IInv, TypeOK, Finish
<1>2. call.id \in Nat /\ call.params \in Call /\ call.kind \in Kinds /\ call.met \in Met
  BY <1>1 DEF Running
<1>3. Fair(call.params, call.kind, call.met)
      /\ Write(call.id, call.params, call.kind, call.met)
  BY DEF IInv, CallInv, Finish
<1>4. stdout' \in Seq(Answer) /\ AdvertisedWorks'
  BY <1>1, <1>2, <1>3, WriteInv
<1>5. TypeOK'
  BY <1>1, <1>4 DEF TypeOK, Finish
<1>6. OrderInv' /\ LineInv' /\ CallInv'
  BY DEF IInv, OrderInv, LineInv, CallInv, Finish
<1> QED
  BY <1>4, <1>5, <1>6 DEF IInv

LEMMA NextInv == IInv /\ [Next]_vars => IInv'
<1> SUFFICES ASSUME IInv, [Next]_vars PROVE IInv'
  OBVIOUS
<1>1. CASE Serve
  BY <1>1, SkipInv, DieInv, RespondInv, BeginInv, FinishInv, GetInv DEF Serve
<1>2. CASE Kill
  BY <1>2, KillInv
<1>3. CASE \E s \in Shapes : Send(s)
  BY <1>3, SendInv
<1>4. CASE UNCHANGED vars
  <2>1. TypeOK' /\ OrderInv' /\ LineInv'
    BY <1>4 DEF IInv, TypeOK, OrderInv, LineInv, vars
  <2>2. CallInv' /\ AdvertisedWorks'
    BY <1>4 DEF IInv, CallInv, Fair, AdvertisedWorks, Follows, Tools, vars
  <2> QED
    BY <2>1, <2>2 DEF IInv
<1> QED
  BY <1>1, <1>2, <1>3, <1>4 DEF Next

LEMMA Inductive == Spec => []IInv
<1>1. Init => IInv
  BY InitInv
<1>2. IInv /\ [Next]_vars => IInv'
  BY NextInv
<1> QED
  BY <1>1, <1>2, PTL DEF Spec
-----------------------------------------------------------------------------
(* Steps of the service.                                                    *)

Told == [i \in DOMAIN stdout |-> stdout[i].id]
ServiceStep == [Service!Next]_(Service!vars)

\* Owed, apart: in the pipe, and in hand.
LEMMA OwedIs ==
    ASSUME NEW n
    PROVE  n \in Owed <=> \/ \E i \in DOMAIN stdin : stdin[i].id # 0 /\ stdin[i].id = n
                          \/ call # Idle /\ call.id # 0 /\ call.id = n
  BY DEF Owed

LEMMA OwedNext ==
    ASSUME NEW n
    PROVE  n \in Owed' <=> \/ \E i \in DOMAIN stdin' : stdin'[i].id # 0 /\ stdin'[i].id = n
                           \/ call' # Idle /\ call'.id # 0 /\ call'.id = n
  BY DEF Owed

LEMMA OwedSame ==
    ASSUME \A n : n \in Owed <=> n \in Owed', UNCHANGED <<asked, stdout>>
    PROVE  ServiceStep
<1>1. Owed' = Owed
  OBVIOUS
<1> QED
  BY <1>1 DEF ServiceStep, Service!vars

\* One more id was told.
LEMMA ToldGrows ==
    ASSUME TypeOK, NEW id \in Nat, NEW params, NEW kind, NEW met, Write(id, params, kind, met)
    PROVE  Told' = Append(Told, id)
<1> DEFINE a == [id |-> id, params |-> params, kind |-> kind, met |-> met]
           n == Len(stdout)
<1>1. stdout' = Append(stdout, a) /\ a.id = id /\ stdout \in Seq(Answer)
  BY DEF Write, TypeOK
<1>2. n \in Nat /\ DOMAIN stdout = 1..n /\ DOMAIN stdout' = 1..n + 1
      /\ (\A i \in 1..n : stdout'[i] = stdout[i] /\ stdout[i].id \in Nat) /\ stdout'[n + 1].id = id
  <2> HIDE DEF a
  <2>1. n \in Nat /\ DOMAIN stdout = 1..n /\ \A i \in 1..n : stdout[i] \in Answer
    BY <1>1
  <2>2. DOMAIN stdout' = 1..n + 1 /\ (\A i \in 1..n : stdout'[i] = stdout[i]) /\ stdout'[n + 1] = a
    BY <1>1
  <2> QED
    BY <1>1, <2>1, <2>2 DEF Answer
<1> HIDE DEF n, a
<1>3. Told \in Seq(Nat) /\ Len(Told) = n /\ \A i \in 1..n : Told[i] = stdout[i].id
  BY <1>2 DEF Told
<1>4. /\ Append(Told, id) \in Seq(Nat) /\ Len(Append(Told, id)) = n + 1
      /\ \A i \in 1..n : Append(Told, id)[i] = stdout[i].id
      /\ Append(Told, id)[n + 1] = id
  BY <1>2, <1>3
<1>5. Told' \in Seq(Nat) /\ Len(Told') = n + 1 /\ \A i \in 1..n + 1 : Told'[i] = stdout'[i].id
  BY <1>2 DEF Told
<1>6. ASSUME NEW i \in 1..n + 1
      PROVE  Told'[i] = Append(Told, id)[i]
  BY <1>2, <1>4, <1>5
<1> QED
  BY <1>4, <1>5, <1>6, SeqEqual

\* The answer goes to the one who waited longest, or to nobody.
LEMMA Answered ==
    ASSUME TypeOK, NEW id \in Nat, NEW params, NEW kind, NEW met, Write(id, params, kind, met),
           asked' = asked, \A n \in Owed : id # 0 => id <= n,
           id # 0 => id \in Owed,
           \A n : n \in Owed' <=> n \in Owed /\ n # id,
           0 \notin Owed
    PROVE  ServiceStep
<1>1. Told' = Append(Told, id)
  BY ToldGrows
<1>2. CASE id = 0
  <2>1. Owed' = Owed
    BY <1>2
  <2>2. Service!Aside
    BY <1>1, <1>2, <2>1 DEF Service!Aside, Service!Nobody, Told
  <2> QED
    BY <2>2 DEF ServiceStep, Service!Next
<1>3. CASE id # 0
  <2>1. Owed' = Owed \ {id}
    OBVIOUS
  <2>2. Service!Answer
    BY <1>1, <1>3, <2>1 DEF Service!Answer, Told
  <2> QED
    BY <2>2 DEF ServiceStep, Service!Next
<1> QED
  BY <1>2, <1>3
\* Of the first line and the rest of the pipe, when nothing is in hand.
LEMMA OwedFirst ==
    ASSUME IInv, Waiting, NEW n
    PROVE  n \in Owed <=> \/ Head(stdin).id # 0 /\ Head(stdin).id = n
                          \/ \E i \in DOMAIN Tail(stdin) : Tail(stdin)[i].id # 0 /\ Tail(stdin)[i].id = n
<1>1. TypeOK /\ stdin # <<>> /\ call = Idle
  BY DEF IInv, Waiting
<1>2. ASSUME NEW i \in DOMAIN stdin, i # 1
      PROVE  i - 1 \in DOMAIN Tail(stdin) /\ Tail(stdin)[i - 1] = stdin[i]
  BY <1>1, <1>2 DEF TypeOK
<1> QED
  BY <1>1, <1>2, OwedIs, TailIs

\* The first line's id is below those of the rest.
LEMMA FirstIsLeast ==
    ASSUME IInv, Waiting, NEW i \in DOMAIN Tail(stdin), Tail(stdin)[i].id # 0, Head(stdin).id # 0
    PROVE  Head(stdin).id < Tail(stdin)[i].id
<1>1. TypeOK /\ stdin # <<>>
  BY DEF IInv, Waiting
<1>2. i + 1 \in DOMAIN stdin /\ Tail(stdin)[i] = stdin[i + 1] /\ 1 < i + 1 /\ 1 \in DOMAIN stdin
  BY <1>1, TailIs DEF TypeOK
<1> QED
  BY <1>1, <1>2, TailIs DEF IInv, OrderInv

LEMMA SendStep == ASSUME IInv, NEW s \in Shapes, Send(s) PROVE ServiceStep
<1> DEFINE waits == s.ids /\ Waits(s.method)
           line == [id |-> IF waits THEN asked + 1 ELSE 0, method |-> s.method, params |-> s.params]
           n == Len(stdin)
<1>1. /\ asked \in Nat /\ stdin \in Seq(Line) /\ stdin' = Append(stdin, line) /\ line \in Line
      /\ line.id = IF waits THEN asked + 1 ELSE 0
  BY ShapeAssumption DEF IInv, TypeOK, Send, Line
<1> HIDE DEF line
<1>2. /\ DOMAIN stdin' = 1..n + 1 /\ DOMAIN stdin = 1..n /\ n \in Nat
      /\ \A i \in 1..n : stdin'[i] = stdin[i]
      /\ stdin'[n + 1] = line
  BY <1>1
<1> HIDE DEF n
<1>3. call' = call /\ stdout' = stdout
  BY DEF Send
<1>4. ASSUME NEW m
      PROVE  m \in Owed' <=> m \in Owed \/ (line.id # 0 /\ line.id = m)
  BY <1>2, <1>3, OwedIs, OwedNext
<1>5. CASE waits
  <2>1. line.id = asked + 1 /\ line.id # 0 /\ asked' = asked + 1
    BY <1>1, <1>5 DEF Send
  <2>2. Owed' = Owed \union {asked + 1}
    BY <1>4, <2>1
  <2>3. Service!Ask
    BY <1>3, <2>1, <2>2 DEF Service!Ask
  <2> QED
    BY <2>3 DEF ServiceStep, Service!Next
<1>6. CASE ~waits
  <2>1. line.id = 0 /\ asked' = asked
    BY <1>1, <1>6 DEF Send
  <2> QED
    BY <1>3, <1>4, <2>1, OwedSame
<1> QED
  BY <1>5, <1>6

LEMMA SkipStep == IInv /\ Skip => ServiceStep
<1> SUFFICES ASSUME IInv, Skip PROVE ServiceStep
  OBVIOUS
<1>1. Waiting /\ TypeOK /\ stdin # <<>>
  BY DEF IInv, Skip, Waiting
<1>2. Head(stdin).id = 0
  BY <1>1, TailIs DEF IInv, OrderInv, Skip, Silent, Waits
<1>3. stdin' = Tail(stdin) /\ call' = Idle
  BY DEF Skip, Waiting
<1>4. ASSUME NEW n PROVE n \in Owed <=> n \in Owed'
  BY <1>1, <1>2, <1>3, OwedFirst, OwedNext
<1> QED
  BY <1>4, OwedSame DEF Skip

LEMMA BreakStep ==
    ASSUME stdin' = <<>>, call' = Idle, UNCHANGED <<asked, stdout>>
    PROVE  ServiceStep
<1>1. Owed' = {}
  BY DEF Owed
<1>2. Service!Break
  BY <1>1 DEF Service!Break
<1> QED
  BY <1>2 DEF ServiceStep, Service!Next

LEMMA RespondStep == IInv /\ Respond => ServiceStep
<1> SUFFICES ASSUME IInv, Respond PROVE ServiceStep
  OBVIOUS
<1> DEFINE line == Head(stdin)
<1>1. Waiting /\ TypeOK /\ stdin # <<>>
  BY DEF IInv, Respond, Waiting
<1>2. line.id \in Nat
  BY <1>1, TailIs DEF Line
<1>3. stdin' = Tail(stdin) /\ call' = Idle /\ asked' = asked
  BY DEF Respond, Waiting
<1>4. \A n : n \in Owed' <=> n \in Owed /\ n # line.id
  <2> TAKE n
  <2>1. ASSUME NEW i \in DOMAIN Tail(stdin), Tail(stdin)[i].id # 0
        PROVE  Tail(stdin)[i].id # line.id
    <3>1. Tail(stdin)[i].id \in Nat
      BY <1>1, LineType, TailIs
    <3> QED
      BY <1>1, <1>2, <2>1, <3>1, FirstIsLeast
  <2> HIDE DEF line
  <2>2. n \in Owed' <=> \E i \in DOMAIN Tail(stdin) : Tail(stdin)[i].id # 0 /\ Tail(stdin)[i].id = n
    BY <1>3, OwedNext
  <2>3. n \in Owed <=> \/ line.id # 0 /\ line.id = n
                       \/ \E i \in DOMAIN Tail(stdin) : Tail(stdin)[i].id # 0 /\ Tail(stdin)[i].id = n
    BY <1>1, OwedFirst DEF line
  <2>4. n \in Owed => n # 0
    BY <2>3
  <2> QED
    BY <2>1, <2>2, <2>3, <2>4
<1>5. 0 \notin Owed /\ (line.id # 0 => line.id \in Owed)
  BY <1>1, OwedIs, OwedFirst
<1>6. \A n \in Owed : line.id # 0 => line.id <= n
  <2> SUFFICES ASSUME NEW n \in Owed, line.id # 0 PROVE line.id <= n
    OBVIOUS
  <2>1. CASE n = line.id
    BY <1>2, <2>1
  <2>2. CASE n # line.id
    <3>1. PICK i \in DOMAIN Tail(stdin) : Tail(stdin)[i].id # 0 /\ Tail(stdin)[i].id = n
      BY <1>1, <2>2, OwedFirst
    <3>2. n \in Nat
      BY <1>1, <3>1, LineType, TailIs
    <3> QED
      BY <1>1, <1>2, <3>1, <3>2, FirstIsLeast
  <2> QED
    BY <2>1, <2>2
<1>7. Write(line.id, line.params, Reply(line), {})
  BY DEF Respond
<1> HIDE DEF line
<1> QED
  BY <1>1, <1>2, <1>3, <1>4, <1>5, <1>6, <1>7, Answered

LEMMA BeginStep == IInv /\ Begin => ServiceStep
<1> SUFFICES ASSUME IInv, Begin PROVE ServiceStep
  OBVIOUS
<1>1. Waiting /\ stdin' = Tail(stdin) /\ call'.id = Head(stdin).id
  BY DEF Begin
<1>2. call' # Idle
  BY BeginInv, IdleAssumption
<1>3. ASSUME NEW n PROVE n \in Owed <=> n \in Owed'
  BY <1>1, <1>2, OwedFirst, OwedNext
<1> QED
  BY <1>3, OwedSame DEF Begin

LEMMA FinishStep == IInv /\ Finish => ServiceStep
<1> SUFFICES ASSUME IInv, Finish PROVE ServiceStep
  OBVIOUS
<1>1. TypeOK /\ OrderInv /\ call # Idle /\ call.id \in Nat
  BY DEF IInv, TypeOK, Finish, Running
<1>2. call' = Idle /\ stdin' = stdin /\ asked' = asked
  BY DEF Finish
<1>3. ASSUME NEW i \in DOMAIN stdin, stdin[i].id # 0
      PROVE  call.id < stdin[i].id /\ stdin[i].id \in Nat
  BY <1>1, <1>3, LineType DEF OrderInv
<1>4. \A n : n \in Owed' <=> n \in Owed /\ n # call.id
  BY <1>1, <1>2, <1>3, OwedIs, OwedNext
<1>5. 0 \notin Owed /\ (call.id # 0 => call.id \in Owed)
  BY <1>1, OwedIs
<1>6. \A n \in Owed : call.id # 0 => call.id <= n
  BY <1>1, <1>3, OwedIs
<1>7. Write(call.id, call.params, call.kind, call.met)
  BY DEF Finish
<1> QED
  BY <1>1, <1>2, <1>4, <1>5, <1>6, <1>7, Answered

LEMMA GetStep == ASSUME IInv, NEW o \in Outcomes, Get(o) PROVE ServiceStep
<1>1. call # Idle /\ call'.id = call.id /\ stdin' = stdin
  BY DEF IInv, TypeOK, Running, Get
<1>2. call' # Idle
  BY GetInv, IdleAssumption
<1>3. ASSUME NEW n PROVE n \in Owed <=> n \in Owed'
  BY <1>1, <1>2, OwedIs, OwedNext
<1> QED
  BY <1>3, OwedSame DEF Get
-----------------------------------------------------------------------------
(* The theorems.                                                            *)

\* The variables keep their types, and a call goes on to a GET only while all is well.
THEOREM TypeCorrect == Spec => []TypeOK
<1>1. IInv => TypeOK
  BY DEF IInv
<1> QED
  BY <1>1, Inductive, PTL

\* Whatever lines come in: a call that follows tools/list, and gives wiki_read the repository
\* if there is not just one wiki, gets through (TOOLS, HANDLERS and the functions of both
\* servers agree, and GETs that go wrong do not pass for bad arguments unless their body is of
\* another shape).
THEOREM Advertised == Spec => []AdvertisedWorks
<1>1. IInv => AdvertisedWorks
  BY DEF IInv
<1> QED
  BY <1>1, Inductive, PTL

\* Whatever lines come in: what the loop does is what the service may do.  Requests are
\* answered at most once, in the order they were made, nobody else is answered, and none is
\* dropped unless the session breaks (platform_mcp.py:800-818, wiki_mcp.py:288-306).
THEOREM ServesInOrder == Spec => Service!Init /\ [][Service!Next]_(Service!vars)
<1>1. Init => Service!Init
  <2> SUFFICES ASSUME Init PROVE Service!Init
    OBVIOUS
  <2>1. Owed = {}
    BY DEF Init, Owed
  <2>2. Told = <<>>
    BY DEF Init, Told
  <2> QED
    BY <2>1, <2>2 DEF Init, Service!Init, Told
<1>2. IInv /\ [Next]_vars => [Service!Next]_(Service!vars)
  <2> SUFFICES ASSUME IInv, [Next]_vars PROVE ServiceStep
    BY DEF ServiceStep
  <2>1. CASE Serve
    <3>1. Die => ServiceStep
      BY BreakStep DEF Die, Waiting
    <3> QED
      BY <2>1, <3>1, SkipStep, RespondStep, BeginStep, FinishStep, GetStep DEF Serve
  <2>2. CASE Kill
    BY <2>2, BreakStep DEF Kill
  <2>3. CASE \E s \in Shapes : Send(s)
    BY <2>3, SendStep
  <2>4. CASE UNCHANGED vars
    <3>1. Owed' = Owed /\ UNCHANGED <<asked, stdout>>
      BY <2>4 DEF vars, Owed
    <3> QED
      BY <3>1 DEF ServiceStep, Service!vars
  <2> QED
    BY <2>1, <2>2, <2>3, <2>4 DEF Next
<1> QED
  BY <1>1, <1>2, Inductive, PTL DEF Spec
-----------------------------------------------------------------------------
(* Whom a line answers.                                                     *)

\* Requests are answered in their order, and nobody who waits comes before one who does not.
AnsweredInOrder ==
    /\ \A i \in DOMAIN stdout : stdout[i].id <= asked
    /\ \A i, j \in DOMAIN stdout :
          i < j /\ stdout[i].id # 0 /\ stdout[j].id # 0 => stdout[i].id < stdout[j].id
    /\ \A i \in DOMAIN stdout : \A n \in Owed : stdout[i].id < n

LEMMA OwedType ==
    ASSUME IInv, NEW n \in Owed
    PROVE  n \in Nat /\ n # 0 /\ n <= asked
<1>1. TypeOK /\ OrderInv
  BY DEF IInv
<1>2. CASE \E i \in DOMAIN stdin : stdin[i].id # 0 /\ stdin[i].id = n
  BY <1>1, <1>2, LineType DEF OrderInv
<1>3. CASE call # Idle /\ call.id # 0 /\ call.id = n
  BY <1>1, <1>3 DEF TypeOK, OrderInv, Running
<1> QED
  BY <1>2, <1>3, OwedIs

LEMMA ToldType ==
    ASSUME TypeOK, NEW i \in DOMAIN stdout
    PROVE  stdout[i].id \in Nat
<1>1. stdout[i] \in Answer
  BY DEF TypeOK
<1> QED
  BY <1>1 DEF Answer

\* Nothing goes out, and nobody is owed who was not, but one who asks now.
LEMMA OrderSilent ==
    ASSUME IInv, AnsweredInOrder, stdout' = stdout, asked' \in Nat, asked <= asked',
           \A n \in Owed' : n \in Owed \/ n = asked + 1
    PROVE  AnsweredInOrder'
<1>1. TypeOK /\ asked \in Nat
  BY DEF IInv, TypeOK
<1>2. \A i \in DOMAIN stdout : stdout[i].id \in Nat /\ stdout[i].id <= asked
  BY <1>1, ToldType DEF AnsweredInOrder
<1>3. \A i \in DOMAIN stdout : \A n \in Owed' : stdout[i].id < n
  BY <1>1, <1>2, OwedType DEF AnsweredInOrder
<1> QED
  BY <1>1, <1>2, <1>3 DEF AnsweredInOrder

\* The answer to the one who waited longest, or to nobody.
LEMMA OrderTold ==
    ASSUME IInv, AnsweredInOrder, asked' = asked,
           NEW id \in Nat, NEW params, NEW kind, NEW met, Write(id, params, kind, met),
           id # 0 => id \in Owed,
           \A n \in Owed' : n \in Owed /\ id < n
    PROVE  AnsweredInOrder'
<1> DEFINE a == [id |-> id, params |-> params, kind |-> kind, met |-> met]
           n == Len(stdout)
<1>1. stdout' = Append(stdout, a) /\ a.id = id /\ stdout \in Seq(Answer) /\ TypeOK /\ asked \in Nat
  BY DEF Write, IInv, TypeOK
<1> HIDE DEF a
<1>2. n \in Nat /\ DOMAIN stdout = 1..n /\ DOMAIN stdout' = 1..n + 1
      /\ (\A i \in 1..n : stdout'[i] = stdout[i]) /\ stdout'[n + 1].id = id
  BY <1>1
<1> HIDE DEF n
<1>3. \A i \in 1..n : stdout[i].id \in Nat /\ stdout[i].id <= asked /\ (id # 0 => stdout[i].id < id)
  BY <1>1, <1>2, ToldType DEF AnsweredInOrder
<1>4. id <= asked
  <2>1. CASE id = 0
    BY <1>1, <2>1
  <2>2. CASE id # 0
    BY <2>2, OwedType
  <2> QED
    BY <2>1, <2>2
<1>5. \A i \in DOMAIN stdout' : stdout'[i].id <= asked'
  BY <1>2, <1>3, <1>4
<1>6. ASSUME NEW i \in DOMAIN stdout', NEW j \in DOMAIN stdout',
             i < j, stdout'[i].id # 0, stdout'[j].id # 0
      PROVE  stdout'[i].id < stdout'[j].id
  <2>1. i \in 1..n
    BY <1>2, <1>6
  <2>2. CASE j \in 1..n
    BY <1>2, <1>6, <2>1, <2>2 DEF AnsweredInOrder
  <2>3. CASE j = n + 1
    BY <1>2, <1>3, <1>6, <2>1, <2>3
  <2> QED
    BY <1>2, <2>2, <2>3
<1>7. ASSUME NEW i \in DOMAIN stdout', NEW m \in Owed'
      PROVE  stdout'[i].id < m
  BY <1>2 DEF AnsweredInOrder
<1> QED
  BY <1>5, <1>6, <1>7 DEF AnsweredInOrder

LEMMA OrderStep == IInv /\ AnsweredInOrder /\ [Next]_vars => AnsweredInOrder'
<1> SUFFICES ASSUME IInv, AnsweredInOrder, [Next]_vars PROVE AnsweredInOrder'
  OBVIOUS
<1>0. TypeOK /\ OrderInv /\ asked \in Nat
  BY DEF IInv, TypeOK
<1>1. ASSUME NEW s \in Shapes, Send(s) PROVE AnsweredInOrder'
  <2> DEFINE line == [id |-> IF s.ids /\ Waits(s.method) THEN asked + 1 ELSE 0,
                      method |-> s.method, params |-> s.params]
  <2>1. /\ stdout' = stdout /\ call' = call /\ asked' \in Nat /\ asked <= asked'
        /\ stdin' = Append(stdin, line) /\ stdin \in Seq(Line) /\ (line.id = 0 \/ line.id = asked + 1)
    BY <1>0, <1>1 DEF Send, TypeOK
  <2> HIDE DEF line
  <2>2. \A i \in DOMAIN stdin' : (i \in DOMAIN stdin /\ stdin'[i] = stdin[i]) \/ stdin'[i] = line
    BY <2>1
  <2>3. \A n \in Owed' : n \in Owed \/ n = asked + 1
    BY <2>1, <2>2, OwedIs, OwedNext
  <2> QED
    BY <2>1, <2>3, OrderSilent
<1>2. CASE Skip
  <2>1. Waiting /\ stdin' = Tail(stdin) /\ call' = Idle /\ stdout' = stdout /\ asked' = asked
    BY <1>2 DEF Skip, Waiting
  <2>2. \A n \in Owed' : n \in Owed
    BY <2>1, OwedFirst, OwedNext
  <2> QED
    BY <1>0, <2>1, <2>2, OrderSilent
<1>3. ASSUME stdin' = <<>>, call' = Idle, UNCHANGED <<asked, stdout>>
      PROVE  AnsweredInOrder'
  <2>1. Owed' = {}
    BY <1>3 DEF Owed
  <2> QED
    BY <1>0, <1>3, <2>1, OrderSilent
<1>4. CASE Respond
  <2> DEFINE line == Head(stdin)
  <2>1. Waiting /\ stdin # <<>> /\ stdin' = Tail(stdin) /\ call' = Idle /\ asked' = asked
        /\ Write(line.id, line.params, Reply(line), {})
    BY <1>4 DEF Respond, Waiting
  <2>2. line.id \in Nat /\ line \in Line
    BY <1>0, <2>1, TailIs DEF Line
  <2>3. ASSUME NEW n \in Owed' PROVE n \in Owed /\ line.id < n
    <3>1. PICK i \in DOMAIN Tail(stdin) : Tail(stdin)[i].id # 0 /\ Tail(stdin)[i].id = n
      BY <2>1, OwedNext
    <3>2. n \in Nat
      BY <1>0, <2>1, <3>1, LineType, TailIs
    <3>3. line.id # 0 => line.id < n
      BY <2>1, <3>1, FirstIsLeast
    <3>4. n \in Owed
      BY <2>1, <3>1, OwedFirst
    <3> QED
      BY <2>2, <3>1, <3>2, <3>3, <3>4
  <2>4. line.id # 0 => line.id \in Owed
    BY <2>1, OwedFirst
  <2> HIDE DEF line
  <2> QED
    BY <2>1, <2>2, <2>3, <2>4, OrderTold
<1>5. CASE Begin
  <2>1. Waiting /\ stdin' = Tail(stdin) /\ call'.id = Head(stdin).id /\ stdout' = stdout /\ asked' = asked
    BY <1>5 DEF Begin
  <2>2. \A n \in Owed' : n \in Owed
    BY <2>1, OwedFirst, OwedNext
  <2> QED
    BY <1>0, <2>1, <2>2, OrderSilent
<1>6. ASSUME NEW o \in Outcomes, Get(o) PROVE AnsweredInOrder'
  <2>1. call # Idle /\ call'.id = call.id /\ stdin' = stdin /\ stdout' = stdout /\ asked' = asked
    BY <1>0, <1>6 DEF TypeOK, Running, Get
  <2>2. \A n \in Owed' : n \in Owed
    BY <2>1, OwedIs, OwedNext
  <2> QED
    BY <1>0, <2>1, <2>2, OrderSilent
<1>7. CASE Finish
  <2>1. call # Idle /\ call.id \in Nat /\ call' = Idle /\ stdin' = stdin /\ asked' = asked
        /\ Write(call.id, call.params, call.kind, call.met)
    BY <1>0, <1>7 DEF TypeOK, Finish, Running
  <2>2. ASSUME NEW n \in Owed' PROVE n \in Owed /\ call.id < n
    BY <1>0, <2>1, OwedIs, OwedNext DEF OrderInv
  <2>3. call.id # 0 => call.id \in Owed
    BY <2>1, OwedIs
  <2> QED
    BY <2>1, <2>2, <2>3, OrderTold
<1>8. CASE UNCHANGED vars
  <2>1. stdout' = stdout /\ asked' = asked /\ Owed' = Owed
    BY <1>8 DEF vars, Owed
  <2> QED
    BY <1>0, <2>1, OrderSilent
<1>9. Die \/ Kill => AnsweredInOrder'
  BY <1>3 DEF Die, Waiting, Kill
<1> QED
  BY <1>1, <1>2, <1>4, <1>5, <1>6, <1>7, <1>8, <1>9 DEF Next, Serve

\* Whatever lines come in, however often the process dies or is killed: no request is
\* answered twice, none after a later one, nobody is answered who did not ask, and whoever
\* still waits asked after all that were answered (main() reads, answers and writes one line
\* at a time: platform_mcp.py:800-818, wiki_mcp.py:288-306).
THEOREM OneAnswer == Spec => []AnsweredInOrder
<1>1. Init => AnsweredInOrder
  BY DEF Init, AnsweredInOrder
<1>2. IInv /\ AnsweredInOrder /\ [Next]_vars => AnsweredInOrder'
  BY OrderStep
<1> QED
  BY <1>1, <1>2, Inductive, PTL DEF Spec
-----------------------------------------------------------------------------
(* A line comes to its end: the safety half of Implements.                  *)

\* The GETs that a call may still make: a manifest leads to MaxPages more at most.
GetsLeft ==
    IF call = Idle THEN 0
    ELSE 1 + Len(call.gets) +
         (IF call.gets # <<>> /\ Head(call.gets) = "manifest" THEN MaxPages + 1 ELSE 0)

\* The steps of the loop until it waits for a line again, at most.
Work == (MaxPages + 4) * Len(stdin) + GetsLeft

\* A manifest is the first GET of a call and, until it came, the only one.
ManifestFirst ==
    call # Idle =>
        /\ \A i \in DOMAIN call.gets : call.gets[i] = "manifest" => Len(call.gets) = 1
        /\ Len(call.gets) <= MaxPages + 2

\* Every step of the loop takes it nearer to waiting; what does not is a line that comes in.
LineEnds ==
    [][/\ Serve => Work' < Work
       /\ Kill => Work' = 0
       /\ Work' > Work => \E s \in Shapes : Send(s)]_vars

LEMMA GetsFirst ==
    ASSUME NEW c \in Call
    PROVE  Gets(c) \in {<<>>, <<"health">>, <<"experiments">>, <<"version", "nodes">>, <<"manifest">>}
  BY DEF Gets

LEMMA ResolvedShort ==
    ASSUME NEW c \in Call, c.tool \in DOMAIN WikiHandlers, NEW several \in BOOLEAN,
           NEW next \in Resolved(c, several)
    PROVE  /\ next[2] \in Seq(Urls) /\ Len(next[2]) <= MaxPages + 1
           /\ \A i \in DOMAIN next[2] : next[2][i] = "page"
<1> DEFINE fails == {<<k, <<>>>> : k \in IF c.value = "odd" THEN Raised ELSE {"isError"}}
           pages == {<<"ok", [i \in 1..n |-> "page"]>> : n \in 0..MaxPages}
<1>0. MaxPages \in Nat
  BY ShapeAssumption
<1>1. \/ next \in fails \/ next = <<"isError", <<>>>>
      \/ next \in pages \/ next \in {<<"ok", <<>>>>, <<"ok", <<"page">>>>}
  BY WikiNames DEF Resolved
<1>2. CASE next \in fails \/ next = <<"isError", <<>>>>
  <2>1. next[2] = <<>>
    BY <1>2
  <2> QED
    BY <1>0, <2>1
<1>3. CASE next \in pages
  <2>1. PICK n \in 0..MaxPages : next = <<"ok", [i \in 1..n |-> "page"]>>
    BY <1>3
  <2>2. n \in Nat /\ n <= MaxPages
    BY <1>0, <2>1
  <2>3. [i \in 1..n |-> "page"] \in Seq(Urls) /\ Len([i \in 1..n |-> "page"]) = n
    BY <2>2 DEF Urls
  <2>4. next[2] = [i \in 1..n |-> "page"]
    BY <2>1
  <2> QED
    BY <1>0, <2>2, <2>3, <2>4
<1>4. CASE next \in {<<"ok", <<>>>>, <<"ok", <<"page">>>>}
  <2>1. next[2] \in {<<>>, <<"page">>}
    BY <1>4
  <2>2. /\ <<>> \in Seq(Urls) /\ Len(<<>>) = 0
        /\ <<"page">> \in Seq(Urls) /\ Len(<<"page">>) = 1
        /\ \A i \in DOMAIN <<"page">> : <<"page">>[i] = "page"
    BY DEF Urls
  <2>3. CASE next[2] = <<>>
    BY <1>0, <2>2, <2>3
  <2>4. CASE next[2] = <<"page">>
    <3>1. Len(next[2]) <= MaxPages + 1
      BY <1>0, <2>2, <2>4
    <3> QED
      BY <2>2, <2>4, <3>1
  <2> QED
    BY <2>1, <2>3, <2>4
<1> QED
  BY <1>1, <1>2, <1>3, <1>4

LEMMA GetsLeftType ==
    ASSUME TypeOK, ManifestFirst
    PROVE  /\ GetsLeft \in Nat /\ GetsLeft <= 2 * MaxPages + 4
           /\ call # Idle => GetsLeft >= 1
<1>1. MaxPages \in Nat /\ (call # Idle => call.gets \in Seq(Urls))
  BY ShapeAssumption DEF TypeOK, Running
<1>2. CASE call = Idle
  BY <1>1, <1>2 DEF GetsLeft
<1>3. CASE call # Idle
  <2> DEFINE l == Len(call.gets)
             extra == IF call.gets # <<>> /\ Head(call.gets) = "manifest"
                      THEN MaxPages + 1 ELSE 0
  <2>1. l \in Nat /\ l <= MaxPages + 2
    BY <1>1, <1>3 DEF ManifestFirst
  <2>2. extra \in {0, MaxPages + 1} /\ (extra # 0 => l = 1)
    <3>1. CASE call.gets # <<>> /\ Head(call.gets) = "manifest"
      <4>1. 1 \in DOMAIN call.gets /\ call.gets[1] = "manifest"
        BY <1>1, <1>3, <3>1
      <4> QED
        BY <1>3, <3>1, <4>1 DEF ManifestFirst
    <3>2. CASE ~(call.gets # <<>> /\ Head(call.gets) = "manifest")
      BY <3>2
    <3> QED
      BY <3>1, <3>2
  <2>3. GetsLeft = 1 + l + extra
    BY <1>3 DEF GetsLeft
  <2> HIDE DEF l, extra
  <2> QED
    BY <1>1, <2>1, <2>2, <2>3
<1> QED
  BY <1>2, <1>3

LEMMA GetsLeftNext ==
    ASSUME TypeOK', ManifestFirst'
    PROVE  GetsLeft' \in Nat
<1>1. MaxPages \in Nat /\ (call' # Idle => call'.gets \in Seq(Urls))
  BY ShapeAssumption DEF TypeOK, Running
<1>2. CASE call' = Idle
  BY <1>2 DEF GetsLeft
<1>3. CASE call' # Idle
  <2> DEFINE l == Len(call'.gets)
             e == IF call'.gets # <<>> /\ Head(call'.gets) = "manifest" THEN MaxPages + 1 ELSE 0
  <2>1. l \in Nat /\ e \in Nat
    BY <1>1, <1>3
  <2>2. GetsLeft' = 1 + l + e
    BY <1>3 DEF GetsLeft
  <2> HIDE DEF l, e
  <2> QED
    BY <2>1, <2>2
<1> QED
  BY <1>2, <1>3

\* A call that begins has less to do than a line in the pipe stands for.
LEMMA BeginWork ==
    ASSUME IInv, Begin
    PROVE  ManifestFirst' /\ GetsLeft' \in Nat /\ GetsLeft' < MaxPages + 4
<1> DEFINE c == Head(stdin).params
<1>1. c \in Call /\ MaxPages \in Nat /\ call' # Idle /\ call'.gets = Gets(c)
  BY TailIs, BeginInv, IdleAssumption, ShapeAssumption DEF IInv, Begin, Waiting, Line
<1> HIDE DEF c
<1>2. Gets(c) \in {<<>>, <<"health">>, <<"experiments">>, <<"version", "nodes">>, <<"manifest">>}
  BY <1>1, GetsFirst
<1>3. /\ Len(Gets(c)) \in 0..2
      /\ \A i \in DOMAIN Gets(c) : Gets(c)[i] = "manifest" => Len(Gets(c)) = 1
      /\ Gets(c) # <<>> /\ Head(Gets(c)) = "manifest" => Len(Gets(c)) = 1
  BY <1>2
<1>4. Gets(c) \in Seq(Urls)
  BY <1>1, GetsType
<1>5. ManifestFirst'
  <2>1. Len(Gets(c)) <= MaxPages + 2
    <3> DEFINE l == Len(Gets(c))
    <3>1. l \in 0..2
      BY <1>3
    <3> HIDE DEF l
    <3>2. l <= MaxPages + 2
      BY <1>1, <3>1
    <3> QED
      BY <3>2 DEF l
  <2> QED
    BY <1>1, <1>3, <2>1 DEF ManifestFirst
<1>6. GetsLeft' = 1 + Len(Gets(c)) +
          (IF Gets(c) # <<>> /\ Head(Gets(c)) = "manifest" THEN MaxPages + 1 ELSE 0)
  BY <1>1 DEF GetsLeft
<1> DEFINE l == Len(Gets(c))
<1>7. l \in 0..2 /\ GetsLeft' = 1 + l +
          (IF Gets(c) # <<>> /\ Head(Gets(c)) = "manifest" THEN MaxPages + 1 ELSE 0)
      /\ (Gets(c) # <<>> /\ Head(Gets(c)) = "manifest" => l = 1)
  BY <1>3, <1>6
<1> HIDE DEF l
<1> QED
  BY <1>1, <1>5, <1>7

\* A GET leaves less to do.
LEMMA GetWork ==
    ASSUME IInv, ManifestFirst, NEW o \in Outcomes, Get(o)
    PROVE  ManifestFirst' /\ GetsLeft' < GetsLeft
<1> DEFINE c == call.params
           get == Head(call.gets)
<1>0. TypeOK /\ call \in Running /\ call # Idle /\ call.gets \in Seq(Urls) /\ call.gets # <<>>
      /\ c \in Call /\ MaxPages \in Nat /\ call' # Idle
  BY ShapeAssumption, GetInv, IdleAssumption DEF IInv, TypeOK, Get, Running
<1>1. PICK k \in Verdicts(c, get, o), several \in Wikis(get) :
          \E next \in IF k # "ok" THEN {<<k, <<>>>>}
                       ELSE IF get = "manifest" THEN Resolved(c, several)
                       ELSE {<<"ok", Tail(call.gets)>>} :
             call' = [call EXCEPT !.kind = next[1], !.gets = next[2], !.met = Meets(@, o, several)]
  BY DEF Get
<1>2. PICK next \in (IF k # "ok" THEN {<<k, <<>>>>}
                       ELSE IF get = "manifest" THEN Resolved(c, several)
                       ELSE {<<"ok", Tail(call.gets)>>}) :
             call' = [call EXCEPT !.kind = next[1], !.gets = next[2], !.met = Meets(@, o, several)]
  BY <1>1
<1>3. call'.gets = next[2]
  BY <1>0, <1>2 DEF Running
<1>4. Len(call.gets) \in Nat /\ Len(call.gets) >= 1 /\ Len(call.gets) <= MaxPages + 2
      /\ (get = "manifest" => Len(call.gets) = 1)
      /\ GetsLeft = 1 + Len(call.gets) + (IF get = "manifest" THEN MaxPages + 1 ELSE 0)
  BY <1>0 DEF ManifestFirst, GetsLeft
<1> DEFINE l == Len(call.gets)
           m == Len(next[2])
<1>5. ASSUME next[2] \in Seq(Urls), m <= MaxPages + 2, \A i \in DOMAIN next[2] : next[2][i] # "manifest"
      PROVE  ManifestFirst' /\ m \in Nat /\ GetsLeft' = 1 + m
  <2>1. ManifestFirst'
    BY <1>3, <1>5 DEF ManifestFirst
  <2>2. next[2] # <<>> => Head(next[2]) # "manifest"
    BY <1>5
  <2>3. m \in Nat
    BY <1>5
  <2>4. GetsLeft' = 1 + m + (IF next[2] # <<>> /\ Head(next[2]) = "manifest" THEN MaxPages + 1 ELSE 0)
    BY <1>0, <1>3 DEF GetsLeft
  <2> HIDE DEF m
  <2> QED
    BY <2>1, <2>2, <2>3, <2>4
<1>6. CASE k = "ok" /\ get = "manifest"
  <2>1. c.tool \in DOMAIN WikiHandlers
    BY <1>0, <1>6 DEF IInv, CallInv
  <2>2. next \in Resolved(c, several)
    BY <1>2, <1>6
  <2>3. /\ next[2] \in Seq(Urls) /\ Len(next[2]) <= MaxPages + 1
        /\ \A i \in DOMAIN next[2] : next[2][i] = "page"
    BY <1>0, <1>1, <2>1, <2>2, ResolvedShort DEF Wikis
  <2>4. m <= MaxPages + 1 /\ m \in Nat
    BY <2>3
  <2>5. m <= MaxPages + 2
    <3> HIDE DEF m
    <3> QED
      BY <1>0, <2>4
  <2>6. ManifestFirst' /\ GetsLeft' = 1 + m
    BY <1>5, <2>3, <2>5
  <2>7. l = 1 /\ GetsLeft = 1 + l + (MaxPages + 1)
    BY <1>4, <1>6
  <2> HIDE DEF l, m
  <2> QED
    BY <1>0, <2>4, <2>6, <2>7
<1>7. CASE k = "ok" /\ get # "manifest"
  <2>1. next[2] = Tail(call.gets)
    BY <1>2, <1>7
  <2>2. /\ Tail(call.gets) \in Seq(Urls) /\ Len(Tail(call.gets)) = Len(call.gets) - 1
        /\ \A i \in DOMAIN Tail(call.gets) :
              i + 1 \in DOMAIN call.gets /\ Tail(call.gets)[i] = call.gets[i + 1] /\ 1 <= i
    BY <1>0
  <2>3. \A i \in DOMAIN Tail(call.gets) : Tail(call.gets)[i] # "manifest"
    BY <1>0, <1>4, <2>2 DEF ManifestFirst
  <2>4. m = l - 1 /\ l \in Nat /\ l >= 1 /\ l <= MaxPages + 2
    BY <1>4, <2>1, <2>2
  <2>5. m <= MaxPages + 2
    <3> HIDE DEF l, m
    <3> QED
      BY <1>0, <2>4
  <2>6. ManifestFirst' /\ GetsLeft' = 1 + m
    BY <1>5, <2>1, <2>2, <2>3, <2>5
  <2>7. GetsLeft = 1 + l
    BY <1>4, <1>7
  <2> HIDE DEF l, m
  <2> QED
    BY <2>4, <2>6, <2>7
<1>8. CASE k # "ok"
  <2>1. next[2] = <<>>
    BY <1>2, <1>8
  <2>2. next[2] \in Seq(Urls) /\ m = 0 /\ DOMAIN next[2] = {}
    BY <2>1
  <2>3. ManifestFirst' /\ GetsLeft' = 1 + m
    BY <1>0, <1>5, <2>2
  <2>4. GetsLeft >= 1 + l /\ l >= 1 /\ l \in Nat
    <3> DEFINE e == IF get = "manifest" THEN MaxPages + 1 ELSE 0
    <3>1. l \in Nat /\ l >= 1 /\ e \in Nat /\ GetsLeft = 1 + l + e
      BY <1>0, <1>4
    <3> HIDE DEF l, e
    <3> QED
      BY <3>1
  <2> HIDE DEF l, m
  <2>5. GetsLeft \in Int
    BY <1>0, GetsLeftType
  <2> QED
    BY <2>2, <2>3, <2>4, <2>5
<1> QED
  BY <1>6, <1>7, <1>8

\* One line fewer in the pipe.
LEMMA PipeWork ==
    ASSUME IInv, Waiting, stdin' = Tail(stdin), GetsLeft' \in Nat, GetsLeft' < MaxPages + 4
    PROVE  Work' < Work
<1> DEFINE w == MaxPages + 4
           n == Len(stdin)
<1>1. w \in Nat /\ n \in Nat /\ n >= 1 /\ Len(stdin') = n - 1 /\ GetsLeft = 0
  BY ShapeAssumption DEF IInv, TypeOK, Waiting, GetsLeft
<1>2. Work = w * n + GetsLeft /\ Work' = w * (n - 1) + GetsLeft'
  BY <1>1 DEF Work
<1> HIDE DEF w, n
<1>3. w * (n - 1) = w * n - w /\ w * n \in Nat
  BY <1>1
<1> QED
  BY <1>1, <1>2, <1>3 DEF w

LEMMA WorkStep ==
    ASSUME IInv, ManifestFirst, [Next]_vars
    PROVE  /\ ManifestFirst'
           /\ Serve => Work' < Work
           /\ Kill => Work' = 0
           /\ Work' > Work => \E s \in Shapes : Send(s)
<1>0. /\ TypeOK /\ MaxPages \in Nat /\ GetsLeft \in Nat /\ Len(stdin) \in Nat
      /\ (MaxPages + 4) * Len(stdin) \in Nat /\ Work \in Nat
  <2>1. TypeOK /\ MaxPages \in Nat /\ Len(stdin) \in Nat
    BY ShapeAssumption DEF IInv, TypeOK
  <2>2. (MaxPages + 4) * Len(stdin) \in Nat
    <3> DEFINE w == MaxPages + 4
               n == Len(stdin)
    <3>1. w \in Nat /\ n \in Nat
      BY <2>1
    <3> HIDE DEF w, n
    <3>2. w * n \in Nat
      BY <3>1
    <3> QED
      BY <3>2 DEF w, n
  <2>3. GetsLeft \in Nat
    BY <2>1, GetsLeftType
  <2> HIDE DEF Work
  <2> QED
    BY <2>1, <2>2, <2>3 DEF Work
<1>1. call' = Idle => ManifestFirst' /\ GetsLeft' = 0
  BY DEF ManifestFirst, GetsLeft
<1>2. call' = call => ManifestFirst' /\ GetsLeft' = GetsLeft
  BY DEF ManifestFirst, GetsLeft
<1>3. Skip => ManifestFirst' /\ Work' < Work
  BY <1>0, <1>1, PipeWork DEF Skip, Waiting
<1>4. Respond => ManifestFirst' /\ Work' < Work
  BY <1>0, <1>1, PipeWork DEF Respond, Waiting
<1>5. Begin => ManifestFirst' /\ Work' < Work
  BY BeginWork, PipeWork DEF Begin
<1>6. \A o \in Outcomes : Get(o) => ManifestFirst' /\ Work' < Work
  <2> TAKE o \in Outcomes
  <2> SUFFICES ASSUME Get(o) PROVE ManifestFirst' /\ Work' < Work
    OBVIOUS
  <2>1. ManifestFirst' /\ GetsLeft' < GetsLeft /\ stdin' = stdin
    BY GetWork DEF Get
  <2>2. GetsLeft' \in Nat
    <3>1. TypeOK'
      BY GetInv DEF IInv
    <3> QED
      BY <2>1, <3>1, GetsLeftNext
  <2>3. Work' = (MaxPages + 4) * Len(stdin) + GetsLeft'
    BY <2>1 DEF Work
  <2> DEFINE p == (MaxPages + 4) * Len(stdin)
  <2>4. p \in Nat /\ Work = p + GetsLeft /\ Work' = p + GetsLeft' /\ GetsLeft \in Nat
    BY <1>0, <2>3 DEF Work
  <2> HIDE DEF p
  <2>5. GetsLeft' < GetsLeft /\ GetsLeft' \in Nat
    BY <2>1, <2>2
  <2>6. Work' < Work
    <3> DEFINE g == GetsLeft
               h == GetsLeft'
    <3>1. g \in Nat /\ h \in Nat /\ h < g
      BY <2>4, <2>5
    <3>2. Work = p + g /\ Work' = p + h
      BY <2>4
    <3> HIDE DEF g, h
    <3>3. p + h < p + g
      BY <2>4, <3>1
    <3> QED
      BY <3>2, <3>3
  <2> QED
    BY <2>1, <2>6
<1>7. Finish => ManifestFirst' /\ Work' < Work
  <2> SUFFICES ASSUME Finish PROVE ManifestFirst' /\ Work' < Work
    OBVIOUS
  <2>1. ManifestFirst' /\ GetsLeft' = 0 /\ stdin' = stdin /\ GetsLeft >= 1
    BY <1>0, <1>1, GetsLeftType DEF Finish
  <2> DEFINE p == (MaxPages + 4) * Len(stdin)
  <2>2. p \in Nat /\ Work = p + GetsLeft /\ Work' = p + GetsLeft'
    BY <1>0, <2>1 DEF Work
  <2> HIDE DEF p
  <2> QED
    BY <1>0, <2>1, <2>2
<1>8. stdin' = <<>> /\ call' = Idle => ManifestFirst' /\ Work' = 0
  BY <1>0, <1>1 DEF Work
<1>9. Die => ManifestFirst' /\ Work' < Work
  <2> SUFFICES ASSUME Die PROVE ManifestFirst' /\ Work' < Work
    OBVIOUS
  <2>1. ManifestFirst' /\ Work' = 0
    BY <1>8 DEF Die, Waiting
  <2> DEFINE w == MaxPages + 4
             n == Len(stdin)
  <2>2. w \in Nat /\ w >= 4 /\ n \in Nat /\ n >= 1 /\ Work = w * n + GetsLeft
    BY <1>0 DEF Die, Waiting, Work, TypeOK
  <2> HIDE DEF w, n
  <2>3. w * n >= 4
    BY <2>2
  <2> QED
    BY <1>0, <2>1, <2>2, <2>3
<1>10. Kill => ManifestFirst' /\ Work' = 0
  BY <1>8 DEF Kill
<1>11. Serve => ManifestFirst' /\ Work' < Work
  BY <1>3, <1>4, <1>5, <1>6, <1>7, <1>9 DEF Serve
<1>12. (\E s \in Shapes : Send(s)) => ManifestFirst'
  BY <1>2 DEF Send
<1>13. UNCHANGED vars => ManifestFirst' /\ Work' = Work
  BY <1>2 DEF vars, Work
<1>14. CASE Serve
  <2>1. ManifestFirst' /\ Work' < Work
    BY <1>11, <1>14
  <2>2. Work' \in Nat
    <3>1. TypeOK' /\ MaxPages \in Nat
      BY <1>0, NextInv DEF IInv
    <3>2. GetsLeft' \in Nat /\ Len(stdin') \in Nat
      BY <2>1, <3>1, GetsLeftNext DEF TypeOK
    <3> DEFINE w == MaxPages + 4
               n == Len(stdin')
    <3>3. w \in Nat /\ n \in Nat /\ Work' = w * n + GetsLeft'
      BY <3>1, <3>2 DEF Work
    <3> HIDE DEF w, n
    <3>4. w * n \in Nat
      BY <3>3
    <3> DEFINE p == w * n
               h == GetsLeft'
    <3>5. p \in Nat /\ h \in Nat /\ Work' = p + h
      BY <3>2, <3>3, <3>4
    <3> HIDE DEF p, h
    <3>6. p + h \in Nat
      BY <3>5
    <3> QED
      BY <3>5, <3>6
  <2>3. Kill => Work' = 0
    BY <1>10
  <2> QED
    BY <1>0, <2>1, <2>2, <2>3
<1>15. CASE Kill
  BY <1>0, <1>10, <1>11, <1>15
<1>16. CASE \E s \in Shapes : Send(s)
  BY <1>10, <1>11, <1>12, <1>16
<1>17. CASE UNCHANGED vars
  BY <1>0, <1>10, <1>11, <1>13, <1>17
<1> QED
  BY <1>14, <1>15, <1>16, <1>17 DEF Next

\* Whatever lines come in and whatever their GETs come to: each step of the loop lowers a
\* number that only a line that comes in raises, so that what is in the pipe is answered, or
\* dropped, within Work steps of the loop.  With the fairness of Spec this is that every
\* request is answered (Implements; the GETs of a call are bounded, _resolve(), wiki_search()).
THEOREM EveryLineEnds == Spec => LineEnds
<1>1. Init => ManifestFirst
  BY DEF Init, ManifestFirst
<1>2. IInv /\ ManifestFirst /\ [Next]_vars => ManifestFirst'
  BY WorkStep
<1>3. Spec => []ManifestFirst
  BY <1>1, <1>2, Inductive, PTL DEF Spec
<1>4. IInv /\ ManifestFirst /\ [Next]_vars =>
          [/\ Serve => Work' < Work
           /\ Kill => Work' = 0
           /\ Work' > Work => \E s \in Shapes : Send(s)]_vars
  BY WorkStep
<1> QED
  BY <1>3, <1>4, Inductive, PTL DEF Spec, LineEnds
=============================================================================
