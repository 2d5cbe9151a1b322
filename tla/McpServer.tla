------------------------------- MODULE McpServer -------------------------------
(***************************************************************************)
(* platform-mcp and wiki-mcp: two servers with one request loop.  A line   *)
(* comes in on stdin, main() parses it, _handle() answers it, a tool may   *)
(* make GETs on the way, and a line goes out.  One line at a time: what    *)
(* comes in meanwhile waits in the pipe.                                   *)
(*                                                                         *)
(* An argument is "known" (it names one thing that the server has),        *)
(* "unknown" (none, or, with the bare name of a repository, several),      *)
(* "empty" (an empty string, or null) or "odd" (no string); all arguments  *)
(* of a call are of one sort.  What a GET can come to:                     *)
(*   ok       200, and a body of the shape that is expected                *)
(*   odd      200, JSON of another shape                                   *)
(*   garbled  200, not JSON; a body cut at its limit is one                *)
(*   status   another status                                               *)
(*   down     no answer in time, or none at all                            *)
(*   torn     a body that breaks off: in wiki-mcp no URLError or OSError,  *)
(*            in platform-mcp that of an error, read inside the `except`   *)
(* RepoWiki has wiki-mcp's page cache; here a page may or may not be in it.*)
(***************************************************************************)
EXTENDS Naturals, Sequences

CONSTANTS
    Shapes,   \* the lines that clients may send: [ids, method, params]
    Idle,     \* no line is being answered
    MaxPages, \* bound: the pages that a search has to get
    MaxLines, \* bound: the lines that are sent
    MaxKills  \* bound: how often the pod is killed

Servers == {"platform", "wiki"}
Values == {"known", "unknown", "empty", "odd"}
Outcomes == {"ok", "odd", "garbled", "status", "down", "torn"}
Methods == {"blank", "garbage", "batch", "initialize", "ping", "tools/list", "tools/call",
            "notification", "unknown", "odd"}
Urls == {"health", "experiments", "version", "nodes", "manifest", "page"}
Kinds == {"result", "ok", "isError", "badargs", "noTool", "noMethod", "internal"}

Takes(required, optional) == [required |-> required, optional |-> optional]
Fits(names, t) == t.required \subseteq names /\ names \subseteq t.required \union t.optional

\* TOOLS: what agents are told that a tool takes.
PlatformTools ==
    [service_map |-> Takes({}, {"service"}), credentials |-> Takes({}, {"topic"}),
     storage_map |-> Takes({}, {"bucket"}), runtime_matrix |-> Takes({}, {}),
     pipeline_patterns |-> Takes({}, {}), compute_limits |-> Takes({}, {}),
     probe |-> Takes({"target"}, {}), mlflow_experiments |-> Takes({}, {}),
     ray_status |-> Takes({}, {})]

WikiTools ==
    [wiki_list |-> Takes({}, {"repo"}), wiki_read |-> Takes({"page"}, {"repo"}),
     wiki_search |-> Takes({"query"}, {"repo"})]

\* MUTANT: the schema of probe was not changed with its function.
PlatformHandlersRenamed == [PlatformTools EXCEPT !.probe = Takes({"service"}, {})]

\* HANDLERS: what their functions take.
PlatformHandlers ==
    [service_map |-> Takes({}, {"service"}), credentials |-> Takes({}, {"topic"}),
     storage_map |-> Takes({}, {"bucket"}), runtime_matrix |-> Takes({}, {}),
     pipeline_patterns |-> Takes({}, {}), compute_limits |-> Takes({}, {}),
     probe |-> Takes({"target"}, {}), mlflow_experiments |-> Takes({}, {}),
     ray_status |-> Takes({}, {})]

WikiHandlers ==
    [wiki_list |-> Takes({}, {"repo"}), wiki_read |-> Takes({"page"}, {"repo"}),
     wiki_search |-> Takes({"query"}, {"repo"})]

Tools(s) == IF s = "platform" THEN PlatformTools ELSE WikiTools
Handlers(s) == IF s = "platform" THEN PlatformHandlers ELSE WikiHandlers

Call == [tool : STRING, names : SUBSET STRING, value : Values]

\* The tool of `params`: "none" if there are none, "odd" if they are no object,
\* "unhashable" if the name is no key.
ASSUME ShapeAssumption ==
    /\ Shapes \subseteq [ids : BOOLEAN, method : Methods, params : Call]
    /\ \A s \in Shapes : s.method # "tools/call" => s.params.tool \in {"none", "odd"}
    /\ MaxPages \in Nat /\ MaxLines \in Nat /\ MaxKills \in Nat

VARIABLES
    server,  \* which of the two it is
    stdin,   \* the lines in the pipe
    call,    \* the call of a tool that is being answered, or Idle
    stdout,  \* the lines that went out: the id, 0 for null, and the kind of answer
    asked,   \* the requests made in all; a request's id is its number
    sent,    \* the lines sent in all
    died,    \* how often a line ended the process
    killed   \* how often the pod was killed

vars == <<server, stdin, call, stdout, asked, sent, died, killed>>

Line == [id : Nat, method : Methods, params : Call]
\* What a call met: a GET that was not ok, a manifest of no wiki or of several.
Met == SUBSET {"fault", "several"}

Running == [id : Nat, params : Call, gets : Seq(Urls), kind : Kinds, met : Met]
Answer == [id : Nat, params : Call, kind : Kinds, met : Met]

ASSUME IdleAssumption == Idle \notin Running
-----------------------------------------------------------------------------
(* The client.                                                              *)

Init ==
    /\ server \in Servers
    /\ stdin = <<>> /\ call = Idle /\ stdout = <<>>
    /\ asked = 0 /\ sent = 0 /\ died = 0 /\ killed = 0

\* Is a line with an id a request that waits for an answer?
Waits(method) == method \notin {"blank", "garbage", "batch", "notification"}

Send(s) ==
    LET waits == s.ids /\ Waits(s.method)
    IN /\ sent < MaxLines /\ sent' = sent + 1
       /\ asked' = IF waits THEN asked + 1 ELSE asked
       /\ stdin' = Append(stdin, [id |-> IF waits THEN asked + 1 ELSE 0,
                                  method |-> s.method, params |-> s.params])
       /\ UNCHANGED <<server, call, stdout, died, killed>>
-----------------------------------------------------------------------------
(* _handle(): what it answers before, or without, a tool's function.        *)

\* The line ends the process: it is no object, so .get raises, in the `except` as well.
Fatal(line) == line.method = "batch"

\* MUTANT: what is not known is not answered.
SilentToUnknown(line) == line.method \in {"blank", "garbage", "notification", "unknown"}

Silent(line) ==
    \/ line.method \in {"blank", "garbage", "notification"}
    \/ line.method = "unknown" /\ line.id = 0

\* A method of its own; or no handler of that name, or no arguments that fit.
Reply(line) ==
    CASE line.method = "odd" -> "internal"
      [] line.method = "initialize" -> IF line.params.tool = "odd" THEN "internal" ELSE "result"
      [] line.method \in {"ping", "tools/list"} -> "result"
      [] line.method = "unknown" -> "noMethod"
      [] line.method = "tools/call" ->
            IF line.params.tool \in {"odd", "unhashable"} THEN "internal"
            ELSE IF line.params.tool \notin DOMAIN Handlers(server) THEN "noTool"
            ELSE "badargs"

\* handler(**arguments) gets as far as the function.
Runs(line) ==
    /\ line.method = "tools/call" /\ line.params.tool \in DOMAIN Handlers(server)
    /\ Fits(line.params.names, Handlers(server)[line.params.tool])
-----------------------------------------------------------------------------
(* The tools: the GETs of a call, and the answer of one that makes none.    *)

Given(c) == c.names # {} /\ c.value # "empty"
Lookup(c) == IF Given(c) /\ c.value # "known" THEN "isError" ELSE "ok"

ServiceMap(c) == Lookup(c)
Credentials(c) == Lookup(c)
StorageMap(c) == IF Given(c) /\ c.value = "odd" THEN "isError" ELSE "ok"
Probe(c) == IF c.value = "known" THEN "ok" ELSE "isError"
WikiSearch(c) == IF c.value \in {"known", "unknown"} THEN "ok" ELSE "isError"

\* The answer of a call that makes no GET; of one that does, if they all go well.
Outset(c) ==
    CASE c.tool = "service_map" -> ServiceMap(c)
      [] c.tool = "credentials" -> Credentials(c)
      [] c.tool = "storage_map" -> StorageMap(c)
      [] c.tool = "probe" -> Probe(c)
      [] c.tool = "wiki_search" -> WikiSearch(c)
      [] OTHER -> "ok"

Gets(c) ==
    IF Outset(c) # "ok" THEN <<>>
    ELSE CASE c.tool = "probe" -> <<"health">>
           [] c.tool = "mlflow_experiments" -> <<"experiments">>
           [] c.tool = "ray_status" -> <<"version", "nodes">>
           [] c.tool \in DOMAIN WikiHandlers -> <<"manifest">>
           [] OTHER -> <<>>

\* A TypeError is taken for bad arguments, wherever it comes from.
Raised == {"isError", "badargs"}

\* What a GET that came to o makes of the answer: ok, and the call goes on, or another.
Experiments(o) == IF o = "ok" THEN {"ok"} ELSE IF o = "odd" THEN Raised ELSE {"isError"}
Nodes(o) == IF o = "odd" THEN Raised ELSE {"ok"}
Manifest(o) == IF o = "ok" THEN {"ok"} ELSE IF o = "odd" THEN Raised ELSE {"isError"}
ReadPage(o) == IF o \in {"status", "down"} THEN {"isError"} ELSE {"ok"}
SearchPage(o) == {"ok"}

Verdicts(c, get, o) ==
    IF o = "torn" THEN {"isError"}
    ELSE CASE get \in {"health", "version"} -> {"ok"}
           [] get = "experiments" -> Experiments(o)
           [] get = "nodes" -> Nodes(o)
           [] get = "manifest" -> Manifest(o)
           [] get = "page" -> IF c.tool = "wiki_read" THEN ReadPage(o) ELSE SearchPage(o)

\* MUTANT: the page is fetched although it is not in the manifest.
ResolvedUnseen(c, several) == {<<IF c.value = "known" THEN "ok" ELSE "isError", <<"page">>>>}

\* _resolve(), and the look for the page: what follows the manifest, as <<kind, GETs>>.  Only
\* wiki_read resolves a repository that is not given, and can if there is one wiki.
Resolved(c, several) ==
    LET repo == "repo" \in c.names /\ c.value # "empty"
        names == c.value = "known"
        fails == {<<k, <<>>>> : k \in IF c.value = "odd" THEN Raised ELSE {"isError"}}
    IN CASE c.tool = "wiki_list" ->
               IF repo /\ ~names THEN fails ELSE {<<"ok", <<>>>>}
         [] c.tool = "wiki_read" ->
               IF ~repo /\ several THEN {<<"isError", <<>>>>}
               ELSE IF names THEN {<<"ok", <<>>>>, <<"ok", <<"page">>>>} ELSE fails
         [] c.tool = "wiki_search" ->
               IF repo /\ ~names THEN fails
               ELSE {<<"ok", [i \in 1..n |-> "page"]>> : n \in 0..MaxPages}
-----------------------------------------------------------------------------
(* The loop.                                                                *)

Waiting == call = Idle /\ stdin # <<>>

Write(id, params, kind, met) ==
    stdout' = Append(stdout, [id |-> id, params |-> params, kind |-> kind, met |-> met])

Skip ==
    /\ Waiting /\ Silent(Head(stdin))
    /\ stdin' = Tail(stdin)
    /\ UNCHANGED <<server, call, stdout, asked, sent, died, killed>>

Die ==
    /\ Waiting /\ Fatal(Head(stdin))
    /\ died' = died + 1
    /\ stdin' = <<>>
    /\ UNCHANGED <<server, call, stdout, asked, sent, killed>>

Respond ==
    LET line == Head(stdin)
    IN /\ Waiting /\ ~Silent(line) /\ ~Fatal(line) /\ ~Runs(line)
       /\ Write(line.id, line.params, Reply(line), {})
       /\ stdin' = Tail(stdin)
       /\ UNCHANGED <<server, call, asked, sent, died, killed>>

Begin ==
    LET line == Head(stdin)
    IN /\ Waiting /\ Runs(line)
       /\ call' = [id |-> line.id, params |-> line.params, gets |-> Gets(line.params),
                   kind |-> Outset(line.params), met |-> {}]
       /\ stdin' = Tail(stdin)
       /\ UNCHANGED <<server, stdout, asked, sent, died, killed>>

Meets(met, o, several) ==
    met \union (IF o # "ok" THEN {"fault"} ELSE {}) \union (IF several THEN {"several"} ELSE {})

Wikis(get) == IF get = "manifest" THEN BOOLEAN ELSE {FALSE}

Get(o) ==
    LET get == Head(call.gets)
    IN /\ call # Idle /\ call.gets # <<>>
       /\ \E k \in Verdicts(call.params, get, o), several \in Wikis(get) :
             \E next \in IF k # "ok" THEN {<<k, <<>>>>}
                          ELSE IF get = "manifest" THEN Resolved(call.params, several)
                          ELSE {<<"ok", Tail(call.gets)>>} :
                call' = [call EXCEPT !.kind = next[1], !.gets = next[2],
                             !.met = Meets(@, o, several)]
       /\ UNCHANGED <<server, stdin, stdout, asked, sent, died, killed>>

Finish ==
    /\ call # Idle /\ call.gets = <<>>
    /\ Write(call.id, call.params, call.kind, call.met)
    /\ call' = Idle
    /\ UNCHANGED <<server, stdin, asked, sent, died, killed>>

Serve == Skip \/ Die \/ Respond \/ Begin \/ Finish \/ \E o \in Outcomes : Get(o)

\* The pod is killed, and started again with a pipe of its own.
Kill ==
    /\ killed < MaxKills /\ killed' = killed + 1
    /\ stdin' = <<>> /\ call' = Idle
    /\ UNCHANGED <<server, stdout, asked, sent, died>>

Next == Serve \/ Kill \/ \E s \in Shapes : Send(s)

\* main() never waits but for a line or a GET, and a GET has a timeout.
Spec == Init /\ [][Next]_vars /\ WF_vars(Serve)
-----------------------------------------------------------------------------
(* Properties.                                                              *)

TypeOK ==
    /\ server \in Servers
    /\ stdin \in Seq(Line)
    /\ call \in Running \union {Idle}
    /\ call # Idle /\ call.gets # <<>> => call.kind = "ok"
    /\ stdout \in Seq(Answer)
    /\ asked \in Nat /\ sent \in 0..MaxLines /\ died \in Nat /\ killed \in 0..MaxKills

\* Requests that were sent and not answered.
Owed ==
    {stdin[i].id : i \in {j \in DOMAIN stdin : stdin[j].id # 0}} \union
    (IF call # Idle /\ call.id # 0 THEN {call.id} ELSE {})

Service == INSTANCE RpcService WITH
    owed <- Owed, told <- [i \in DOMAIN stdout |-> stdout[i].id]

\* Every request is answered once, in the order of the requests, or the session broke
\* (main(): platform_mcp.py:800-818, wiki_mcp.py:288-306).
Implements == Service!Spec

Follows(params) ==
    /\ params.tool \in DOMAIN Tools(server)
    /\ Fits(params.names, Tools(server)[params.tool])
    /\ params.value # "odd"

\* The repo of wiki_read is "optional when there is only one wiki" (wiki_mcp.py:188-189).
NamesRepo(params, met) ==
    params.tool = "wiki_read" => "repo" \in params.names \/ "several" \notin met

\* An agent that follows tools/list gets its call through: it is not told of a tool that
\* is unknown, nor of bad arguments unless a GET went wrong, and if it names what is there,
\* the repository too if there is not just one, and no GET goes wrong, it gets the answer
\* (TOOLS, HANDLERS, the functions and _resolve() agree).
AdvertisedWorks ==
    \A i \in DOMAIN stdout :
        LET a == stdout[i]
            fault == "fault" \in a.met
        IN Follows(a.params) =>
              /\ a.kind \in {"ok", "isError"} \union (IF fault THEN {"badargs"} ELSE {})
              /\ a.params.value = "known" /\ NamesRepo(a.params, a.met) /\ ~fault => a.kind = "ok"
=============================================================================
