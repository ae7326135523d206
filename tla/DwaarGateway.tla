----------------------------- MODULE DwaarGateway ------------------------------
(***************************************************************************)
(* The commands of the hosted agent that configure the Dwaar gateway       *)
(* (src/src/command.rs, dwaar_routes.rs, dwaar_config_patch.rs,            *)
(* dwaar_admin.rs, admin_operations.rs): routes through its admin socket   *)
(* and as files, app and TCP proxies, the Dwaarfile, and the reconciler.   *)
(*                                                                         *)
(* Handlers run at once.  A handler is the sequence of steps it takes in   *)
(* the code; a step that fails ends it, but for a route of the reconciler, *)
(* which goes on with the next.  A file is written into a temporary file   *)
(* with a fixed name and renamed, so names stand for inodes here.  Dwaar   *)
(* itself is external: it serves the routes of its API, which a restart    *)
(* loses, and those of the files at its last reload.                       *)
(***************************************************************************)
EXTENDS Integers, Sequences, FiniteSets, FiniteSetsExt, SequencesExt, Functions

CONSTANTS
    GatewayLoads,   \* the commands, containers and what may fail; see GwInit
    Retention       \* backup_retention

ASSUME RetentionAssumption == Retention \in Nat \ {0}

VARIABLES
    dw,         \* Dwaar: up, api (domain -> upstreams), loaded (file -> content)
    names,      \* the files: name -> inode; <<"file", n>>, or <<"tmp", n>> while n is written
    inodes,     \* inode -> content, whole or not
    conf,       \* the Dwaarfile's lines
    backups,    \* Dwaarfile.bak.<seconds>: seconds -> lines
    jobs,       \* the handlers that run: command -> what they know
    answers,    \* command -> the final result
    gwNow, gwFaults,
    settled,    \* history: domain -> the last change, if it was alone and completed
    overlaps,   \* history: names whose temporary file two handlers had open
    gwLoad

gwVars == <<dw, names, inodes, conf, backups, jobs, answers, gwNow, gwFaults, settled, overlaps, gwLoad>>

Put(f, x, v) == [y \in DOMAIN f \cup {x} |-> IF y = x THEN v ELSE f[y]]
Cut(f, s) == [y \in DOMAIN f \ s |-> f[y]]
Void == [x \in {} |-> 0]

-----------------------------------------------------------------------------
(* The Dwaarfile.  A line has a head (the text before its first brace), the *)
(* braces it opens and closes, and a body.                                  *)

Depths(lines) ==
    LET d[i \in 0..Len(lines)] == IF i = 0 THEN 0 ELSE d[i - 1] + lines[i].opens - lines[i].closes IN d

\* Of the lines of the span at this depth that open a block of that name, the
\* first, to the line that closes it; none if nothing closes it.
Block(lines, span, level, name) ==
    LET d == Depths(lines)
        Opens(i) == d[i - 1] = level /\ lines[i].opens > 0 /\ lines[i].head = name
        found == {b \in span \X DOMAIN lines :
                    /\ Opens(b[1]) /\ \A i \in span : i < b[1] => ~Opens(i)
                    /\ b[1] <= b[2] /\ d[b[2]] = level /\ \A j \in b[1]..(b[2] - 1) : d[j] # level}
    IN  IF found = {} THEN <<>> ELSE CHOOSE b \in found : TRUE

find_dwaar_global_block(lines) == Block(lines, DOMAIN lines, 0, "")

\* In the global block if there is one.
find_dwaar_block(lines, name) ==
    LET g == find_dwaar_global_block(lines)
    IN  IF g = <<>> THEN Block(lines, DOMAIN lines, 0, name) ELSE Block(lines, (g[1] + 1)..(g[2] - 1), 1, name)

extract_dwaar_block_body(lines, name) ==
    LET b == find_dwaar_block(lines, name)
    IN  IF b = <<>> THEN <<>>
        ELSE IF b[1] = b[2] THEN <<lines[b[1]].body>>
        ELSE [i \in 1..(b[2] - b[1] - 1) |-> lines[b[1] + i].body]

BlockLine(name, value) == [head |-> name, opens |-> 1, closes |-> 1, body |-> value]
upsert_dwaar_block(lines, name, value) ==
    LET b == find_dwaar_block(lines, name)
        g == find_dwaar_global_block(lines)
        text == {i \in DOMAIN lines : lines[i].head # "" \/ lines[i].body # "" \/ lines[i].opens + lines[i].closes > 0}
        at == IF g # <<>> THEN (IF g[2] > g[1] THEN g[2] ELSE Len(lines) + 1) ELSE Max({0} \cup text) + 1
    IN  IF b # <<>> THEN SubSeq(lines, 1, b[1] - 1) \o <<BlockLine(name, value)>> \o SubSeq(lines, b[2] + 1, Len(lines))
        ELSE SubSeq(lines, 1, at - 1) \o <<BlockLine(name, value)>> \o SubSeq(lines, at, Len(lines))
remove_dwaar_block(lines, name) ==
    LET b == find_dwaar_block(lines, name)
    IN  IF b = <<>> THEN lines ELSE SubSeq(lines, 1, b[1] - 1) \o SubSeq(lines, b[2] + 1, Len(lines))

parse_dwaar_config_patch(c) ==
    c.block \in {"analytics", "log_level", "rate_limit_default"} /\ c.action \in {"upsert", "remove"} /\ (c.action = "upsert" => c.value # "")
plan_dwaar_config_patch(lines, c) ==
    IF c.action = "upsert" THEN upsert_dwaar_block(lines, c.block, c.value) ELSE remove_dwaar_block(lines, c.block)

-----------------------------------------------------------------------------
(* Payloads, names and upstreams.  A route's targets are hosts; a host is   *)
(* an address or the name of a container.                                   *)

route_needs_snippet(c) == c.prefix # "" \/ c.analytics
validate_replicas(c) ==
    \/ c.replicas = <<>>
    \/ /\ \A i, j \in DOMAIN c.replicas : (c.replicas[i] = c.replicas[j]) => i = j
       /\ \A i \in DOMAIN c.replicas : c.replicas[i] # ""
       /\ c.host \in Range(c.replicas)
parse_route_add_payload(c) == c.domain # "" /\ c.host # "" /\ validate_replicas(c) /\ c.prefix # "/"
parse_route_remove_domain(c) == c.domain # ""
route_add_targets(c) == IF route_needs_snippet(c) \/ Len(c.replicas) <= 1 THEN <<c.host>> ELSE c.replicas

host_is_literal(h) == h \in gwLoad.addresses
\* A container's address on deploy-net, or on any other network; none if it has none.
resolve_container_addr(n) == {gwLoad.containers[i].address : i \in {j \in DOMAIN gwLoad.containers : gwLoad.containers[j].name = n}} \ {""}
container_slug(k) == k.slug
\* The running container of a slug, the last one listed.
live_app_slugs(slug) ==
    LET at == {i \in DOMAIN gwLoad.containers : container_slug(gwLoad.containers[i]) = slug /\ gwLoad.containers[i].running}
    IN  IF at = {} THEN "" ELSE gwLoad.containers[Max(at)].name
resolve_route_upstream(r) ==
    LET live == IF r.slug = "" THEN "" ELSE live_app_slugs(r.slug)
    IN  resolve_container_addr(IF live = "" THEN r.host ELSE live)
Address(h) == IF host_is_literal(h) THEN {h} ELSE resolve_container_addr(h)
resolve_route_targets(targets) ==
    LET all == [i \in DOMAIN targets |-> Address(targets[i])]
    IN  IF \E i \in DOMAIN all : all[i] = {} THEN <<>>
        ELSE LET ups == [i \in DOMAIN all |-> CHOOSE a \in all[i] : TRUE]
             IN  IF IsInjective(ups) THEN ups ELSE <<>>

\* One name for a route's file and one for its snippet, in one directory.
File(n) == <<"file", n>>
route_file_paths(domain) == <<File(domain), File("route-" \o domain)>>
tcp_proxy_config_path(c) == File("tcp-proxy-" \o c.id)
\* An empty or universal list is no list.
filter_allowed_ips(c) == c.ips \ {"", "0.0.0.0/0", "::/0"}
validate_cidr_or_ip(ip) == ip # "malformed"
validate_target(c) == c.target # ""
build_tcp_proxy_config(c) == [domain |-> "", ups |-> <<c.target>>, only |-> filter_allowed_ips(c), by |-> c.id, lines |-> <<>>]

-----------------------------------------------------------------------------
(* Handlers.                                                                *)

\* Written into the temporary file, which is then renamed.
atomic_write_string == <<"open", "write", "rename">>
persist_route_file == atomic_write_string
persist_route_snippet == atomic_write_string

\* The steps of each handler, in their order.
RouteSteps(r) == IF route_needs_snippet(r) THEN persist_route_snippet \o <<"reload">>
                 ELSE <<"post", "reload">> \o persist_route_file
handle_route_add_command(c) == <<"resolve">> \o RouteSteps(c)
handle_route_remove_command(c) == <<"delete", "unlink", "reload">>
handle_app_proxy_setup_command(c) == <<"runtime">> \o atomic_write_string \o <<"reload">>
handle_app_proxy_remove_command(c) == <<"unlink", "reload">>
handle_tcp_proxy_upsert_command(c) == atomic_write_string \o <<"reload">>
handle_tcp_proxy_stop_command(c) == <<"unlink", "reload">>
handle_dwaar_config_patch_command(c) == <<"read", "backup">> \o atomic_write_string \o <<"restart", "active">>
handle_dwaar_reconcile_command(c) == <<"live">>
handle_dwaar_get_command(c) == <<"ask">>

Steps(c) ==
    CASE c.kind = "route_add" -> handle_route_add_command(c)
      [] c.kind = "route_remove" -> handle_route_remove_command(c)
      [] c.kind = "app_proxy_setup" -> handle_app_proxy_setup_command(c)
      [] c.kind = "app_proxy_remove" -> handle_app_proxy_remove_command(c)
      [] c.kind = "tcp_proxy_upsert" -> handle_tcp_proxy_upsert_command(c)
      [] c.kind = "tcp_proxy_stop" -> handle_tcp_proxy_stop_command(c)
      [] c.kind = "config_patch" -> handle_dwaar_config_patch_command(c)
      [] c.kind = "reconcile" -> handle_dwaar_reconcile_command(c)
      [] c.kind = "look" -> handle_dwaar_get_command(c)

parse_payload(c) ==
    CASE c.kind = "route_add" -> parse_route_add_payload(c)
      [] c.kind = "route_remove" -> parse_route_remove_domain(c)
      [] c.kind = "config_patch" -> parse_dwaar_config_patch(c)
      [] c.kind = "tcp_proxy_upsert" -> validate_target(c) /\ \A ip \in filter_allowed_ips(c) : validate_cidr_or_ip(ip)
      [] OTHER -> TRUE

Key(c) == CASE c.kind \in {"route_add", "route_remove"} -> {c.domain}
            [] c.kind = "reconcile" -> {gwLoad.routes[i].domain : i \in DOMAIN gwLoad.routes}
            [] c.kind = "config_patch" -> {"Dwaarfile"}
            [] c.kind = "look" -> {}
            [] OTHER -> {c.id}

GwInit ==
    /\ gwLoad \in GatewayLoads
    /\ dw = [up |-> TRUE, api |-> Void, loaded |-> Void] /\ names = Void /\ inodes = Void
    /\ conf = gwLoad.conf /\ backups = Void /\ jobs = Void /\ answers = Void /\ gwNow = 0 /\ gwFaults = 0
    /\ settled = Void /\ overlaps = {}

Cmd(i) == gwLoad.commands[i]
\* A handler under which Dwaar stops or another one changes its domain is
\* not alone.
Disturbed == [j \in DOMAIN jobs |-> [jobs[j] EXCEPT !.alone = FALSE]]
Busy(keys) == {i \in DOMAIN jobs : Key(jobs[i].cmd) \cap keys # {}}

command_arrives ==
    /\ \E i \in DOMAIN gwLoad.commands \ (DOMAIN jobs \cup DOMAIN answers) :
         LET c == Cmd(i) IN
         IF ~parse_payload(c) THEN answers' = Put(answers, i, "failed") /\ UNCHANGED <<jobs, settled>>
         ELSE /\ jobs' = Put([j \in DOMAIN jobs |-> [jobs[j] EXCEPT !.alone = @ /\ j \notin Busy(Key(c))]], i,
                             [cmd |-> c, todo |-> Steps(c), ups |-> <<>>, alone |-> Busy(Key(c)) = {}, ino |-> 0,
                              read |-> <<>>, before |-> <<>>, live |-> {}, route |-> 0, counts |-> [added |-> 0, skipped |-> 0, errors |-> 0]])
              /\ settled' = Cut(settled, Key(c)) /\ UNCHANGED answers
    /\ UNCHANGED <<dw, names, inodes, conf, backups, gwNow, gwFaults, overlaps, gwLoad>>

At(i, s) == i \in DOMAIN jobs /\ jobs[i].todo # <<>> /\ Head(jobs[i].todo) = s
Route(i) == IF jobs[i].cmd.kind = "reconcile" THEN gwLoad.routes[jobs[i].route] ELSE jobs[i].cmd
Goes(i) == [jobs[i] EXCEPT !.todo = Tail(@)]

\* What a completed handler leaves, if no other one touched the domain.
Kept(i) ==
    LET j == jobs[i]
        c == j.cmd IN
    IF ~j.alone \/ Key(c) = {} THEN settled
    ELSE CASE c.kind \in {"route_add", "reconcile"} ->
                  Put(settled, Route(i).domain, [kind |-> "added", ups |-> j.ups, snippet |-> route_needs_snippet(Route(i))])
           [] c.kind = "route_remove" -> Put(settled, c.domain, [kind |-> "removed"])
           [] c.kind = "config_patch" -> Put(settled, "Dwaarfile", [kind |-> "patched", cmd |-> c, before |-> j.before])
           [] OTHER -> settled

Ends(i, status) == jobs' = Cut(jobs, {i}) /\ answers' = Put(answers, i, status)

\* The next route of the reconciler after this one, skipping the incomplete
\* ones and those that were live when it began.
next_route(j, from) ==
    LET wanted == {k \in DOMAIN gwLoad.routes : k > from /\ gwLoad.routes[k].domain # ""}
        skip == {k \in wanted : gwLoad.routes[k].domain \in j.live /\ ~route_needs_snippet(gwLoad.routes[k])}
        rest == wanted \ skip
    IN  IF rest = {} THEN [j EXCEPT !.route = Len(gwLoad.routes) + 1, !.todo = <<"report">>, !.counts.skipped = Cardinality({k \in skip : TRUE}) + @]
        ELSE LET k == Min(rest)
             IN  [j EXCEPT !.route = k, !.ups = <<>>, !.todo = <<"resolve">> \o RouteSteps(gwLoad.routes[k]),
                           !.counts.skipped = @ + Cardinality({s \in skip : s < k})]

\* A step succeeded: go on, or finish.
Proceeds(i, j) ==
    IF j.todo # <<>> THEN jobs' = [jobs EXCEPT ![i] = j] /\ UNCHANGED <<answers, settled>>
    ELSE IF j.cmd.kind = "reconcile"
         THEN jobs' = [jobs EXCEPT ![i] = next_route([j EXCEPT !.counts.added = @ + 1], j.route)] /\ settled' = Kept(i) /\ UNCHANGED answers
         ELSE Ends(i, "completed") /\ settled' = Kept(i)

\* A step failed: the file of a plain route is only worth a warning, a route
\* of the reconciler an entry in its summary.
BestEffort(i) == Route(i).kind \in {"route_add", "route"} /\ ~route_needs_snippet(Route(i)) /\ Head(jobs[i].todo) \in {"open", "write", "rename"}
Fails(i) ==
    IF jobs[i].cmd.kind \in {"route_add", "reconcile"} /\ jobs[i].todo # <<"live">> /\ BestEffort(i)
    THEN IF jobs[i].cmd.kind = "reconcile"
         THEN jobs' = [jobs EXCEPT ![i] = next_route([jobs[i] EXCEPT !.counts.added = @ + 1], jobs[i].route)] /\ UNCHANGED <<answers, settled>>
         ELSE Ends(i, "completed") /\ UNCHANGED settled
    ELSE IF jobs[i].cmd.kind = "reconcile" /\ jobs[i].todo # <<"live">>
         THEN jobs' = [jobs EXCEPT ![i] = next_route([jobs[i] EXCEPT !.counts.errors = @ + 1], jobs[i].route)] /\ UNCHANGED <<answers, settled>>
         ELSE Ends(i, "failed") /\ UNCHANGED settled

\* The step did its work, or there is a fault.
Trouble == gwFaults < gwLoad.faults /\ gwFaults' = gwFaults + 1

resolve_step ==
    /\ \E i \in DOMAIN jobs : At(i, "resolve") /\
         LET r == Route(i)
             ups == IF jobs[i].cmd.kind = "reconcile"
                    THEN (IF resolve_route_upstream(r) = {} THEN <<>> ELSE <<CHOOSE a \in resolve_route_upstream(r) : TRUE>>)
                    ELSE resolve_route_targets(route_add_targets(r))
         IN  IF ups = <<>> THEN Fails(i) ELSE Proceeds(i, [Goes(i) EXCEPT !.ups = ups])
    /\ UNCHANGED <<dw, names, inodes, conf, backups, gwNow, gwFaults, overlaps, gwLoad>>

\* Dwaar takes the route, or answers 400 and more, or cannot be reached.
post_route ==
    /\ \E i \in DOMAIN jobs : At(i, "post") /\
         \/ dw.up /\ dw' = [dw EXCEPT !.api = Put(@, Route(i).domain, jobs[i].ups)] /\ Proceeds(i, Goes(i)) /\ UNCHANGED gwFaults
         \/ ~dw.up /\ Fails(i) /\ UNCHANGED <<dw, gwFaults>>
         \/ dw.up /\ Trouble /\ Fails(i) /\ UNCHANGED dw
    /\ UNCHANGED <<names, inodes, conf, backups, gwNow, overlaps, gwLoad>>

\* A route Dwaar does not have is as good as removed.
delete_route ==
    /\ \E i \in DOMAIN jobs : At(i, "delete") /\
         \/ dw.up /\ dw' = [dw EXCEPT !.api = Cut(@, {Route(i).domain})] /\ Proceeds(i, Goes(i)) /\ UNCHANGED gwFaults
         \/ ~dw.up /\ Fails(i) /\ UNCHANGED <<dw, gwFaults>>
    /\ UNCHANGED <<names, inodes, conf, backups, gwNow, overlaps, gwLoad>>

Finals == {n \in DOMAIN names : n[1] = "file"}
Loading == [n \in Finals |-> inodes[names[n]]]

\* Over the socket, or with the command line tool when the socket fails.  A
\* reload that Dwaar puts off (429) counts as done.
reload_dwaar ==
    /\ \E i \in DOMAIN jobs : At(i, "reload") /\
         \/ dw.up /\ dw' = [dw EXCEPT !.loaded = Loading] /\ Proceeds(i, Goes(i)) /\ UNCHANGED gwFaults
         \/ dw.up /\ Trouble /\ gwLoad.throttles /\ Proceeds(i, Goes(i)) /\ UNCHANGED dw
         \/ ~dw.up /\ Fails(i) /\ UNCHANGED <<dw, gwFaults>>
    /\ UNCHANGED <<names, inodes, conf, backups, gwNow, overlaps, gwLoad>>

\* Dwaar is started if it does not run, and must answer.
ensure_dwaar_runtime ==
    /\ \E i \in DOMAIN jobs : At(i, "runtime") /\
         \/ dw' = (IF dw.up THEN dw ELSE [up |-> TRUE, api |-> Void, loaded |-> Loading]) /\ Proceeds(i, Goes(i)) /\ UNCHANGED gwFaults
         \/ Trouble /\ Fails(i) /\ UNCHANGED dw
    /\ UNCHANGED <<names, inodes, conf, backups, gwNow, overlaps, gwLoad>>

\* The file a handler writes and what it writes.
Target(i) ==
    LET c == jobs[i].cmd IN
    CASE c.kind \in {"route_add", "reconcile"} ->
             route_file_paths(Route(i).domain)[IF route_needs_snippet(Route(i)) THEN 2 ELSE 1]
      [] c.kind = "tcp_proxy_upsert" -> tcp_proxy_config_path(c)
      [] c.kind = "config_patch" -> File("Dwaarfile")
      [] OTHER -> File(c.id)
Content(i) ==
    LET c == jobs[i].cmd IN
    CASE c.kind \in {"route_add", "reconcile"} -> [domain |-> Route(i).domain, ups |-> <<jobs[i].ups[1]>>, only |-> {}, by |-> Route(i).domain, lines |-> <<>>]
      [] c.kind = "tcp_proxy_upsert" -> build_tcp_proxy_config(c)
      [] OTHER -> [domain |-> "", ups |-> <<>>, only |-> {}, by |-> c.id, lines |-> jobs[i].read]
Tmp(i) == <<"tmp", Target(i)[2]>>
Half(i) == [text |-> [Content(i) EXCEPT !.lines = <<>>], whole |-> FALSE]

\* Mutant: the file is written in place.
open_in_place ==
    /\ \E i \in DOMAIN jobs : At(i, "open") /\
         LET n == Target(i)
             ino == IF n \in DOMAIN names THEN names[n] ELSE Max({0} \cup DOMAIN inodes) + 1
         IN  /\ names' = Put(Put(names, Tmp(i), ino), n, ino) /\ inodes' = Put(inodes, ino, Half(i))
             /\ Proceeds(i, [Goes(i) EXCEPT !.ino = ino])
    /\ UNCHANGED <<dw, conf, backups, gwNow, gwFaults, overlaps, gwLoad>>

\* The temporary file is created, or emptied if it is there.
open_tmp ==
    /\ \E i \in DOMAIN jobs : At(i, "open") /\
         LET ino == IF Tmp(i) \in DOMAIN names THEN names[Tmp(i)] ELSE Max({0} \cup DOMAIN inodes) + 1
         IN  /\ names' = Put(names, Tmp(i), ino) /\ inodes' = Put(inodes, ino, Half(i))
             /\ overlaps' = IF \E k \in DOMAIN jobs \ {i} : jobs[k].ino = ino THEN overlaps \cup {Target(i)} ELSE overlaps
             /\ Proceeds(i, [Goes(i) EXCEPT !.ino = ino])
    /\ UNCHANGED <<dw, conf, backups, gwNow, gwFaults, gwLoad>>

\* Into the inode the handler opened, whatever its name is by now, over what
\* another handler wrote into it.
Over(new, old) == [new EXCEPT !.lines = @ \o SubSeq(old.lines, Len(@) + 1, Len(old.lines))]
write_tmp ==
    /\ \E i \in DOMAIN jobs : At(i, "write") /\
         \/ /\ inodes' = [inodes EXCEPT ![jobs[i].ino] = [text |-> Over(Content(i), @.text), whole |-> TRUE]]
            /\ Proceeds(i, Goes(i)) /\ UNCHANGED <<names, gwFaults>>
         \/ Trouble /\ Fails(i) /\ names' = Cut(names, {Tmp(i)}) /\ UNCHANGED inodes
    /\ UNCHANGED <<dw, conf, backups, gwNow, overlaps, gwLoad>>

rename_tmp ==
    /\ \E i \in DOMAIN jobs : At(i, "rename") /\
         IF Tmp(i) \notin DOMAIN names THEN Fails(i) /\ UNCHANGED <<names, conf>>
         ELSE /\ names' = IF Target(i) = File("Dwaarfile") THEN Cut(names, {Tmp(i)})
                          ELSE Put(Cut(names, {Tmp(i)}), Target(i), names[Tmp(i)])
              /\ conf' = IF Target(i) = File("Dwaarfile") THEN inodes[names[Tmp(i)]].text.lines ELSE conf
              /\ Proceeds(i, [Goes(i) EXCEPT !.ino = 0])
    /\ UNCHANGED <<dw, inodes, backups, gwNow, gwFaults, overlaps, gwLoad>>

\* A file that is not there is no error.
remove_route_files ==
    /\ \E i \in DOMAIN jobs : At(i, "unlink") /\
         LET c == jobs[i].cmd
             gone == CASE c.kind = "route_remove" -> Range(route_file_paths(c.domain))
                       [] c.kind = "tcp_proxy_stop" -> {tcp_proxy_config_path(c)}
                       [] OTHER -> {File(c.id)}
         IN  names' = Cut(names, gone) /\ Proceeds(i, Goes(i))
    /\ UNCHANGED <<dw, inodes, conf, backups, gwNow, gwFaults, overlaps, gwLoad>>

\* The plan is made from the file as it is now, and written later.
patch_reads ==
    /\ \E i \in DOMAIN jobs : At(i, "read") /\ Proceeds(i, [Goes(i) EXCEPT !.read = plan_dwaar_config_patch(conf, jobs[i].cmd), !.before = conf])
    /\ UNCHANGED <<dw, names, inodes, conf, backups, gwNow, gwFaults, overlaps, gwLoad>>

\* Named by the second, the oldest ones removed.
prune_backups(bs) ==
    LET old == {s \in DOMAIN bs : Cardinality({t \in DOMAIN bs : t > s}) >= Retention} IN Cut(bs, old)
write_backup ==
    /\ \E i \in DOMAIN jobs : At(i, "backup") /\ backups' = prune_backups(Put(backups, gwNow, conf)) /\ Proceeds(i, Goes(i))
    /\ UNCHANGED <<dw, names, inodes, conf, gwNow, gwFaults, overlaps, gwLoad>>

dwaar_restart_step ==
    /\ \E i \in DOMAIN jobs : At(i, "restart") /\
         \/ /\ dw' = [up |-> TRUE, api |-> Void, loaded |-> Loading] /\ UNCHANGED <<gwFaults, answers, settled>>
            /\ jobs' = [Disturbed EXCEPT ![i] = Goes(i)]
         \/ Trouble /\ dw' = [dw EXCEPT !.up = FALSE, !.api = Void] /\ jobs' = Cut(Disturbed, {i}) /\ answers' = Put(answers, i, "failed") /\ UNCHANGED settled
    /\ UNCHANGED <<names, inodes, conf, backups, gwNow, overlaps, gwLoad>>
active_check ==
    /\ \E i \in DOMAIN jobs : At(i, "active") /\ (IF dw.up THEN Proceeds(i, Goes(i)) ELSE Fails(i))
    /\ UNCHANGED <<dw, names, inodes, conf, backups, gwNow, gwFaults, overlaps, gwLoad>>

\* The reconciler asks the control plane for the routes and reads the live
\* ones once; either may fail.
fetch_live_routes ==
    /\ \E i \in DOMAIN jobs : At(i, "live") /\
         \/ /\ dw.up /\ UNCHANGED <<answers, settled, gwFaults>>
            /\ jobs' = [jobs EXCEPT ![i] = next_route([jobs[i] EXCEPT !.live = DOMAIN dw.api \cup {dw.loaded[n].text.domain : n \in DOMAIN dw.loaded}], 0)]
         \/ (IF dw.up THEN Trouble ELSE UNCHANGED gwFaults) /\ Fails(i)
    /\ UNCHANGED <<dw, names, inodes, conf, backups, gwNow, overlaps, gwLoad>>
reconcile_reports ==
    /\ \E i \in DOMAIN jobs : At(i, "report") /\ jobs' = Cut(jobs, {i}) /\ answers' = Put(answers, i, "completed")
    /\ UNCHANGED <<dw, names, inodes, conf, backups, gwNow, gwFaults, settled, overlaps, gwLoad>>

\* GET, PURGE: nothing changes.
dwaar_get ==
    /\ \E i \in DOMAIN jobs : At(i, "ask") /\ Ends(i, IF dw.up THEN "completed" ELSE "failed")
    /\ UNCHANGED <<dw, names, inodes, conf, backups, gwNow, gwFaults, settled, overlaps, gwLoad>>

\* External: Dwaar stops, under the handlers that run, or comes back with the files.  The agent may stop,
\* which ends its handlers where they are.
dwaar_stops ==
    /\ dw.up /\ Trouble /\ dw' = [dw EXCEPT !.up = FALSE, !.api = Void] /\ jobs' = Disturbed
    /\ UNCHANGED <<names, inodes, conf, backups, answers, gwNow, settled, overlaps, gwLoad>>
dwaar_starts ==
    /\ ~dw.up /\ dw' = [up |-> TRUE, api |-> Void, loaded |-> Loading]
    /\ UNCHANGED <<names, inodes, conf, backups, jobs, answers, gwNow, gwFaults, settled, overlaps, gwLoad>>
agent_stops ==
    /\ jobs # Void /\ Trouble
    /\ answers' = [i \in DOMAIN answers \cup DOMAIN jobs |-> IF i \in DOMAIN jobs THEN "lost" ELSE answers[i]] /\ jobs' = Void
    /\ UNCHANGED <<dw, names, inodes, conf, backups, gwNow, settled, overlaps, gwLoad>>
gw_clock ==
    /\ gwNow < gwLoad.end /\ gwNow' = gwNow + 1
    /\ UNCHANGED <<dw, names, inodes, conf, backups, jobs, answers, gwFaults, settled, overlaps, gwLoad>>

GwNext ==
    \/ command_arrives \/ resolve_step \/ post_route \/ delete_route \/ reload_dwaar \/ ensure_dwaar_runtime
    \/ open_tmp \/ write_tmp \/ rename_tmp \/ remove_route_files \/ patch_reads \/ write_backup
    \/ dwaar_restart_step \/ active_check \/ fetch_live_routes \/ reconcile_reports \/ dwaar_get
    \/ dwaar_stops \/ dwaar_starts \/ agent_stops \/ gw_clock

-----------------------------------------------------------------------------
\* No file that Dwaar may load is half written, wherever the agent stops,
\* unless two handlers wrote that file at once (they share its temporary
\* name: atomic_write_string, persist_route_file).
FilesWhole ==
    /\ \A n \in Finals : n \in overlaps \/ inodes[names[n]].whole
    /\ \A n \in DOMAIN dw.loaded : n \in overlaps \/ dw.loaded[n].whole

\* A route whose last change was alone and completed is where it should be:
\* added, Dwaar serves it, also after a restart, though then with its first
\* upstream only; removed, no file of it is left and the API does not have
\* it.  A reload that Dwaar put off, and a file that could not be written,
\* are the exceptions (handle_route_add_command, handle_route_remove_command).
RoutesSettle ==
    \A d \in DOMAIN settled \ {"Dwaarfile"} :
        LET s == settled[d]
            file == route_file_paths(d)[IF s.kind = "added" /\ s.snippet THEN 2 ELSE 1]
        IN  IF s.kind = "removed" THEN
                /\ Range(route_file_paths(d)) \cap Finals = {} /\ d \notin DOMAIN dw.api
                /\ (~gwLoad.throttles /\ Range(route_file_paths(d)) \cap overlaps = {}) => Range(route_file_paths(d)) \cap DOMAIN dw.loaded = {}
            ELSE /\ file \in Finals /\ inodes[names[file]].text.ups = <<s.ups[1]>>
                 /\ dw.up => \/ d \in DOMAIN dw.api /\ dw.api[d] = s.ups
                             \/ file \in DOMAIN dw.loaded /\ dw.loaded[file].text.ups = <<s.ups[1]>>
                             \/ gwLoad.throttles

\* A patch of the Dwaarfile that was alone and completed reads back, and the
\* lines of every other block are as they were before it, in their order.  A
\* global block on one line is the exception: the patch goes behind it, where
\* the next one does not look (upsert_dwaar_block, find_dwaar_block).
OneLineGlobal(lines) == LET g == find_dwaar_global_block(lines) IN g # <<>> /\ g[1] = g[2]
PatchesKept ==
    /\ "Dwaarfile" \in DOMAIN settled =>
         LET s == settled["Dwaarfile"]
             others(ls) == LET b == find_dwaar_block(ls, s.cmd.block)
                           IN  IF b = <<>> THEN ls ELSE SubSeq(ls, 1, b[1] - 1) \o SubSeq(ls, b[2] + 1, Len(ls))
         IN  \/ OneLineGlobal(s.before)
             \/ /\ others(conf) = others(s.before)
                /\ extract_dwaar_block_body(conf, s.cmd.block) = IF s.cmd.action = "upsert" THEN <<s.cmd.value>> ELSE <<>>
    /\ Cardinality(DOMAIN backups) <= Retention

GatewayHolds == FilesWhole /\ RoutesSettle /\ PatchesKept
===============================================================================
