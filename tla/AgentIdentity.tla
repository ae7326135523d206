----------------------------- MODULE AgentIdentity -----------------------------
(***************************************************************************)
(* What the hosted agent may change about itself (src/src/self_update.rs,  *)
(* control_plane_identity.rs, control_plane_identity_files.rs,             *)
(* agent_crypto.rs and their handlers in command.rs): its binary, the pair *)
(* of server id and secret in its environment file, the gateway's token,   *)
(* its enrolment, and its own removal.                                     *)
(*                                                                         *)
(* Handlers run at once, in steps; the agent may stop between any two, and *)
(* some handlers make it exit a little later.  Contents are sequences of   *)
(* chunks, and a checksum is the content it was made from.  The installer, *)
(* systemd and Dwaar are external.                                         *)
(***************************************************************************)
EXTENDS Integers, Sequences, FiniteSets, SequencesExt, Functions

CONSTANTS
    IdentityLoads,      \* the commands, the files at the start and what may fail; see IdInit
    MaxBinary           \* MAX_AGENT_BINARY_SIZE, in chunks

IdKinds == {"update", "bootstrap", "rotate", "rotate_agent", "reenroll", "uninstall"}
Secrets == {"SERVER_ID", "AGENT_SECRET"}

\* The commands are of these kinds, an installer issues a pair, and the file of
\* the start is an installer's: one line for each half of the pair.
ASSUME IdentityAssumption ==
    /\ MaxBinary \in Nat
    /\ \A l \in IdentityLoads :
         /\ l.key \in Nat /\ l.env \in Seq(STRING \X STRING)
         /\ \A i \in DOMAIN l.commands :
              /\ l.commands[i].kind \in IdKinds
              /\ l.commands[i].kind = "reenroll" => l.commands[i].gives \in STRING \X STRING
         /\ \A k \in Secrets : \E i \in DOMAIN l.env : \A j \in DOMAIN l.env : l.env[j][1] = k <=> j = i

VARIABLES
    agent,      \* the process: up, binary, id, secret, key, apex, leaving
    hostFiles,       \* the files: binary, env, token, dropIn, prev, key, script, unit
    gate,       \* Dwaar: up, token, env (started with the drop-in)
    temps,      \* the temporary files of updates: owner -> content
    work,       \* the handlers that run: command -> what they know
    said,       \* command -> its final result
    idFaults,
    installs,   \* history: the commands whose binary was installed, in order
    announced,  \* history: the key of the first start
    asked,      \* history: the identities of the installers' downloads
    slips,      \* history: what failed half way
    idLoad

idVars == <<agent, hostFiles, gate, temps, work, said, idFaults, installs, announced, asked, slips, idLoad>>

IdWith(f, x, v) == [y \in DOMAIN f \cup {x} |-> IF y = x THEN v ELSE f[y]]
IdWithout(f, s) == [y \in DOMAIN f \ s |-> f[y]]
Nil == [x \in {} |-> 0]
BROKEN == <<"broken">>

-----------------------------------------------------------------------------
(* Updates.                                                                 *)

validate_expected_checksum(c) == c.expected # <<>>
validate_download_url(c) == c.url.scheme = "https"
parse_update_payload(c) ==
    /\ validate_expected_checksum(c)
    /\ c.inline # <<>> \/ c.url.scheme # "" \/ c.version # ""
    /\ c.url.scheme # "" => validate_download_url(c)

\* What was read, if it is not too large.
copy_reader_capped(content) == IF Len(content) > MaxBinary THEN BROKEN ELSE content

\* The chunks in their sequence, the first with the size and the checksum of
\* the whole, each of which may be missing.
stream_agent_binary(c) ==
    LET data == FoldLeft(LAMBDA d, ch : d \o ch.data, <<>>, c.chunks) IN
    IF \/ c.version = "" \/ c.chunks = <<>>
       \/ \E i \in DOMAIN c.chunks : c.chunks[i].seq # i - 1
       \/ c.chunks[1].checksum \notin {<<>>, c.expected}
       \/ c.chunks[1].total > MaxBinary \/ Len(data) > MaxBinary
       \/ c.chunks[1].total > 0 /\ Len(data) # c.chunks[1].total
    THEN BROKEN ELSE data

download_binary_with_curl(c) == IF c.url.scheme = "" THEN BROKEN ELSE copy_reader_capped(c.url.serves)

-----------------------------------------------------------------------------
(* The environment file: lines with a key and a value.                      *)

\* The other lines: at[i] of the first i lines.
OthersOf(env) ==
    LET at[i \in 0..Len(env)] ==
          IF i = 0 THEN <<>>
          ELSE IF env[i][1] \in Secrets \cup {""} THEN at[i - 1] ELSE Append(at[i - 1], env[i])
    IN  at
Others(env) == OthersOf(env)[Len(env)]
rewrite_agent_env_file(env, id, secret) == Others(env) \o <<<<"SERVER_ID", id>>, <<"AGENT_SECRET", secret>>>>
validate_env_value(v) == v \notin {"", "malformed"}

\* What the next start reads: the last line of a key counts.
required_env(env, k) ==
    LET at == {i \in DOMAIN env : env[i][1] = k} IN
    IF at = {} THEN "" ELSE env[CHOOSE i \in at : \A j \in at : j <= i][2]
Pair(env) == <<required_env(env, "SERVER_ID"), required_env(env, "AGENT_SECRET")>>

\* Sealed to the agent's public key.
open_from_agent(c) == c.sealed = agent.key
validate_internal_apex(c) == c.apex # "malformed"
validate_install_url(c) == c.url.scheme = "https" \/ (c.url.scheme = "http" /\ c.url.host = "localhost")
build_uninstall_plan == <<"prune", "dwaar", "legacy", "stop", "files">>

\* The steps of each handler, in their order.
update_agent == <<"temp", "fetch", "install">>
apply_cloudflare_token == <<"token", "readback", "dropin", "daemon_reload", "reload", "verify">>
handle_bootstrap_secrets == <<"decrypt">> \o apply_cloudflare_token
handle_rotate_secrets == <<"decrypt">> \o apply_cloudflare_token
handle_rotate_agent_secret == <<"read_env", "write_env">>
handle_reenroll_command == <<"persist", "download", "script", "run">>
handle_uninstall_command == build_uninstall_plan
IdSteps(c) ==
    CASE c.kind = "update" -> update_agent
      [] c.kind = "bootstrap" -> handle_bootstrap_secrets
      [] c.kind = "rotate" -> handle_rotate_secrets
      [] c.kind = "rotate_agent" -> handle_rotate_agent_secret
      [] c.kind = "reenroll" -> handle_reenroll_command
      [] c.kind = "uninstall" -> handle_uninstall_command

parse_secrets_payload(c) == validate_internal_apex(c)
parse_command(c) ==
    CASE c.kind = "update" -> parse_update_payload(c)
      [] c.kind \in {"bootstrap", "rotate"} -> parse_secrets_payload(c)
      [] c.kind = "rotate_agent" -> c.secret # ""
      [] c.kind = "reenroll" -> validate_install_url(c)
      [] OTHER -> TRUE

IdInit ==
    /\ idLoad \in IdentityLoads
    /\ hostFiles = [binary |-> <<"old">>, env |-> idLoad.env, token |-> idLoad.token, dropIn |-> idLoad.token # "",
               prev |-> "", key |-> idLoad.key, script |-> "", unit |-> TRUE]
    /\ gate = [up |-> TRUE, token |-> idLoad.token, env |-> idLoad.token # ""]
    /\ agent = [up |-> FALSE, binary |-> <<>>, id |-> "", secret |-> "", key |-> 0, apex |-> "", leaving |-> FALSE]
    /\ temps = Nil /\ work = Nil /\ said = Nil /\ idFaults = 0 /\ installs = <<>> /\ announced = 0 /\ asked = {} /\ slips = {}

\* Nothing starts without the pair; a first start makes the key.
load_or_generate(key) == IF key # 0 THEN key ELSE announced + 1
\* Written beside it and renamed: a start that stops before leaves no key.
persist_private_key(k) == [hostFiles EXCEPT !.key = k]
boot ==
    LET p == Pair(hostFiles.env)
        k == load_or_generate(hostFiles.key) IN
    /\ ~agent.up /\ hostFiles.unit /\ p[1] # "" /\ p[2] # ""
    /\ agent' = [up |-> TRUE, binary |-> hostFiles.binary, id |-> p[1], secret |-> p[2], key |-> k, apex |-> "", leaving |-> FALSE]
    /\ hostFiles' = persist_private_key(k)
    /\ announced' = IF announced = 0 THEN k ELSE announced
    /\ slips' = slips \ {"installer"}
    /\ UNCHANGED <<gate, temps, work, said, idFaults, installs, asked, idLoad>>

\* An uninstall is answered before it begins.
id_command ==
    /\ agent.up
    /\ \E i \in DOMAIN idLoad.commands \ (DOMAIN work \cup DOMAIN said) :
         LET c == idLoad.commands[i] IN
         IF ~parse_command(c) THEN said' = IdWith(said, i, "failed") /\ UNCHANGED work
         ELSE /\ work' = IdWith(work, i, [cmd |-> c, todo |-> IdSteps(c), got |-> <<>>, changed |-> FALSE])
              /\ said' = IF c.kind = "uninstall" THEN IdWith(said, i, "completed") ELSE said
    /\ UNCHANGED <<agent, hostFiles, gate, temps, idFaults, installs, announced, asked, slips, idLoad>>

Does(i, s) == i \in DOMAIN work /\ Head(work[i].todo) = s
Step(i) == [work[i] EXCEPT !.todo = Tail(@)]
Moves(w) == work' = w /\ UNCHANGED said
\* What stops with the process: the commands without a result, and a token
\* that was on its way.
LostCommands == [j \in DOMAIN said \cup DOMAIN work |-> IF j \in DOMAIN said THEN said[j] ELSE "lost"]
LostTokens == IF \E i \in DOMAIN work : work[i].cmd.kind \in {"bootstrap", "rotate"} THEN {"token"} ELSE {}
Finishes(i, r) == work' = IdWithout(work, {i}) /\ said' = IdWith(said, i, r)
IdFault == idFaults < idLoad.faults /\ idFaults' = idFaults + 1

-----------------------------------------------------------------------------
\* A new name for every update; nothing else has it.
TempUpdate ==
    /\ \E i \in DOMAIN work : Does(i, "temp") /\ temps' = IdWith(temps, i, <<>>) /\ Moves([work EXCEPT ![i] = Step(i)])
    /\ UNCHANGED <<agent, hostFiles, gate, idFaults, installs, announced, asked, slips, idLoad>>

\* Inline, or streamed, or when the stream fails from the URL.  The temporary
\* file of an update that fails is removed.
fetch_binary ==
    /\ \E i \in DOMAIN work : Does(i, "fetch") /\
         LET c == work[i].cmd
             take(content) == IF content = BROKEN THEN temps' = IdWithout(temps, {i}) /\ Finishes(i, "failed")
                              ELSE temps' = [temps EXCEPT ![i] = content] /\ Moves([work EXCEPT ![i] = Step(i)])
         IN  \/ c.inline # <<>> /\ take(copy_reader_capped(c.inline)) /\ UNCHANGED idFaults
             \/ /\ c.inline = <<>> /\ UNCHANGED idFaults
                /\ take(IF stream_agent_binary(c) # BROKEN THEN stream_agent_binary(c) ELSE download_binary_with_curl(c))
             \/ c.inline = <<>> /\ IdFault /\ take(download_binary_with_curl(c))
    /\ UNCHANGED <<agent, hostFiles, gate, installs, announced, asked, slips, idLoad>>

\* Mutant: what was fetched is installed whatever its checksum.
install_unchecked ==
    /\ \E i \in DOMAIN work : Does(i, "install") /\
         /\ hostFiles' = [hostFiles EXCEPT !.binary = temps[i]] /\ installs' = Append(installs, i)
         /\ agent' = [agent EXCEPT !.leaving = TRUE] /\ temps' = IdWithout(temps, {i}) /\ Finishes(i, "completed")
    /\ UNCHANGED <<gate, idFaults, announced, asked, slips, idLoad>>

\* Renamed over the running binary once its checksum is the expected one.
install_tmp_binary ==
    /\ \E i \in DOMAIN work : Does(i, "install") /\
         \/ /\ temps[i] = work[i].cmd.expected /\ UNCHANGED idFaults
            /\ hostFiles' = [hostFiles EXCEPT !.binary = temps[i]] /\ installs' = Append(installs, i)
            /\ agent' = [agent EXCEPT !.leaving = TRUE] /\ temps' = IdWithout(temps, {i}) /\ Finishes(i, "completed")
         \/ /\ IF temps[i] = work[i].cmd.expected THEN IdFault ELSE UNCHANGED idFaults
            /\ temps' = IdWithout(temps, {i}) /\ Finishes(i, "failed") /\ UNCHANGED <<hostFiles, installs, agent>>
    /\ UNCHANGED <<gate, announced, asked, slips, idLoad>>

-----------------------------------------------------------------------------
\* The result of a token handler carries the apex, if it is there.
Applied(i, r) == Finishes(i, r) /\ agent' = IF work[i].cmd.apex = "" THEN agent ELSE [agent EXCEPT !.apex = work[i].cmd.apex]

\* A rotation to the token of the file ends here.
decrypt_agent_text ==
    /\ \E i \in DOMAIN work : Does(i, "decrypt") /\
         LET c == work[i].cmd IN
         IF c.token = "" THEN Applied(i, "no_cf_token")
         ELSE IF ~open_from_agent(c) \/ ~validate_env_value(c.token) THEN Finishes(i, "failed") /\ UNCHANGED agent
         ELSE IF c.kind = "rotate" /\ hostFiles.token = c.token THEN Applied(i, "cf_token_unchanged")
         ELSE Moves([work EXCEPT ![i] = Step(i)]) /\ UNCHANGED agent
    /\ UNCHANGED <<hostFiles, gate, temps, idFaults, installs, announced, asked, slips, idLoad>>

write_token ==
    /\ \E i \in DOMAIN work : Does(i, "token") /\
         LET changed == hostFiles.token # work[i].cmd.token IN
         /\ hostFiles' = [hostFiles EXCEPT !.token = work[i].cmd.token]
         /\ Moves([work EXCEPT ![i] = [Step(i) EXCEPT !.changed = changed]])
    /\ UNCHANGED <<agent, gate, temps, idFaults, installs, announced, asked, slips, idLoad>>

read_back ==
    /\ \E i \in DOMAIN work : Does(i, "readback") /\
         IF work[i].changed /\ hostFiles.token # work[i].cmd.token THEN Finishes(i, "failed") ELSE Moves([work EXCEPT ![i] = Step(i)])
    /\ UNCHANGED <<agent, hostFiles, gate, temps, idFaults, installs, announced, asked, slips, idLoad>>

\* Half way: the file has the token and Dwaar does not.
Slips(i) == IdFault /\ slips' = slips \cup {"token"} /\ Finishes(i, "failed")

ensure_dwaar_cf_token_drop_in ==
    /\ \E i \in DOMAIN work : Does(i, "dropin") /\
         \/ /\ hostFiles' = [hostFiles EXCEPT !.dropIn = TRUE] /\ UNCHANGED <<idFaults, slips>>
            /\ Moves([work EXCEPT ![i] = [Step(i) EXCEPT !.changed = @ \/ ~hostFiles.dropIn]])
         \/ ~hostFiles.dropIn /\ Slips(i) /\ UNCHANGED hostFiles
    /\ UNCHANGED <<agent, gate, temps, installs, announced, asked, idLoad>>

\* daemon-reload, then reload: Dwaar reads the file again.  Its environment
\* stays that of its start.
reload_for_token ==
    /\ \E i \in DOMAIN work : (Does(i, "daemon_reload") \/ Does(i, "reload")) /\
         \/ /\ gate' = IF work[i].changed /\ Does(i, "reload") /\ gate.up THEN [gate EXCEPT !.token = hostFiles.token] ELSE gate
            /\ Moves([work EXCEPT ![i] = Step(i)]) /\ UNCHANGED <<idFaults, slips>>
         \/ work[i].changed /\ Slips(i) /\ UNCHANGED gate
    /\ UNCHANGED <<agent, hostFiles, temps, installs, announced, asked, idLoad>>

verify_dwaar_env ==
    /\ \E i \in DOMAIN work : Does(i, "verify") /\
         IF gate.up /\ ~gate.env THEN Finishes(i, "failed") /\ UNCHANGED agent ELSE Applied(i, "completed")
    /\ UNCHANGED <<hostFiles, gate, temps, idFaults, installs, announced, asked, slips, idLoad>>

-----------------------------------------------------------------------------
\* The file is read, and replaced by what was made of it; the agent exits
\* two seconds later.
read_env_file ==
    /\ \E i \in DOMAIN work : Does(i, "read_env") /\
         IF ~open_from_agent(work[i].cmd) \/ ~validate_env_value(work[i].cmd.secret) THEN Finishes(i, "failed")
         ELSE Moves([work EXCEPT ![i] = [Step(i) EXCEPT !.got = rewrite_agent_env_file(hostFiles.env, agent.id, work[i].cmd.secret)]])
    /\ UNCHANGED <<agent, hostFiles, gate, temps, idFaults, installs, announced, asked, slips, idLoad>>
write_env_file ==
    /\ \E i \in DOMAIN work : Does(i, "write_env") /\
         \/ /\ hostFiles' = [hostFiles EXCEPT !.env = work[i].got] /\ agent' = [agent EXCEPT !.leaving = TRUE]
            /\ Finishes(i, "completed") /\ UNCHANGED idFaults
         \/ IdFault /\ Finishes(i, "failed") /\ UNCHANGED <<hostFiles, agent>>
    /\ UNCHANGED <<gate, temps, installs, announced, asked, slips, idLoad>>

-----------------------------------------------------------------------------
\* The id is kept for the next enrolment, if it can be.
persist_previous_server_id ==
    /\ \E i \in DOMAIN work : Does(i, "persist") /\ Moves([work EXCEPT ![i] = Step(i)])
    /\ \/ hostFiles' = [hostFiles EXCEPT !.prev = agent.id] /\ UNCHANGED <<idFaults, slips>>
       \/ IdFault /\ slips' = slips \cup {"previous"} /\ UNCHANGED hostFiles
    /\ UNCHANGED <<agent, gate, temps, installs, announced, asked, idLoad>>

\* The URL names what the file has, if anything.
download_installer_with_curl ==
    /\ \E i \in DOMAIN work : Does(i, "download") /\
         /\ asked' = asked \cup {[by |-> agent.id, previous |-> hostFiles.prev]}
         /\ \/ Moves([work EXCEPT ![i] = Step(i)]) /\ UNCHANGED idFaults
            \/ IdFault /\ Finishes(i, "failed")
    /\ UNCHANGED <<agent, hostFiles, gate, temps, installs, announced, slips, idLoad>>

write_reenroll_script ==
    /\ \E i \in DOMAIN work : Does(i, "script") /\ hostFiles' = [hostFiles EXCEPT !.script = i] /\ Moves([work EXCEPT ![i] = Step(i)])
    /\ UNCHANGED <<agent, gate, temps, idFaults, installs, announced, asked, slips, idLoad>>

\* External: the installer enrols anew and writes the file.  It may fail or
\* be too slow after that, and the agent goes on as it was.
run_reenroll_script ==
    /\ \E i \in DOMAIN work : Does(i, "run") /\
         LET new == rewrite_agent_env_file(hostFiles.env, work[i].cmd.gives[1], work[i].cmd.gives[2]) IN
         \/ /\ hostFiles' = [hostFiles EXCEPT !.env = new] /\ agent' = [agent EXCEPT !.leaving = TRUE]
            /\ Finishes(i, "completed") /\ UNCHANGED <<idFaults, slips>>
         \/ /\ IdFault /\ hostFiles' \in {hostFiles, [hostFiles EXCEPT !.env = new]} /\ slips' = slips \cup {"installer"}
            /\ Finishes(i, "failed") /\ UNCHANGED agent
    /\ UNCHANGED <<gate, temps, installs, announced, asked, idLoad>>

-----------------------------------------------------------------------------
\* Nothing of it is checked.  When systemd runs the agent, stopping the unit
\* stops the one who would go on.
uninstall_step ==
    /\ \E i \in DOMAIN work : work[i].cmd.kind = "uninstall" /\
         LET s == Head(work[i].todo) IN
         IF s = "stop" /\ idLoad.managed
         THEN /\ agent' = [agent EXCEPT !.up = FALSE, !.leaving = FALSE]
              /\ said' = LostCommands /\ work' = Nil /\ slips' = slips \cup LostTokens
              /\ UNCHANGED <<hostFiles, gate>>
         ELSE /\ hostFiles' = CASE s = "dwaar" -> [hostFiles EXCEPT !.token = "", !.dropIn = FALSE]
                           [] s = "files" -> [hostFiles EXCEPT !.env = <<>>, !.key = 0, !.unit = FALSE]
                           [] OTHER -> hostFiles
              /\ gate' = IF s = "dwaar" THEN [gate EXCEPT !.up = FALSE, !.token = ""] ELSE gate
              /\ IF Len(work[i].todo) > 1 THEN Moves([work EXCEPT ![i] = Step(i)]) /\ UNCHANGED agent
                 ELSE Finishes(i, "completed") /\ agent' = [agent EXCEPT !.leaving = TRUE]
              /\ UNCHANGED slips
    /\ UNCHANGED <<temps, idFaults, installs, announced, asked, idLoad>>

\* The exit that was scheduled, or the end of the process at any time.  The
\* handlers that run are lost where they are.
schedule_restart ==
    /\ agent.up /\ (IF agent.leaving THEN UNCHANGED idFaults ELSE IdFault)
    /\ agent' = [agent EXCEPT !.up = FALSE, !.leaving = FALSE]
    /\ said' = LostCommands /\ work' = Nil
    /\ slips' = slips \cup LostTokens
    /\ UNCHANGED <<hostFiles, gate, temps, installs, announced, asked, idLoad>>

\* External: Dwaar is restarted, with its files and the drop-in.
gate_restarts ==
    /\ idLoad.gateRestarts /\ hostFiles.unit
    /\ gate' = [up |-> TRUE, token |-> hostFiles.token, env |-> hostFiles.dropIn] /\ gate' # gate
    /\ UNCHANGED <<agent, hostFiles, temps, work, said, idFaults, installs, announced, asked, slips, idLoad>>

IdNext ==
    \/ id_command \/ TempUpdate \/ fetch_binary \/ install_tmp_binary
    \/ decrypt_agent_text \/ write_token \/ read_back \/ ensure_dwaar_cf_token_drop_in \/ reload_for_token \/ verify_dwaar_env
    \/ read_env_file \/ write_env_file
    \/ persist_previous_server_id \/ download_installer_with_curl \/ write_reenroll_script \/ run_reenroll_script
    \/ uninstall_step \/ schedule_restart \/ boot \/ gate_restarts

-----------------------------------------------------------------------------
\* The binary on the disk is the old one or the whole of what the last
\* installed update promised, however many run at once and wherever the
\* agent stops; an update that failed installed nothing, and only one that
\* was lost leaves its temporary file (update_agent, TempUpdate).
BinaryWhole ==
    /\ hostFiles.binary = IF installs = <<>> THEN <<"old">> ELSE idLoad.commands[installs[Len(installs)]].expected
    /\ \A i \in Range(installs) : i \in DOMAIN said /\ said[i] = "completed"
    /\ \A i \in DOMAIN temps : i \in DOMAIN work \/ said[i] = "lost"

\* The environment file always has one id and one secret that were issued
\* together, and every other line it had; an agent that runs with another
\* pair is about to exit, unless an installer failed after it wrote the file
\* (rewrite_agent_env_file, handle_reenroll_command).
Issued == {Pair(idLoad.env)} \cup UNION {LET c == idLoad.commands[i] IN
              CASE c.kind = "rotate_agent" -> {<<required_env(idLoad.env, "SERVER_ID"), c.secret>>} \cup {<<d.gives[1], c.secret>> : d \in {e \in Range(idLoad.commands) : e.kind = "reenroll"}}
                [] c.kind = "reenroll" -> {c.gives}
                [] OTHER -> {} : i \in DOMAIN idLoad.commands}
EnvWhole ==
    hostFiles.unit =>
        /\ \A k \in Secrets : Cardinality({i \in DOMAIN hostFiles.env : hostFiles.env[i][1] = k}) = 1
        /\ Pair(hostFiles.env) \in Issued
        /\ Others(hostFiles.env) = Others(idLoad.env)
        /\ agent.up /\ <<agent.id, agent.secret>> # Pair(hostFiles.env) => agent.leaving \/ "installer" \in slips

\* Unless a reload failed or the agent stopped on the way, Dwaar has the
\* token of the file once no handler changes it (apply_cloudflare_token).
TokenLoaded ==
    (gate.up /\ "token" \notin slips /\ ~\E i \in DOMAIN work : work[i].cmd.kind \in {"bootstrap", "rotate"}) => gate.token = hostFiles.token

\* What the control plane seals to the key that was announced first can be
\* opened by every later process, and an installer is told the id of the
\* agent that runs it (load_or_generate, append_previous_server_id_to_url).
KeyAndNameKept ==
    /\ agent.up => agent.key = announced
    /\ \A a \in asked : a.previous = a.by \/ "previous" \in slips

IdentityHolds == BinaryWhole /\ EnvWhole /\ TokenLoaded /\ KeyAndNameKept
===============================================================================
