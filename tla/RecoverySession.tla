--------------------------- MODULE RecoverySession ---------------------------
(***************************************************************************)
(* The recovery screen and the service behind it.  The screen's thread     *)
(* holds a RecoveryModel and a RecoveryRuntime; the service's worker holds *)
(* the claim, the files of the restore and the run.  They share nothing    *)
(* but two bounded queues: commands, which the screen offers with try_send *)
(* and the worker takes one at a time, and events, which the worker sends  *)
(* blocking (except progress, which is dropped when the queue is full) and *)
(* the screen drains once per frame.  Each side therefore acts on what the *)
(* other was.  A third thread runs the restore; a fourth party, the        *)
(* broker's inventory, moves on its own.                                   *)
(*                                                                         *)
(* One device, one behaviour per system (so no mode to choose), single     *)
(* files rather than folders or IPSWs, and one payload, "image", besides   *)
(* the manifest.  Log events change nothing here and are left out.         *)
(***************************************************************************)
EXTENDS Integers, Sequences

CONSTANTS
    EventCapacity,      \* EVENT_QUEUE_BOUND
    CommandCapacity,    \* COMMAND_QUEUE_BOUND
    Workloads           \* bounds: records of the keys the user presses, the
                        \* changes of the broker's inventory, and whether a
                        \* restore kit was collected before

ASSUME QueueAssumption ==
    EventCapacity \in Nat \ {0} /\ CommandCapacity \in Nat \ {0}

VARIABLES
    ui,         \* RecoveryModel, and whether the screen still runs
    commands,   \* the command queue
    events,     \* the event queue
    out,        \* what the worker's current handler has still to emit
    svc,        \* ServiceWorker
    thread,     \* the restore thread: "none", "running" or its outcome
    broker,     \* the device in the broker's inventory
    tree,       \* the image is in the extracted tree beside the manifest
    granted,    \* claims the broker has granted
    detached,   \* calls of detach_host
    parted,     \* the claimed device left the inventory outside a run, or the
                \* claim was dropped for a second one that was then refused
    keys, moves \* bounds: what is left of the workload

vars == <<ui, commands, events, out, svc, thread, broker, tree, granted,
          detached, parted, keys, moves>>

Requests == {"manifest", "image"}

(***************************************************************************)
(* RecoveryModel.                                                          *)
(***************************************************************************)
Finished(u) == u.phase \in {"succeeded", "failed", "cancelled"}

OpenRequests(u) == {r \in Requests : u.req[r] \in {"missing", "rejected"}}

\* next_open_request: a missing one before a rejected one, in listed order
NextOpenRequest(u) ==
    LET first(answer) == IF u.req["manifest"] = answer THEN "manifest" ELSE "image" IN
    IF \E r \in Requests : u.req[r] = "missing" THEN first("missing") ELSE first("rejected")

\* all_required_files_supplied: every request here is a required one
Supplied(u) == OpenRequests(u) = {}

\* step: the page the screen shows, which decides the keys it takes
Page(u) ==
    IF u.checking THEN "Working"
    ELSE CASE u.phase = "claiming" -> "Claiming"
           [] u.phase \in {"starting", "running", "cancelling"} -> "Working"
           [] Finished(u) -> "Done"
           [] OTHER ->
                IF OpenRequests(u) # {} THEN "PickFile"
                ELSE IF u.systems /\ ~u.system THEN "PickSystem"
                ELSE IF u.claimed THEN "WaitRequest"
                ELSE IF u.connected THEN "PickDevice"
                ELSE "WaitDevices"

CanClaim(u) == ~u.claimed /\ u.connected /\ u.device = "available"

CanRelease(u) == u.claimed /\ u.phase \notin {"starting", "running", "cancelling"}

CanStart(u) ==
    u.claimed /\ Supplied(u) /\ u.phase \in {"collecting", "ready", "cancelled", "failed"}

CanCancel(u) ==
    u.claimed /\ u.phase \in {"claiming", "starting", "running", "collecting"}

CanRetry(u) == u.claimed /\ u.phase \in {"cancelled", "failed"}

Connect(u, connected, state) ==
    IF u.device = "none" THEN u
    ELSE [u EXCEPT !.connected = connected,
                   !.device = IF connected THEN state ELSE "disconnected"]

Disconnect(u) ==
    LET gone == Connect(u, FALSE, "disconnected") IN
    IF ~u.claimed THEN gone
    ELSE IF Finished(u) THEN [gone EXCEPT !.claimed = FALSE]
    ELSE [gone EXCEPT !.claimed = FALSE, !.phase = "waiting", !.checking = FALSE]

Unclaim(u) ==
    LET shown == IF u.device = "none" THEN u
                 ELSE [u EXCEPT !.device = IF u.connected THEN "available"
                                                          ELSE "disconnected"]
    IN
    IF ~u.claimed THEN shown
    ELSE IF Finished(u) THEN [shown EXCEPT !.claimed = FALSE]
    ELSE [shown EXCEPT !.claimed = FALSE, !.checking = FALSE,
            !.phase = IF OpenRequests(u) # {} THEN "collecting"
                      ELSE IF \E r \in Requests : u.req[r] # "none" THEN "ready"
                      ELSE "waiting"]

\* FileAccepted for a request the screen does not list is only logged
Accept(u, r) ==
    LET held == [u EXCEPT !.req[r] = "accepted", !.checking = FALSE] IN
    IF u.req[r] = "none" THEN u
    ELSE IF u.phase \in {"starting", "running", "cancelling"} \/ Finished(u) THEN held
    ELSE [held EXCEPT !.phase = IF Supplied(held) THEN "ready" ELSE "collecting"]

Reject(u, r) ==
    [u EXCEPT !.req[r] = IF @ = "none" THEN "none" ELSE "rejected",
              !.checking = FALSE, !.phase = "collecting"]

RequestKeepingAnswer(u, r) ==
    [u EXCEPT !.phase = "collecting", !.req[r] = IF @ = "none" THEN "missing" ELSE @]

\* apply_event: what one event does to the screen
Apply(u, e) ==
    LET kind == e[1]  arg == e[2] IN
    CASE kind = "DeviceDiscovered" -> [u EXCEPT !.device = arg, !.connected = TRUE]
      [] kind = "DeviceDisconnected" -> Disconnect(u)
      [] kind = "ClaimAccepted" ->
            [u EXCEPT !.claimed = TRUE, !.phase = "collecting", !.checking = FALSE,
                      !.device = IF @ = "none" THEN "none" ELSE "claimed"]
      [] kind = "ClaimRejected" ->
            [Connect(u, TRUE, "available") EXCEPT !.phase = "waiting"]
      [] kind = "Released" -> Unclaim(u)
      [] kind = "FileRequested" -> RequestKeepingAnswer(u, arg)
      [] kind = "FileRequestCleared" ->
            [u EXCEPT !.req[arg] = IF @ = "none" THEN "none" ELSE "missing"]
      [] kind = "FileAccepted" -> Accept(u, arg)
      [] kind = "FileRejected" -> Reject(u, arg)
      [] kind = "PhaseChanged" -> [u EXCEPT !.phase = arg]
      [] kind \in {"Checking", "Reading"} -> [u EXCEPT !.checking = TRUE]
      [] kind = "Progress" -> [u EXCEPT !.checking = FALSE, !.phase = "running"]
      [] kind = "CompatibleBoards" ->
            [u EXCEPT !.checking = FALSE, !.systems = TRUE, !.system = FALSE]
      [] kind = "SystemSelected" ->
            [u EXCEPT !.system = TRUE, !.checking = FALSE, !.req["image"] = "none"]
      [] kind = "ModeSelected" -> [u EXCEPT !.checking = FALSE, !.phase = "collecting"]
      [] kind = "LocalPolicySigning" -> [u EXCEPT !.signing = arg]
      [] kind = "Succeeded" -> [u EXCEPT !.phase = "succeeded"]
      [] kind = "Cancelled" -> [u EXCEPT !.phase = "cancelled", !.checking = FALSE]
      [] kind = "Failed" -> [u EXCEPT !.phase = "failed", !.checking = FALSE]

(***************************************************************************)
(* RecoveryRuntime: one frame, and one key.                                *)
(***************************************************************************)
Room(q, n) == Len(q) < n

Start == <<"Start", "", "">>

\* start_restore of the runtime: StartRestore is offered to the service
AutoStart(u) ==
    IF Room(commands, CommandCapacity)
    THEN ui' = [u EXCEPT !.phase = "starting"] /\ commands' = Append(commands, Start)
    ELSE ui' = u /\ UNCHANGED commands

\* apply_event on each of the events in turn
Drain(u, q) ==
    LET shown[i \in 0 .. Len(q)] ==
            IF i = 0 THEN u ELSE Apply(shown[i - 1], q[i])
    IN shown[Len(q)]

\* prepare: every queued event is applied, then a supplied claim starts
Prepare ==
    LET drained == Drain(ui, events)
        idle == ~drained.claimed /\ drained.device = "none"
                  /\ \A r \in Requests : drained.req[r] = "none"
        shown == IF idle THEN [drained EXCEPT !.phase = "waiting"] ELSE drained
    IN
    /\ ui.open
    /\ events' = <<>>
    /\ IF CanStart(shown) /\ shown.phase \in {"collecting", "ready"}
       THEN AutoStart(shown)
       ELSE ui' = shown /\ UNCHANGED commands
    /\ UNCHANGED <<out, svc, thread, broker, tree, granted, detached, parted, keys, moves>>

Press(pages) ==
    /\ ui.open
    /\ Page(ui) \in pages
    /\ keys > 0
    /\ keys' = keys - 1
    /\ UNCHANGED <<events, out, svc, thread, broker, tree, granted, detached, parted, moves>>

\* send is a try_send: a full queue refuses the command
Offer(c, sent, refused) ==
    IF Room(commands, CommandCapacity)
    THEN ui' = sent /\ commands' = Append(commands, c)
    ELSE ui' = refused /\ UNCHANGED commands

ClaimSelected ==
    /\ Press({"PickDevice"})
    /\ CanClaim(ui)
    /\ Offer(<<"Claim", "", "">>, [ui EXCEPT !.device = "claiming", !.phase = "claiming"], ui)

ReleaseClaim ==
    /\ Press({"Claiming", "WaitRequest", "PickFile", "Done"})
    /\ CanRelease(ui)
    /\ Offer(<<"Release", "", "">>, ui, ui)

SelectSystem ==
    /\ Press({"PickSystem"})
    /\ Offer(<<"System", "", "">>, [ui EXCEPT !.checking = TRUE], ui)

ToggleSigning ==
    LET on == IF ui.signing = "on" THEN "off" ELSE "on" IN
    /\ Press({"PickSystem", "PickDevice"})
    /\ Offer(<<"Sign", on, "">>, [ui EXCEPT !.signing = on], ui)

\* attach_clipboard with a file that fits an open request by its name.  What
\* the worker will make of it travels with it: "good", "bad" (it fails the
\* check), or "unfit" (a manifest that checks but cannot be used)
AttachClipboard ==
    \E r \in OpenRequests(ui), file \in {"good", "bad", "unfit"} :
        LET held == [ui EXCEPT !.req[r] = "submitted", !.checking = TRUE]
            ready == IF Supplied(held) THEN [held EXCEPT !.phase = "ready"] ELSE held
            refused == [ui EXCEPT !.req[r] = "rejected", !.checking = FALSE]
            provide == <<"Provide", r, file>>
        IN
        /\ Press({"PickFile"})
        /\ file = "unfit" => r = "manifest"
        /\ IF ~Room(commands, CommandCapacity)
           THEN ui' = refused /\ UNCHANGED commands
           ELSE IF CanStart(ready) /\ Len(commands) + 1 < CommandCapacity
           THEN /\ ui' = [ready EXCEPT !.phase = "starting"]
                /\ commands' = commands \o <<provide, Start>>
           ELSE ui' = ready /\ commands' = Append(commands, provide)

\* a file that fits no request by its name is turned down on the spot
MisnamedFile ==
    /\ Press({"PickFile"})
    /\ ui' = [ui EXCEPT !.req[NextOpenRequest(ui)] = "rejected", !.checking = FALSE]
    /\ UNCHANGED commands

CancelRestore ==
    /\ Press({"Working"})
    /\ CanCancel(ui)
    /\ Offer(<<"Cancel", "", "">>, [ui EXCEPT !.phase = "cancelling"], ui)

RetryRestore ==
    /\ Press({"Done"})
    /\ CanRetry(ui)
    /\ Offer(<<"Retry", "", "">>, [ui EXCEPT !.phase = "collecting"], ui)

\* the app leaves its loop: nothing is polled any more, and Drop of the
\* service sends Shutdown, waiting for room, and joins the worker
Quit ==
    /\ ui.open
    /\ ui' = [ui EXCEPT !.open = FALSE]
    /\ UNCHANGED <<commands, events, out, svc, thread, broker, tree, granted,
                   detached, parted, keys, moves>>

\* mutant: Shutdown is offered with try_send, and lost when the queue is full
SendShutdownTry ==
    /\ ~ui.open /\ ~ui.told
    /\ commands' = IF Room(commands, CommandCapacity)
                   THEN Append(commands, <<"Shutdown", "", "">>) ELSE commands
    /\ ui' = [ui EXCEPT !.told = TRUE]
    /\ UNCHANGED <<events, out, svc, thread, broker, tree, granted, detached, parted, keys, moves>>

SendShutdown ==
    /\ ~ui.open /\ ~ui.told
    /\ Room(commands, CommandCapacity)
    /\ commands' = Append(commands, <<"Shutdown", "", "">>)
    /\ ui' = [ui EXCEPT !.told = TRUE]
    /\ UNCHANGED <<events, out, svc, thread, broker, tree, granted, detached, parted, keys, moves>>

(***************************************************************************)
(* ServiceWorker.  A handler changes the worker's state at once and leaves *)
(* in "out" what it emits; the worker goes on when "out" is empty.         *)
(***************************************************************************)
Idle == svc.pc # "gone" /\ out = <<>>

\* mutant: only the manifest is asked for
RequestedManifest(rs) ==
    IF "manifest" \in rs THEN <<<<"FileRequested", "manifest">>>> ELSE <<>>

Requested(rs) ==
    LET ask(r) == IF r \in rs THEN <<<<"FileRequested", r>>>> ELSE <<>> IN
    ask("image") \o ask("manifest")

\* refresh_discovery: a device a run is using stays listed while it is gone
Discovered(s) ==
    [s EXCEPT !.seen = broker,
              !.listed = IF broker = "gone" THEN IF s.run THEN @ ELSE "none"
                         ELSE IF s.session THEN "claimed" ELSE broker]

Inventory(old, new) ==
    IF old.listed = new.listed THEN <<>>
    ELSE IF new.listed = "none" THEN <<<<"DeviceDisconnected", "">>>>
    ELSE <<<<"DeviceDiscovered", new.listed>>>>

\* last_devices.clear() before refresh_discovery: the device is told anew, at
\* once or, if the discovery fails, by a later one (bound: such a failure
\* happens only while the inventory has moves left)
Relisted(s) == [s EXCEPT !.listed = "none"]

MayFail == moves > 0

\* mutant: the session does not remember that it has detached
DetachesAgain(s) == IF s.session THEN 1 ELSE 0

\* detach_host_once: how many calls of detach_host it makes
Detaches(s) == IF s.session /\ ~s.detached THEN 1 ELSE 0

NoRun(s) == [s EXCEPT !.run = FALSE, !.cancel = FALSE, !.release = FALSE]

\* cleanup_session, once the run has been joined
Cleanup(s) ==
    [NoRun(s) EXCEPT !.session = FALSE, !.detached = FALSE,
                     !.pending = {}, !.accepted = {}, !.root = FALSE]

\* reset_for_manifest_request and emit_manifest_request
AskManifest(s) == [s EXCEPT !.pending = {"manifest"}, !.accepted = {}, !.root = FALSE]

ManifestAsked == <<<<"FileRequestCleared", "manifest">>, <<"FileRequested", "manifest">>>>

\* collect_identity_payloads: what is not in the tree has to be asked for
Collect(s) ==
    IF "image" \in s.accepted \/ tree
    THEN [s EXCEPT !.root = TRUE, !.pending = {}, !.accepted = @ \cup {"image"}]
    ELSE [s EXCEPT !.root = TRUE, !.pending = {"image"}]

NoKit == [open |-> FALSE, pending |-> {}, accepted |-> {}, root |-> FALSE, class |-> FALSE]

\* open_manifest_request: the kit a worker without a claim collects into
FreshKit == [NoKit EXCEPT !.open = TRUE, !.pending = {"manifest"}]

Taking(kind) ==
    /\ Idle /\ svc.pc = "recv"
    /\ commands # <<>>
    /\ Head(commands)[1] = kind
    /\ commands' = Tail(commands)
    /\ UNCHANGED <<ui, events, broker, tree, keys, moves>>

\* "taken" remembers every request the worker has accepted a file for
Then(pc, s) == [s EXCEPT !.pc = pc, !.taken = @ \cup s.accepted \cup s.kit.accepted]

Rejected == <<<<"ClaimRejected", "">>>>

\* the end of a handler, which notes a claim dropped for one that was refused
Handled(s, emitted) ==
    /\ svc' = Then("due", s)
    /\ out' = emitted
    /\ parted' = (parted \/ (emitted = Rejected /\ svc.session /\ ~s.session))

KeepsClaim == UNCHANGED <<thread, granted, detached>>

\* the run is told to stop, and the worker waits in join
StopRun ==
    /\ Idle /\ svc.pc = "recv" /\ svc.run
    /\ commands # <<>>
    /\ \/ Head(commands)[1] = "Shutdown"
       \/ Head(commands)[1] = "Claim" /\ svc.seen = "available"
    /\ detached' = detached + Detaches(svc)
    /\ svc' = [svc EXCEPT !.pc = "join", !.detached = TRUE, !.cancel = TRUE]
    /\ UNCHANGED <<ui, commands, events, out, thread, broker, tree, granted, parted, keys, moves>>

RunJoined ==
    /\ Idle /\ svc.pc = "join" /\ thread # "running"
    /\ svc' = [NoRun(svc) EXCEPT !.pc = "recv"]
    /\ thread' = "none"
    /\ UNCHANGED <<ui, commands, events, out, broker, tree, granted, detached, parted, keys, moves>>

\* apply_prepared_to_session and what follows it.  "unfit": the manifest has
\* nothing for this device; "lost": it can no longer be read
Granted(s, fit, known) ==
    LET usable == s.kit.open /\ s.kit.root /\ "manifest" \in s.kit.accepted
        applied == usable /\ fit = "fits"
        filled == IF applied
                  THEN [Collect([s EXCEPT !.accepted = s.kit.accepted]) EXCEPT !.kit = NoKit]
                  ELSE [AskManifest(s) EXCEPT
                            !.kit = IF usable /\ fit = "lost" THEN NoKit ELSE @]
        asked == Requested(filled.pending)
        cleared == Relisted(filled)
        listed == IF known THEN Discovered(cleared) ELSE cleared
    IN
    [svc |-> listed,
     out |-> <<<<"FileRequestCleared", "manifest">>, <<"ClaimAccepted", "">>>>
             \o (IF applied
                 THEN asked \o (IF asked = <<>> THEN <<>>
                                ELSE asked \o <<<<"PhaseChanged", "collecting">>>>)
                      \o <<<<"FileAccepted", "manifest">>>>
                 ELSE ManifestAsked \o (IF "manifest" \in s.kit.accepted
                                        THEN <<<<"Failed", "">>>> ELSE <<>>))
             \o Inventory(cleared, listed)]

\* claim_device: refused by the inventory at hand; refused by the broker; handed
\* straight back, since the device cannot be identified, is not the one the kit
\* is for, or has no boot context; or granted.  The claim held before is dropped
\* in all cases but the first
ClaimDevice ==
    /\ Taking("Claim")
    /\ \/ /\ svc.seen # "available"
          /\ Handled(svc, Rejected)
          /\ KeepsClaim
       \/ /\ svc.seen = "available" /\ ~svc.run
          /\ Handled(Cleanup(svc), Rejected)
          /\ detached' = detached + Detaches(svc)
          /\ UNCHANGED <<thread, granted>>
       \/ /\ svc.seen = "available" /\ ~svc.run /\ broker = "available"
          /\ granted' = granted + 1
          /\ Handled(Cleanup(svc), Rejected)
          /\ detached' = detached + Detaches(svc) + 1
          /\ UNCHANGED thread
       \/ \E fit \in {"fits", "unfit", "lost"}, known \in BOOLEAN :
            LET claim == Granted([Cleanup(svc) EXCEPT !.session = TRUE], fit, known) IN
            /\ svc.seen = "available" /\ ~svc.run /\ broker = "available"
            /\ known \/ MayFail
            /\ granted' = granted + 1
            /\ Handled(claim.svc, claim.out)
            /\ detached' = detached + Detaches(svc)
            /\ UNCHANGED thread

\* mutant: the claim is dropped and the screen is not told
ReleaseDeviceSilently ==
    /\ Taking("Release")
    /\ \/ ~svc.session /\ Handled(svc, <<>>)
       \/ /\ svc.session /\ svc.run
          /\ Handled([svc EXCEPT !.cancel = TRUE, !.release = TRUE, !.detached = TRUE],
                     <<<<"PhaseChanged", "cancelling">>>>)
       \/ /\ svc.session /\ ~svc.run
          /\ Handled(Cleanup(svc), <<>>)
    /\ detached' = detached + Detaches(svc)
    /\ UNCHANGED <<thread, granted>>

\* release_device
ReleaseDevice ==
    /\ Taking("Release")
    /\ \/ ~svc.session /\ Handled(svc, <<>>)
       \/ /\ svc.session /\ svc.run
          /\ Handled([svc EXCEPT !.cancel = TRUE, !.release = TRUE, !.detached = TRUE],
                     <<<<"PhaseChanged", "cancelling">>>>)
       \/ /\ svc.session /\ ~svc.run
          /\ Handled(Cleanup(svc), <<<<"Released", "">>>>)
    /\ detached' = detached + Detaches(svc)
    /\ UNCHANGED <<thread, granted>>

\* provide_file with a claim: the answer to a request of the session
SessionFile(r, file) ==
    LET accepts == <<<<"Checking", "">>, <<"FileAccepted", r>>>>
        supplied == Collect([svc EXCEPT !.accepted = {"manifest"}])
    IN
    CASE r \in svc.accepted -> Handled(svc, <<<<"FileAccepted", r>>>>)
      [] r \notin svc.accepted \cup svc.pending -> Handled(svc, <<<<"FileRejected", r>>>>)
      [] r \in svc.pending /\ file = "bad" ->
            Handled(svc, <<<<"Checking", "">>, <<"FileRejected", r>>, <<"FileRequested", r>>>>)
      [] r \in svc.pending /\ file = "unfit" ->
            Handled(AskManifest(svc), accepts \o <<<<"FileRejected", r>>>> \o ManifestAsked)
      [] r = "manifest" /\ r \in svc.pending /\ file = "good" ->
            Handled(supplied, accepts \o Requested(supplied.pending))
      [] r = "image" /\ r \in svc.pending /\ file = "good" ->
            Handled([svc EXCEPT !.pending = @ \ {r}, !.accepted = @ \cup {r}], accepts)

\* provide_prepared_file: without a claim the file goes to the kit
KitFile(r, file) ==
    LET kit == svc.kit
        accepts == <<<<"Checking", "">>, <<"FileAccepted", r>>>>
        Keep(k, emitted) == Handled([svc EXCEPT !.kit = k], emitted)
    IN
    CASE r \in kit.accepted -> Keep(kit, <<<<"FileAccepted", r>>>>)
      [] r \notin kit.accepted \cup kit.pending -> Keep(kit, <<<<"FileRejected", r>>>>)
      [] r \in kit.pending /\ file = "bad" ->
            Keep(kit, <<<<"Checking", "">>, <<"FileRejected", r>>, <<"FileRequested", r>>>>)
      [] r \in kit.pending /\ file = "unfit" ->
            Keep(FreshKit, accepts \o <<<<"Reading", "">>, <<"FileRejected", r>>,
                                       <<"FileRequested", "manifest">>>>)
      [] r = "manifest" /\ r \in kit.pending /\ file = "good" ->
            Keep([NoKit EXCEPT !.open = TRUE, !.accepted = {r}, !.root = TRUE],
                 accepts \o <<<<"Reading", "">>, <<"CompatibleBoards", "">>>>)
      [] r = "image" /\ r \in kit.pending /\ file = "good" ->
            Keep([kit EXCEPT !.pending = @ \ {r}, !.accepted = @ \cup {r}], accepts)

ProvideFile ==
    LET r == Head(commands)[2]  file == Head(commands)[3] IN
    /\ Taking("Provide")
    /\ IF svc.session THEN SessionFile(r, file) ELSE KitFile(r, file)
    /\ KeepsClaim

\* select_system, offer_or_collect_for_class and collect_prepared_for_class: the
\* manifest is read again and may no longer be readable
ChooseClass ==
    LET accepted == {"manifest"} \cup (IF tree THEN {"image"} ELSE {})
        kit == [svc.kit EXCEPT !.pending = Requests \ accepted, !.accepted = accepted,
                               !.class = TRUE]
    IN
    /\ Taking("System")
    /\ \/ /\ svc.kit.open /\ svc.kit.root
          /\ Handled([svc EXCEPT !.kit = kit],
                     <<<<"SystemSelected", "">>, <<"ModeSelected", "">>>>
                       \o (IF tree THEN <<<<"PhaseChanged", "ready">>>>
                                   ELSE Requested(kit.pending)))
       \/ Handled(svc, <<<<"FileRejected", "manifest">>>>)
    /\ KeepsClaim

\* mutant: a choice that comes during a run is ignored without an answer
SetSigningSilently ==
    /\ Taking("Sign")
    /\ IF svc.run THEN Handled(svc, <<>>)
       ELSE Handled([svc EXCEPT !.signing = Head(commands)[2]],
                    <<<<"LocalPolicySigning", Head(commands)[2]>>>>)
    /\ KeepsClaim

\* set_local_policy_signing: a run's plan was fixed when it started
SetSigning ==
    LET signing == IF svc.run THEN svc.signing ELSE Head(commands)[2] IN
    /\ Taking("Sign")
    /\ Handled([svc EXCEPT !.signing = signing], <<<<"LocalPolicySigning", signing>>>>)
    /\ KeepsClaim

\* start_restore and retry_restore.  "terminal": the claim's boot context has
\* failed for good, and the claim is let go
StartRestore ==
    LET let_go == Relisted(Cleanup(svc)) IN
    /\ Taking("Start") \/ Taking("Retry")
    /\ \/ /\ ~svc.session \/ svc.run
          /\ Handled(svc, <<>>)
          /\ KeepsClaim
       \/ /\ svc.session /\ ~svc.run /\ svc.pending # {}
          /\ Handled(svc, Requested(svc.pending) \o <<<<"PhaseChanged", "collecting">>>>)
          /\ KeepsClaim
       \/ /\ svc.session /\ ~svc.run /\ svc.pending = {}
          /\ Handled(svc, <<<<"Failed", "">>>>)
          /\ KeepsClaim
       \/ /\ svc.session /\ ~svc.run /\ svc.pending = {}
          /\ \E known \in BOOLEAN :
                LET listed == IF known THEN Discovered(let_go) ELSE let_go IN
                /\ known \/ MayFail
                /\ Handled(listed, <<<<"Released", "">>>> \o Inventory(let_go, listed)
                                     \o <<<<"Failed", "">>>>)
          /\ detached' = detached + Detaches(svc)
          /\ UNCHANGED <<thread, granted>>
       \/ /\ svc.session /\ ~svc.run /\ svc.pending = {}
          /\ Handled([svc EXCEPT !.run = TRUE, !.plan = svc.signing],
                     <<<<"PhaseChanged", "starting">>>>)
          /\ thread' = "running"
          /\ UNCHANGED <<granted, detached>>

\* mutant: a cancel that finds no run says nothing
CancelRunOnly ==
    /\ Taking("Cancel")
    /\ \/ ~svc.run /\ Handled(svc, <<>>)
       \/ /\ svc.run
          /\ Handled([svc EXCEPT !.cancel = TRUE, !.detached = TRUE],
                     <<<<"PhaseChanged", "cancelling">>>>)
    /\ detached' = detached + (IF svc.run THEN Detaches(svc) ELSE 0)
    /\ UNCHANGED <<thread, granted>>

\* cancel_restore
CancelRun ==
    /\ Taking("Cancel")
    /\ \/ ~svc.session /\ Handled(svc, <<>>) /\ UNCHANGED detached
       \/ /\ svc.session /\ svc.run
          /\ Handled([svc EXCEPT !.cancel = TRUE, !.detached = TRUE],
                     <<<<"PhaseChanged", "cancelling">>>>)
          /\ detached' = detached + Detaches(svc)
       \/ /\ svc.session /\ ~svc.run
          /\ Handled(svc, <<<<"Cancelled", "">>>>)
          /\ UNCHANGED detached
    /\ UNCHANGED <<thread, granted>>

\* shutdown, the run joined: the worker returns and its end of the event
\* queue is dropped
Shutdown ==
    /\ Taking("Shutdown")
    /\ ~svc.run
    /\ svc' = [Cleanup(svc) EXCEPT !.pc = "gone", !.kit = NoKit]
    /\ detached' = detached + Detaches(svc)
    /\ UNCHANGED <<out, thread, granted, parted>>

\* poll_restore_outcome, at the head of every turn of the worker's loop
PollRestoreOutcome ==
    LET over == [NoRun(svc) EXCEPT !.detached = TRUE] IN
    /\ Idle /\ svc.pc = "poll"
    /\ IF svc.run /\ thread # "running"
       THEN /\ svc' = Then("recv", IF svc.release THEN Cleanup(over) ELSE over)
            /\ out' = <<<<IF thread = "succeeded" THEN "Succeeded"
                          ELSE IF svc.cancel THEN "Cancelled" ELSE "Failed", "">>>>
                      \o (IF svc.release THEN <<<<"Released", "">>>> ELSE <<>>)
            /\ detached' = detached + Detaches(svc)
            /\ thread' = "none"
       ELSE /\ svc' = [svc EXCEPT !.pc = "recv"]
            /\ UNCHANGED <<out, detached, thread>>
    /\ UNCHANGED <<ui, commands, events, broker, tree, granted, parted, keys, moves>>

\* refresh_discovery, when the wait for a command ran out or after one
RefreshDiscovery ==
    /\ Idle /\ \/ svc.pc = "recv" /\ commands = <<>>
               \/ svc.pc = "due"
    /\ svc' = [Discovered(svc) EXCEPT !.pc = "poll"]
    /\ out' = Inventory(svc, Discovered(svc))
    /\ parted' = (parted \/ (svc.session /\ svc.listed # "none"
                               /\ Discovered(svc).listed = "none"))
    /\ UNCHANGED <<ui, commands, events, thread, broker, tree, granted, detached, keys, moves>>

NotDue ==
    /\ Idle /\ svc.pc = "due"
    /\ svc' = [svc EXCEPT !.pc = "poll"]
    /\ UNCHANGED <<ui, commands, events, out, thread, broker, tree, granted, detached,
                   parted, keys, moves>>

\* emit: a blocking send
Emit ==
    /\ out # <<>> /\ Head(out)[1] # "Checking"
    /\ Room(events, EventCapacity)
    /\ events' = Append(events, Head(out))
    /\ out' = Tail(out)
    /\ UNCHANGED <<ui, commands, svc, thread, broker, tree, granted, detached, parted, keys, moves>>

\* the progress of a check is a try_send per block of the file: it goes on
\* while blocks are left, and what finds no room is dropped
ReportCheck ==
    /\ out # <<>> /\ Head(out)[1] = "Checking"
    /\ Room(events, EventCapacity)
    /\ events' = Append(events, Head(out))
    /\ UNCHANGED <<ui, commands, out, svc, thread, broker, tree, granted, detached,
                   parted, keys, moves>>

CheckEnds ==
    /\ out # <<>> /\ Head(out)[1] = "Checking"
    /\ out' = Tail(out)
    /\ UNCHANGED <<ui, commands, events, svc, thread, broker, tree, granted, detached,
                   parted, keys, moves>>

\* UiReporter on the restore thread: a try_send
ReportProgress ==
    /\ thread = "running"
    /\ Room(events, EventCapacity)
    /\ events' = Append(events, <<"Progress", "">>)
    /\ UNCHANGED <<ui, commands, out, svc, thread, broker, tree, granted, detached,
                   parted, keys, moves>>

\* run_restore returns, stopped or of itself, with any outcome (RestoreClient
\* models how); that it returns at all is assumed here
RestoreEnds ==
    /\ thread = "running"
    /\ thread' \in {"succeeded", "failed"}
    /\ UNCHANGED <<ui, commands, events, out, svc, broker, tree, granted, detached,
                   parted, keys, moves>>

InventoryMoves ==
    /\ moves > 0
    /\ broker' \in {"gone", "available", "busy"} \ {broker}
    /\ moves' = moves - 1
    /\ UNCHANGED <<ui, commands, events, out, svc, thread, tree, granted, detached, parted, keys>>

\* the worker at its first turn, and the screen at its first frame
NewScreen ==
    [open |-> TRUE, told |-> FALSE, phase |-> "waiting", claimed |-> FALSE,
     device |-> "none", connected |-> FALSE, req |-> [r \in Requests |-> "none"],
     systems |-> FALSE, system |-> FALSE, checking |-> FALSE, signing |-> "off"]

NewWorker ==
    [pc |-> "poll", seen |-> "none", listed |-> "none", session |-> FALSE,
     detached |-> FALSE, pending |-> {}, accepted |-> {}, root |-> FALSE,
     kit |-> FreshKit, signing |-> "off", run |-> FALSE, cancel |-> FALSE,
     release |-> FALSE, plan |-> "off", taken |-> {}]

\* later: the manifest was handed over, a system chosen, and the image handed
\* over if it was not in the tree
KitScreen(inTree) ==
    [NewScreen EXCEPT !.phase = "ready", !.systems = TRUE, !.system = TRUE,
        !.req = [r \in Requests |-> IF r = "image" /\ inTree THEN "none" ELSE "accepted"]]

KitWorker ==
    [NewWorker EXCEPT !.kit = [open |-> TRUE, pending |-> {}, accepted |-> Requests,
                               root |-> TRUE, class |-> TRUE],
                     !.taken = Requests]

Init ==
    /\ tree \in BOOLEAN
    /\ \E w \in Workloads :
        /\ keys = w.keys /\ moves = w.moves
        /\ ui = IF w.kit THEN KitScreen(tree) ELSE NewScreen
        /\ svc = IF w.kit THEN KitWorker ELSE NewWorker
        /\ out = IF w.kit THEN <<>> ELSE <<<<"FileRequested", "manifest">>>>
    /\ commands = <<>> /\ events = <<>> /\ thread = "none"
    /\ broker \in {"gone", "available", "busy"}
    /\ granted = 0 /\ detached = 0 /\ parted = FALSE

Keys ==
    \/ ClaimSelected \/ ReleaseClaim \/ SelectSystem \/ ToggleSigning
    \/ AttachClipboard \/ MisnamedFile \/ CancelRestore \/ RetryRestore

Worker ==
    \/ ClaimDevice \/ ReleaseDevice \/ ProvideFile \/ ChooseClass \/ SetSigning
    \/ StartRestore \/ CancelRun \/ Shutdown \/ StopRun \/ RunJoined
    \/ PollRestoreOutcome \/ RefreshDiscovery \/ NotDue \/ Emit

\* the screen may stay closed, and everything then stands still
Next ==
    \/ Keys \/ Prepare \/ Quit \/ SendShutdown
    \/ Worker \/ ReportCheck \/ CheckEnds
    \/ ReportProgress \/ RestoreEnds \/ InventoryMoves

Spec == Init /\ [][Next]_vars

\* The worker's thread goes on while it can, a check reads a finite file, a run
\* ends (its waits are bounded, and it looks at the stop flag), and Drop sends
\* Shutdown as soon as there is room.
FairSpec ==
    /\ Spec
    /\ WF_vars(Worker) /\ WF_vars(CheckEnds)
    /\ WF_vars(RestoreEnds) /\ WF_vars(SendShutdown)

(***************************************************************************)
(* Properties.                                                             *)
(***************************************************************************)
\* Every claim the broker grants is handed back exactly once: until then the
\* session holds it, and no path (a failed identification, a replacement, a
\* release, a cancel and the outcome after it, shutdown) detaches it twice or
\* forgets it (detach_host_once, cleanup_session, claim_device).
DetachedOnce ==
    granted = detached + (IF svc.session /\ ~svc.detached THEN 1 ELSE 0)

AtRest == ui.open /\ commands = <<>> /\ events = <<>> /\ out = <<>>

\* With nothing in flight the screen shows the signing choice the service
\* holds, and the plan of a run has the choice the screen shows, whatever
\* toggles crossed its start (set_local_policy_signing).
SettingsAgree ==
    /\ AtRest => ui.signing = svc.signing
    /\ svc.run => svc.plan = svc.signing

\* The screen never waits for an answer that is not coming: with nothing in
\* flight and no run it shows neither a claim nor a start, a run, a cancel or
\* a check in progress.  Not so a screen that shows a claim the worker does not
\* hold (see ClaimIsBacked): the worker ignores the start it asks for.
UiSettles ==
    AtRest /\ ~svc.run /\ (ui.claimed => svc.session) =>
        /\ ui.phase \notin {"claiming", "starting", "running", "cancelling"}
        /\ ~ui.checking

\* With nothing in flight the screen shows a claim exactly when the worker
\* holds one, with two exceptions.  The device left the inventory while claimed
\* and idle: the screen forgets a claim the worker keeps (refresh_discovery).
\* Or a second Claim was under way when the first was granted: the worker drops
\* the claim it holds before it asks for the new one, and if that is refused
\* says so with ClaimRejected only, on which the screen keeps the old claim
\* (claim_device, apply_event).
ClaimIsBacked ==
    AtRest /\ ~parted => (ui.claimed <=> svc.session)

\* A file the worker waits for is one the screen asks for, unless it is a
\* payload the worker has accepted before, for a kit or an earlier claim: a
\* request that comes again keeps its old answer on the screen (upsert_request),
\* which then starts a restore that cannot start, again and again.
AskedIsOffered ==
    events = <<>> /\ out = <<>> /\ ui.open
      /\ (\A i \in 1 .. Len(commands) : commands[i] = Start)
      /\ svc.session =>
        \A r \in svc.pending : r \in OpenRequests(ui) \/ r \in svc.taken \ {"manifest"}

\* Quitting returns, a run or not, unless the worker is sending to an event
\* queue that is full and that nothing reads any more (Drop joins the worker
\* without dropping the receiver).
QuitReturns ==
    ~ui.open ~> \/ svc.pc = "gone"
                \/ out # <<>> /\ ~Room(events, EventCapacity)
=============================================================================
