------------------------------ MODULE Preflight ------------------------------
(***************************************************************************)
(* What stands between a `ui-box run` (or `open`) and a page: the guard on *)
(* forwarded ports, the backend, the driver that is to be started and what *)
(* it says of itself; and what `ui-box doctor` says of the same things.    *)
(* The two are written apart, and both start a driver to find out.         *)
(*                                                                         *)
(* A world is one machine, its configuration and its lab, and the surface  *)
(* and the target that a flow or its command line ask for: doctor does not *)
(* see those, only the ones that are configured.  The forward, when there  *)
(* is one, names the port that a target at "port" has.                     *)
(***************************************************************************)
EXTENDS Naturals

Surfaces   == {"web", "tauri", "tui"}
LocalEnds  == {"listening", "ipv6", "closed"}
DriverCmds == {"unset", "here", "ssh"}     \* UIBOX_DRIVER_DOM: a local program, or ssh

\* A target: at that port of a loopback address, at another port of one, or elsewhere.
Ends == {"port", "other", "away"}

World == [surface    : Surfaces,           \* wanted: --surface, or the flow's
          configured : Surfaces \cup {"unset"},      \* the surface in the configuration
          target     : Ends,               \* wanted: --target, or the flow's
          set_target : Ends \cup {"unset"},          \* the target in the configuration
          backend    : {"local", "ssh"},
          lab        : BOOLEAN,            \* the lab answers
          driver_dom : DriverCmds,
          entry      : BOOLEAN,            \* drivers/dom/dist/main.js has been built
          program    : BOOLEAN,            \* the first word of the command can be executed
          driver     : BOOLEAN,            \* it answers driver.info
          surfaces   : SUBSET Surfaces,    \* which surfaces it declares
          tauri      : {"unsaid", "ok", "broken"},
          artifacts  : BOOLEAN,            \* the directory of runs can be made
          store      : BOOLEAN,            \* the directory of sessions can be read
          forward    : BOOLEAN,            \* there is a --forward, of the port
          local_end  : LocalEnds]          \* what listens here for the forward

-----------------------------------------------------------------------------
\* driver::resolve: which command is started, with or without the forwards.
Verbatim(w) == \/ w.driver_dom = "ssh"
               \/ w.driver_dom = "here" /\ w.backend = "local"

Resolve(w, surface) ==
  IF surface = "tui" THEN "unsupported"
  ELSE IF Verbatim(w) THEN "verbatim"
  ELSE IF w.backend = "ssh" THEN "remote"
  ELSE IF w.entry THEN "here" ELSE "missing"

Resolved(w, surface) == Resolve(w, surface) \in {"verbatim", "remote", "here"}

\* What ui-box starts is the ssh that reaches a driver in the lab, not the driver.
Distant(w) == \/ Resolve(w, w.surface) = "remote"
              \/ Resolve(w, w.surface) = "verbatim" /\ w.driver_dom = "ssh"

\* The connection to the driver publishes the port, and fails when it cannot.
Publishes(w) == Resolve(w, w.surface) = "remote" /\ w.forward

\* forward::guard, before anything is started.
Guard(w) ==
  IF w.backend = "local" THEN "ok"
  ELSE IF w.driver_dom = "ssh" /\ w.forward THEN "forward_unsupported"
  ELSE IF w.target = "other" \/ (w.target = "port" /\ ~w.forward) THEN "forward_missing"
  ELSE IF w.forward /\ w.local_end = "ipv6" THEN "forward_ipv6_only"
  ELSE IF w.forward /\ w.local_end = "closed" THEN "forward_unreachable" ELSE "ok"

ProbeBackend(w) == w.backend = "ssh" => w.lab

\* ensure_surface: a driver that declares nothing is taken at its word.
EnsureSurface(w) == w.surfaces = {} \/ w.surface \in w.surfaces

\* Connection::spawn, info, ensure_surface and open, with the port free in the lab.
Opens(w) == /\ w.program /\ w.driver
            /\ EnsureSurface(w)
            /\ w.surface = "tauri" => w.tauri # "broken"

-----------------------------------------------------------------------------
\* doctor: the checks that fail and block.  It starts a web driver, without forwards,
\* and never wakes a lab by force.
CheckBackend(w) == w.backend = "ssh" => w.lab
FoundDom(w)     == Resolved(w, "web")

CheckDom(w)     == /\ Resolved(w, "web") /\ w.program /\ w.driver
                   /\ Resolve(w, "web") = "remote" => w.lab
CheckTauri(w)   == CheckDom(w) /\ w.tauri = "ok"

Blocking(w) ==
  (IF w.artifacts THEN {} ELSE {"artifacts"})
    \cup (IF CheckBackend(w) THEN {} ELSE {"backend"})
    \cup (IF CheckDom(w) THEN {} ELSE {"driver.dom"})
    \cup (IF w.configured = "tauri" /\ ~CheckTauri(w) THEN {"driver.tauri"} ELSE {})
    \cup (IF w.store THEN {} ELSE {"sessions"})

\* The checks that fail and are advice.  `answers`: something answers at the configured
\* target, seen from the lab.
CheckForward(w) == w.backend = "ssh" /\ w.forward => w.local_end = "listening"
CheckTarget(w, answers) ==
  \/ w.set_target = "unset"
  \/ w.backend = "ssh" /\ w.set_target = "port" /\ w.forward
  \/ CheckBackend(w) /\ answers

Advice(w, answers) ==
  (IF CheckForward(w) THEN {} ELSE {"forward"})
    \cup (IF CheckTarget(w, answers) THEN {} ELSE {"target"})

Usable(w) == Blocking(w) = {}
==============================================================================
