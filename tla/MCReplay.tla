------------------------------- MODULE MCReplay -------------------------------
(***************************************************************************)
(* Two families of invocations: every world under one plain flow, and a    *)
(* sound world under flows and command lines of every kind.                *)
(***************************************************************************)
EXTENDS Replay

Sound == [surface |-> "web", configured |-> "unset", target |-> "port", set_target |-> "port",
          backend |-> "ssh", lab |-> TRUE, driver_dom |-> "unset",
          entry |-> TRUE, program |-> TRUE, driver |-> TRUE, surfaces |-> {"web"},
          tauri |-> "ok", artifacts |-> TRUE, store |-> TRUE, forward |-> TRUE,
          local_end |-> "listening"]

Good(s) == [valid |-> TRUE, steps |-> s]

Plain == [world |-> Sound, verb |-> "run", since |-> "unset", flows |-> <<Good(<<"assert">>)>>,
          goldens |-> TRUE, keep_going |-> FALSE, update |-> FALSE,
          placing |-> [no_place |-> FALSE, artifact |-> FALSE, names |-> TRUE, source |-> "git"],
          opens |-> "url", target |-> "url"]

\* A world varies in what matters to each other, and is sound otherwise: where the driver
\* runs, what it says of itself and which surface is meant; the forward, the targets and
\* the lab; the directories.
Worlds ==
  {[Sound EXCEPT !.surface = s, !.configured = c, !.backend = b, !.lab = l, !.driver_dom = d,
     !.entry = e, !.program = p, !.driver = r, !.surfaces = f, !.tauri = t] :
     s \in Surfaces, c \in {"unset", "web", "tauri"}, b \in {"local", "ssh"}, l \in BOOLEAN,
     d \in DriverCmds, e \in BOOLEAN, p \in BOOLEAN, r \in BOOLEAN,
     f \in {{}, {"web"}, {"web", "tauri"}}, t \in {"unsaid", "ok", "broken"}}
  \cup
  {[Sound EXCEPT !.backend = b, !.lab = l, !.driver_dom = d, !.target = t, !.set_target = c,
     !.forward = f, !.local_end = e] :
     b \in {"local", "ssh"}, l \in BOOLEAN, d \in DriverCmds, t \in Ends,
     c \in Ends \cup {"unset"}, f \in BOOLEAN, e \in LocalEnds}
  \cup
  {[Sound EXCEPT !.backend = b, !.artifacts = a, !.store = s] :
     b \in {"local", "ssh"}, a \in BOOLEAN, s \in BOOLEAN}

\* A driver answers once its program runs, and says something of itself once it answers;
\* without a forward nothing listens for it; this machine needs no lab.
Possible(x) ==
  /\ ~x.program => ~x.driver
  /\ ~x.driver => x.surfaces = {} /\ x.tauri = "unsaid"
  /\ ~x.forward => x.local_end = "closed"
  /\ x.backend = "local" => x.lab
  /\ x.backend = "ssh" => x.entry

Pieces == {<<"open", "assert">>, <<"do", "picture">>, <<"picture", "assert", "picture">>,
           <<"look", "do">>}

MCLooks  == {1, 2}
MCFaults == {"write", "driver", "vision", "place", "kill"}

Lines ==
  {[Plain EXCEPT !.verb = v, !.flows = f, !.keep_going = k, !.update = u] :
     v \in {"verify"}, k \in BOOLEAN, u \in BOOLEAN,
     f \in {<<>>} \cup {<<Good(a), Good(b)>> : a \in Pieces, b \in {<<"open", "assert">>, <<"picture">>}}}
  \cup
  {[Plain EXCEPT !.flows = f, !.keep_going = k] :
     k \in BOOLEAN,
     f \in {<<>>, <<[valid |-> FALSE, steps |-> <<"assert">>]>>} \cup {<<Good(a)>> : a \in Pieces}}
  \cup
  {[Plain EXCEPT !.flows = <<Good(<<"open", "assert", "open">>)>>, !.opens = o, !.target = t,
     !.placing = [no_place |-> n, artifact |-> TRUE, names |-> m, source |-> s]] :
     o \in {"url", "token"}, t \in Targets, n \in BOOLEAN, m \in BOOLEAN,
     s \in {"lab", "absent", "project"}}
  \cup
  {[Plain EXCEPT !.verb = "verify", !.since = x] : x \in {"same", "moved", "unknown"}}
  \cup
  {[Plain EXCEPT !.verb = "verify", !.goldens = FALSE,
     !.flows = <<Good(<<"picture", "assert">>)>>]}

MCCases == Lines \cup {[Plain EXCEPT !.world = x] : x \in {y \in Worlds : Possible(y)}}
===============================================================================
