------------------------------- MODULE DwPoll -------------------------------
(***************************************************************************)
(* The poll loop of src/dw_poll.c over its three back ends.  select() and  *)
(* poll() keep their interest in arrays of the process, from which entries *)
(* are deleted by moving the last one into the hole, also while            *)
(* dw_poll_next walks the same arrays; epoll keeps it in the kernel.       *)
(* Between two calls of dw_poll_next the handler of the event may add,     *)
(* change or delete any descriptor, with the flags the calls of            *)
(* src/dw_node.c use.  Errors and hangups come as readiness to read.       *)
(***************************************************************************)
EXTENDS SequencesExt

CONSTANTS Fds,
          Listen,     \* the descriptor that is never closed
          Types,
          MAX_POLLFD, \* size of the arrays of each back end
          AuxValues   \* what callers attach to each descriptor

Events == {"IN", "OUT"}
Flags == Events \cup {"ONESHOT"}

ASSUME PollConstants == /\ Types \subseteq {"DW_SELECT", "DW_POLL", "DW_EPOLL"}
                        /\ MAX_POLLFD \in [Types -> Nat \ {0}]
                        /\ Listen \in Fds

VARIABLES poll_type,
          rd, wr,  \* select: rd_fd/rd_flags/rd_aux and wr_fd/wr_flags/wr_aux
          pl,      \* poll: pollfds/flags/aux
          ep,      \* epoll: the interest list of the kernel
          evs,     \* epoll: the events of the last epoll_wait()
          isset,   \* select: rd_fds and wr_fds
          iter,    \* the next entry to look at, from 0
          ready,   \* what the kernel would report now
          pc,      \* "wait", "next" or "handle"
          got,     \* the event dw_poll_next returned last
          must,    \* a descriptor its handler has to register again
          asked, once, call, \* history: the flags and aux last asked for each
                       \* descriptor, those asked ONESHOT, and the last call
          open     \* descriptors the node has open

lists == <<rd, wr, pl, ep>>
vars == <<poll_type, lists, evs, isset, iter, ready, pc, got, must, asked,
          once, call, open>>

NoEvent == [fd |-> "none", flags |-> {}, aux |-> "none"]
Nothing == [flags |-> {}, aux |-> "none"]
Entry(f, flags, aux) == [fd |-> f, flags |-> flags, aux |-> aux]

PollEntry(f, flags, aux, revents) == [fd |-> f, flags |-> flags, aux |-> aux,
                                      revents |-> revents]

\* dw_poll_init, and the descriptors a worker adds before its loop.
Init == /\ poll_type \in Types
        /\ rd = IF poll_type = "DW_SELECT" THEN <<Entry(Listen, {"IN"}, "none")>>
                ELSE <<>>
        /\ wr = <<>>
        /\ pl = IF poll_type = "DW_POLL"
                THEN <<PollEntry(Listen, {"IN"}, "none", {})>> ELSE <<>>
        /\ asked = [f \in Fds |-> IF f = Listen THEN [Nothing EXCEPT !.flags = {"IN"}]
                                  ELSE Nothing]
        /\ ep = IF poll_type = "DW_EPOLL" THEN asked ELSE [f \in Fds |-> Nothing]
        /\ evs = <<>> /\ isset = {} /\ iter = 0
        /\ ready = {}
        /\ pc = "wait" /\ got = NoEvent /\ must = "none"
        /\ once = {} /\ call = <<>>
        /\ open = {Listen}
-----------------------------------------------------------------------------
\* dw_select_del_rd_pos, dw_select_del_wr_pos, dw_poll_del_pos: the last
\* entry takes the place of entry i (from 1).
DelPosFdOnly(l, i) == \* mutant: only the fd is moved
  IF i = Len(l) THEN Front(l) ELSE [Front(l) EXCEPT ![i].fd = Last(l).fd]
DelPos(l, i) == IF i = Len(l) THEN Front(l) ELSE [Front(l) EXCEPT ![i] = Last(l)]

\* The first position of f in l, or Len(l) + 1.
Position(l, f) ==
  LET at == {i \in DOMAIN l : l[i].fd = f}
  IN IF at = {} THEN Len(l) + 1 ELSE Min(at)

\* One of the two halves of dw_poll_mod for select: the list of the
\* descriptors polled for e.
SelectMod(l, e, f, flags, aux) ==
  LET i == Position(l, f) IN
  CASE i <= Len(l) /\ e \notin flags -> DelPos(l, i)
    [] i > Len(l) /\ e \in flags -> Append(l, Entry(f, flags, aux))
    [] i <= Len(l) /\ e \in flags ->
         [l EXCEPT ![i] = Entry(f, flags \ {"ONESHOT"}, aux)]
    [] OTHER -> l

\* dw_poll_mod for poll; revents stays as it was, and is 0 in a new entry.
PollModKeep(l, f, flags, aux) == \* mutant: the ONESHOT flag is kept
  LET i == Position(l, f) IN
  CASE i <= Len(l) /\ flags \cap Events = {} -> DelPos(l, i)
    [] i <= Len(l) /\ flags \cap Events # {} ->
         [l EXCEPT ![i] = PollEntry(f, flags, aux, @.revents)]
    [] i > Len(l) /\ flags # {} -> Append(l, PollEntry(f, flags, aux, {}))
    [] OTHER -> l
PollModNarrow(l, f, flags, aux) == \* mutant: flags are cleared but not set
  LET i == Position(l, f) IN
  CASE i <= Len(l) /\ flags \cap Events = {} -> DelPos(l, i)
    [] i <= Len(l) /\ flags \cap Events # {} ->
         [l EXCEPT ![i] = PollEntry(f, @.flags \cap flags, aux, @.revents)]
    [] i > Len(l) /\ flags # {} -> Append(l, PollEntry(f, flags, aux, {}))
    [] OTHER -> l
PollMod(l, f, flags, aux) ==
  LET i == Position(l, f) IN
  CASE i <= Len(l) /\ flags \cap Events = {} -> DelPos(l, i)
    [] i <= Len(l) /\ flags \cap Events # {} ->
         [l EXCEPT ![i] = PollEntry(f, flags \ {"ONESHOT"}, aux, @.revents)]
    [] i > Len(l) /\ flags # {} -> Append(l, PollEntry(f, flags, aux, {}))
    [] OTHER -> l

\* dw_poll_add finds no room in the arrays.
Full(flags) == \/ /\ poll_type = "DW_SELECT"
                  /\ \/ "IN" \in flags /\ Len(rd) = MAX_POLLFD[poll_type]
                     \/ "OUT" \in flags /\ Len(wr) = MAX_POLLFD[poll_type]
               \/ poll_type = "DW_POLL" /\ Len(pl) = MAX_POLLFD[poll_type]

Asked(f, flags, aux) ==
  /\ asked' = [asked EXCEPT ![f] = IF flags \cap Events = {} THEN Nothing
                                   ELSE [flags |-> flags \cap Events, aux |-> aux]]
  /\ once' = IF "ONESHOT" \in flags THEN once \cup {f} ELSE once \ {f}
  /\ call' = <<f, flags \cap Events>>
  /\ ready' = {x \in ready : x[1] = f => x[2] \in flags}

dw_poll_add(f, flags, aux) ==
  /\ CASE poll_type = "DW_SELECT" ->
            /\ rd' = IF "IN" \in flags THEN Append(rd, Entry(f, flags, aux)) ELSE rd
            /\ wr' = IF "OUT" \in flags THEN Append(wr, Entry(f, flags, aux)) ELSE wr
            /\ UNCHANGED <<pl, ep>>
       [] poll_type = "DW_POLL" ->
            /\ pl' = Append(pl, PollEntry(f, flags, aux, {}))
            /\ UNCHANGED <<rd, wr, ep>>
       [] poll_type = "DW_EPOLL" ->
            /\ ep' = [ep EXCEPT ![f] = [flags |-> flags, aux |-> aux]]
            /\ UNCHANGED <<rd, wr, pl>>
  /\ Asked(f, flags, aux)

dw_poll_mod(f, flags, aux) ==
  /\ CASE poll_type = "DW_SELECT" ->
            /\ rd' = SelectMod(rd, "IN", f, flags, aux)
            /\ wr' = SelectMod(wr, "OUT", f, flags, aux)
            /\ UNCHANGED <<pl, ep>>
       [] poll_type = "DW_POLL" ->
            /\ pl' = PollMod(pl, f, flags, aux)
            /\ UNCHANGED <<rd, wr, ep>>
       [] poll_type = "DW_EPOLL" ->
            /\ ep' = [ep EXCEPT ![f] =
                        IF flags \cap Events = {} THEN Nothing
                        ELSE [flags |-> flags \cap Events, aux |-> aux]]
            /\ UNCHANGED <<rd, wr, pl>>
  /\ Asked(f, flags, aux)

\* dw_poll_wait returns once something is ready.
dw_poll_wait ==
  LET inRd == {e \in ready : e[2] = "IN" /\ \E i \in DOMAIN rd : rd[i].fd = e[1]}
      inWr == {e \in ready : e[2] = "OUT" /\ \E i \in DOMAIN wr : wr[i].fd = e[1]}
      revents(f, flags) == {e \in flags \cap Events : <<f, e>> \in ready}
      inEp == {f \in Fds : revents(f, ep[f].flags) # {}}
  IN
  /\ pc = "wait"
  /\ CASE poll_type = "DW_SELECT" ->
            /\ inRd \cup inWr # {}
            /\ isset' = inRd \cup inWr
            /\ UNCHANGED <<pl, evs>>
       [] poll_type = "DW_POLL" ->
            /\ pl' = [i \in DOMAIN pl |->
                        [pl[i] EXCEPT !.revents = revents(pl[i].fd, pl[i].flags)]]
            /\ \E i \in DOMAIN pl : pl'[i].revents # {}
            /\ UNCHANGED <<isset, evs>>
       [] poll_type = "DW_EPOLL" ->
            /\ inEp # {}
            /\ evs' \in {[i \in DOMAIN s |-> [fd |-> s[i], aux |-> ep[s[i]].aux,
                                   flags |-> revents(s[i], ep[s[i]].flags)]] :
                         s \in SetToSeqs(inEp)}
            /\ UNCHANGED <<pl, isset>>
  /\ iter' = 0
  /\ pc' = "next"
  /\ UNCHANGED <<poll_type, rd, wr, ep, ready, got, must, asked, once, call, open>>

\* The first index from `from' on whose entry is one of `found', or Len(l).
Scan(l, from, found) ==
  LET hits == {i \in from .. Len(l) - 1 : l[i + 1] \in found}
  IN IF hits = {} THEN Max({from, Len(l)}) ELSE Min(hits)

Returned(x, flags) == /\ got' = [fd |-> x.fd, flags |-> flags, aux |-> x.aux]
                      /\ pc' = "handle"
                      /\ must' = IF "OUT" \in flags THEN x.fd ELSE "none"
                      /\ UNCHANGED <<call, isset, evs>>

\* Nothing is left; what dw_poll_wait overwrites is cleared here.
NoMore == /\ pc' = "wait"
          /\ iter' = 0 /\ isset' = {} /\ evs' = <<>>
          /\ pl' = [i \in DOMAIN pl |-> [pl[i] EXCEPT !.revents = {}]]
          /\ UNCHANGED <<rd, wr, ep, got, must, call>>

\* dw_poll_next for select: first the readers, then the writers, behind the
\* readers there are by now.
SelectNext ==
  LET i == Scan(rd, iter, {x \in ToSet(rd) : <<x.fd, "IN">> \in isset})
      j == Scan(wr, i - Len(rd), {x \in ToSet(wr) : <<x.fd, "OUT">> \in isset})
  IN
  /\ poll_type = "DW_SELECT"
  /\ IF i < Len(rd)
     THEN /\ Returned(rd[i + 1], {"IN"})
          /\ IF "ONESHOT" \in rd[i + 1].flags
             THEN rd' = DelPos(rd, i + 1) /\ iter' = i
             ELSE iter' = i + 1 /\ UNCHANGED rd
          /\ UNCHANGED <<wr, pl, ep>>
     ELSE IF j < Len(wr)
     THEN /\ Returned(wr[j + 1], {"OUT"})
          /\ IF "ONESHOT" \in wr[j + 1].flags
             THEN wr' = DelPos(wr, j + 1) /\ iter' = Len(rd) + j
             ELSE iter' = Len(rd) + j + 1 /\ UNCHANGED wr
          /\ UNCHANGED <<rd, pl, ep>>
     ELSE NoMore

PollNext ==
  LET i == Scan(pl, iter, {x \in ToSet(pl) : x.revents # {}}) IN
  /\ poll_type = "DW_POLL"
  /\ IF i < Len(pl)
     THEN /\ Returned(pl[i + 1], pl[i + 1].revents)
          /\ IF "ONESHOT" \in pl[i + 1].flags
             THEN pl' = DelPos(pl, i + 1) /\ iter' = i
             ELSE iter' = i + 1 /\ UNCHANGED pl
          /\ UNCHANGED <<rd, wr, ep>>
     ELSE NoMore

EpollNext ==
  /\ poll_type = "DW_EPOLL"
  /\ IF iter < Len(evs)
     THEN /\ Returned(evs[iter + 1], evs[iter + 1].flags)
          /\ iter' = iter + 1
          /\ UNCHANGED lists
     ELSE NoMore

dw_poll_next ==
  /\ pc = "next"
  /\ SelectNext \/ PollNext \/ EpollNext
  /\ UNCHANGED <<poll_type, ready, asked, once, open>>
-----------------------------------------------------------------------------
\* The calls a handler makes: a new socket is added for reading, or with
\* connect() pending; a socket is changed to one direction, or deleted just
\* before it is closed.
AddFlags == {{"IN"}, {"IN", "OUT"}}
ModFlags == {{"IN"}, {"OUT", "ONESHOT"}, {"IN", "ONESHOT"}}

AddFd(f, flags, aux) ==
  /\ pc = "handle"
  /\ f \notin open
  /\ open' = open \cup {f}
  /\ IF Full(flags) THEN UNCHANGED <<lists, asked, once, call, ready>>
     ELSE dw_poll_add(f, flags, aux)
  /\ UNCHANGED <<poll_type, evs, isset, iter, pc, got, must>>

ModFd(f, flags, aux) ==
  /\ pc = "handle"
  /\ f # Listen /\ asked[f] # Nothing
  /\ dw_poll_mod(f, flags, aux)
  /\ must' = IF must = f THEN "none" ELSE must
  /\ UNCHANGED <<poll_type, evs, isset, iter, pc, got, open>>

CloseFd(f) ==
  /\ pc = "handle"
  /\ f \in open \ {Listen}
  /\ dw_poll_mod(f, {}, "none")
  /\ open' = open \ {f}
  /\ must' = IF must = f THEN "none" ELSE must
  /\ UNCHANGED <<poll_type, evs, isset, iter, pc, got>>

\* The handler returns to the loop over dw_poll_next.  exec_request changes
\* or closes every open socket it gets DW_POLLOUT for.
HandlerDone ==
  /\ pc = "handle"
  /\ must \notin open
  /\ pc' = "next" /\ got' = NoEvent /\ must' = "none" /\ call' = <<>>
  /\ UNCHANGED <<poll_type, lists, evs, isset, iter, ready, asked, once, open>>

\* The kernel: data, buffer space or a connection arrive or go.  What
\* changes before the next dw_poll_wait shows there, if it is asked for.
Kernel(f, e) ==
  /\ pc = "wait"
  /\ e \in asked[f].flags
  /\ ready' = IF <<f, e>> \in ready THEN ready \ {<<f, e>>}
              ELSE ready \cup {<<f, e>>}
  /\ UNCHANGED <<poll_type, lists, evs, isset, iter, pc, got, must, asked, once,
                 call, open>>

Next == \/ dw_poll_wait \/ dw_poll_next \/ HandlerDone
        \/ \E f \in Fds :
             \/ CloseFd(f)
             \/ \E e \in Events : Kernel(f, e)
             \/ \E aux \in AuxValues[f] :
                  \/ \E flags \in AddFlags : AddFd(f, flags, aux)
                  \/ \E flags \in ModFlags : ModFd(f, flags, aux)

Spec == Init /\ [][Next]_vars

\* The worker keeps polling, and every handler returns.
HandlerStep == \/ HandlerDone
               \/ \E f \in {must} \cap Fds : \E aux \in AuxValues[f], flags \in ModFlags :
                    ModFd(f, flags, aux)
Fairness == WF_vars(dw_poll_wait) /\ WF_vars(dw_poll_next) /\ WF_vars(HandlerStep)
FairSpec == Spec /\ Fairness
-----------------------------------------------------------------------------
\* The events the back end polls f for.
Polled(f) ==
  CASE poll_type = "DW_SELECT" ->
         {e \in Events : \E i \in DOMAIN (IF e = "IN" THEN rd ELSE wr) :
                           (IF e = "IN" THEN rd ELSE wr)[i].fd = f}
    [] poll_type = "DW_POLL" ->
         UNION {pl[i].flags \cap Events : i \in {j \in DOMAIN pl : pl[j].fd = f}}
    [] OTHER -> ep[f].flags

(* Whatever is deleted while the arrays are walked, an fd has at most one
   entry in an array, it is polled for nothing the last call for it did not
   ask for, and what the entry carries is what that call attached: an event
   is never dispatched to the connection of another or of an earlier fd. *)
EntriesAreCurrent ==
  /\ \A f \in Fds : Polled(f) \subseteq asked[f].flags
  /\ \A l \in {rd, wr, pl} : \A i, j \in DOMAIN l :
       /\ l[i].fd = l[j].fd => i = j
       /\ l[i].aux = asked[l[i].fd].aux

(* The list of the back end is the interest that was asked for: select, poll
   and epoll implement AbsPoll, although a deletion moves other entries. *)
Interest == INSTANCE AbsPoll WITH interest <- [f \in Fds |-> Polled(f)]
ImplementsInterest == Interest!Spec

\* When f stays ready for an event e that was asked for, dw_poll_next returns it.
Served(f, e) ==
  [](<>[](e \in asked[f].flags /\ <<f, e>> \in ready)
       => []<>(got.fd = f /\ e \in got.flags))

(* A descriptor that stays ready for what was asked is returned by
   dw_poll_next: with epoll, and with poll although a handler that closes
   another descriptor moves the last entry to a place the cursor has passed,
   where it is missed until the next dw_poll_wait. *)
ReadyIsServed ==
  poll_type # "DW_SELECT" => \A f \in Fds : \A e \in Events : Served(f, e)

(* dw_poll.c: dw_poll_mod is meant to match what epoll does.  Input on a
   socket is heard, once dw_poll_mod asked for it, until the next call for
   that socket; see README.md for what the select back end does. *)
SocketIsHeard == \A f \in Fds \ {Listen} : Served(f, "IN")
=============================================================================
