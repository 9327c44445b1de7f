---------------------------- MODULE MCNegotiation ----------------------------
EXTENDS Negotiation

Plain == [local_as |-> 1, peer_as |-> 0, router_id |-> 1, hold_time |-> 9, families |-> <<"ipv4", "ipv6">>,
          asn4 |-> TRUE, add_path |-> "CANT", paths_limit |-> [f \in {"ipv4", "ipv6"} |-> 0],
          refresh |-> {"NORMAL", "ENHANCED"}, extended_message |-> FALSE, multi_session |-> FALSE]

\* The options that change what is sent, ...
Options == {[Plain EXCEPT !.add_path = mode, !.paths_limit = [f \in DOMAIN @ |-> limit],
                          !.extended_message = extended] :
            mode \in {"CANT", "RECEIVE", "SEND", "BOTH"}, limit \in {0, 1}, extended \in BOOLEAN}
\* ... what decides whether the OPEN is accepted, ...
Identities == {[Plain EXCEPT !.local_as = as, !.peer_as = other, !.router_id = id, !.asn4 = wide] :
               as \in {1, 9}, other \in {0, 9}, id \in {1, 2}, wide \in BOOLEAN}
Sessions == {[Plain EXCEPT !.multi_session = ms, !.families = fs, !.hold_time = hold, !.refresh = codes] :
             ms \in BOOLEAN, fs \in {<<"ipv4", "ipv6">>, <<"ipv6", "ipv4">>, <<"ipv4">>},
             hold \in {0, 2, 9}, codes \in {{"NORMAL"}, {"NORMAL", "ENHANCED"}}}

\* ... on both sides.
Between(left, right) == {[s \in {"a", "b"} |-> IF s = "a" THEN pair[1] ELSE pair[2]] : pair \in left \X right}
Named(id, configs) == {[c EXCEPT !.router_id = id] : c \in configs}
\* Two speakers of an AS that needs four octets.
SameAs == Between({[Plain EXCEPT !.local_as = 9]}, {[Plain EXCEPT !.local_as = 9]})
OnePath == {[Plain EXCEPT !.add_path = "BOTH", !.paths_limit = [f \in DOMAIN @ |-> 1]]}
LimitOne == Between(OnePath, Named(2, OnePath))
\* One that copies the AS of the other, of two octets or of four.
Mirrors(extended) ==
    Between({[Plain EXCEPT !.local_as = 0, !.extended_message = extended, !.asn4 = wide] : wide \in BOOLEAN},
            {[Plain EXCEPT !.local_as = as, !.router_id = 2, !.extended_message = TRUE] : as \in {1, 9}})
ExtendedMirrors == Mirrors(TRUE)

Pairs == Between(Options, Named(2, Options)) \union Between(Identities, Identities)
            \union Between({c \in Sessions : c.hold_time = 9}, Named(2, Sessions))
            \union Mirrors(FALSE)

Route(prefix, path, reach, octets) ==
    [prefix |-> prefix, path |-> path, reach |-> reach, octets |-> octets, family |-> "ipv4"]
Two(reach) == << Route(1, 1, reach, 2), Route(1, 2, reach, 2), Route(2, 1, reach, 2) >>
\* A batch that fills several messages of InitialSize, with a next-hop of either
\* kind, or of both.
Plenty == {[attrs |-> 3, family |-> "ipv4", announces |-> Two(reach)] : reach \in BOOLEAN}
    \union {[attrs |-> 3, family |-> "ipv4",
             announces |-> << Route(1, 1, FALSE, 2), Route(2, 1, FALSE, 2), Route(3, 1, TRUE, 2) >>]}
\* Two paths of a prefix, one after the other.
Paths == {[attrs |-> 3, family |-> "ipv4", announces |-> << Route(1, path, FALSE, 2) >>] : path \in 1..2}

\* What the theorems on the updates suppose holds of the instance that is checked.
ASSUME UpdatesAssumption == Configs = Pairs /\ Batches = Plenty => RoutesFit /\ MirrorsPlain
=============================================================================
