---------------------------- MODULE MCHealthcheck ----------------------------
EXTENDS Healthcheck

Opt(rise, fall, switches) == [rise |-> rise, fall |-> fall, on |-> switches]

\* The defaults but for shorter streaks; --dynamic-ip-setup with and without
\* acknowledgements and --sudo; --debounce; --interval 0; no streaks at all.
CommandLines ==
    { Opt(2, 2, {"ip_setup", "disable"}),
      Opt(3, 2, {"ip_setup", "ip_dynamic", "withdraw_on_down", "disable", "adj_rib_out"}),
      Opt(1, 2, {"ip_dynamic", "sudo", "withdraw_on_down"}),
      Opt(2, 1, {"ip_dynamic", "no_ack", "disable"}),
      Opt(2, 3, {"ip_setup", "ip_dynamic", "debounce", "disable"}),
      Opt(0, 0, {"once", "disable", "withdraw_on_down"}) }
==============================================================================
