----------------------------- MODULE PortConfig -----------------------------
(***************************************************************************)
(* The configuration of one front-panel port: sai-netdev.c keeps in        *)
(* netdev->config what it last applied, and __port_config_set of           *)
(* sai-port.c writes only the attributes that differ from it.  set_mtu and *)
(* update_flags write to the ASIC as well, past that cache, and the ASIC   *)
(* outlives the netdev.                                                    *)
(*                                                                         *)
(*   hw        the attributes of the port in the ASIC                      *)
(*   open      the netdev exists and is_port_initialized                   *)
(*   config    netdev->config                                              *)
(*   default   netdev->default_config                                      *)
(*   asked     the arguments of the last set_hw_intf_config                *)
(*   last      how it ended, "none" if the last call was another one       *)
(*   unsynced  history: attributes not written by a config_set that        *)
(*             succeeded, or written since by something else               *)
(*                                                                         *)
(* The SAI port API is external: a call that fails changes nothing.        *)
(***************************************************************************)
EXTENDS Integers, SequencesExt

CONSTANTS Speeds, Mtus,
          PauseModes,    \* SAI flow control modes, as far as they are used
          HasPause,      \* FALSE in a build with MLNX_SAI
          PowerOn,       \* the attributes of the ASIC's port at power on
          Requests,      \* arguments: functions from some of the attributes
          SdkFails,      \* whether SAI calls may fail
          OtherWriters   \* whether set_mtu and update_flags are called

\* The order in which config_set writes; the mutant begins with the admin state.
OrderAdminFirst ==
    <<"enable", "autoneg", "speed", "mtu">>
    \o (IF HasPause THEN <<"pause">> ELSE <<>>)
Order ==
    <<"autoneg", "speed", "mtu">>
    \o (IF HasPause THEN <<"pause">> ELSE <<>>) \o <<"enable">>

\* The attributes that are written.  struct ops_sai_port_config always has all.
Attributes == ToSet(Order)
Values == [autoneg |-> BOOLEAN, speed |-> Speeds, mtu |-> Mtus,
           pause |-> PauseModes, enable |-> BOOLEAN]
Configs == [autoneg : BOOLEAN, speed : Speeds, mtu : Mtus,
            pause : PauseModes, enable : BOOLEAN]
Zero == [autoneg |-> FALSE, speed |-> 0, mtu |-> 0,
         pause |-> "disable", enable |-> FALSE]

ASSUME PortAssumption ==
    /\ Speeds \cup Mtus \subseteq Nat \ {0}
    /\ "disable" \in PauseModes
    /\ {HasPause, SdkFails, OtherWriters} \subseteq BOOLEAN
    /\ PowerOn \in Configs
    /\ \A r \in Requests : /\ DOMAIN r \subseteq DOMAIN Zero
                           /\ \A a \in DOMAIN r : r[a] \in Values[a]

VARIABLES hw, open, config, default, asked, last, unsynced
vars == <<hw, open, config, default, asked, last, unsynced>>

\* The new configuration __set_hw_intf_config makes of its arguments; the
\* mutants leave what they do not name as it is, and make it zero.
WantedKeeping(r) ==
    [a \in DOMAIN Zero |-> IF a \in DOMAIN r THEN r[a]
                            ELSE IF config # Zero THEN config[a] ELSE default[a]]
WantedZero(r) ==
    [a \in DOMAIN Zero |-> IF a \in DOMAIN r THEN r[a] ELSE Zero[a]]
Wanted(r) ==
    [a \in DOMAIN Zero |-> IF a \in DOMAIN r THEN r[a] ELSE default[a]]

Written(old, written, new) ==
    [a \in DOMAIN Zero |-> IF a \in written THEN new[a] ELSE old[a]]

Init ==
    /\ hw = PowerOn
    /\ open = FALSE
    /\ config = Zero /\ default = Zero
    /\ asked = <<>> /\ last = "none"
    /\ unsynced = Attributes

\* A new netdev, and set_hw_intf_info on it: the defaults are what the ASIC
\* has at that time.
Open ==
    /\ ~open
    /\ open' = TRUE
    /\ config' = Zero
    /\ default' = IF HasPause THEN hw ELSE [hw EXCEPT !.pause = "disable"]
    /\ asked' = <<>> /\ last' = "none"
    /\ unsynced' = Attributes
    /\ UNCHANGED hw

\* The netdev is destroyed; the port keeps its attributes.
Close ==
    /\ open
    /\ open' = FALSE
    /\ UNCHANGED <<hw, config, default, asked, last, unsynced>>

\* __port_config_set writes what differs from the cache, in order, up to the
\* first call that fails; the cache is updated only when none does, and the
\* mutant updates it always.
Differing(new) == {i \in DOMAIN Order : config[Order[i]] # new[Order[i]]}
NamesOf(I) == {Order[i] : i \in I}

CacheAlways(new) == new
CacheOnFailure(new) == config

ConfigSetSucceeds(new) ==
    /\ hw' = Written(hw, NamesOf(Differing(new)), new)
    /\ config' = new
    /\ last' = "ok"
    /\ unsynced' = unsynced \ NamesOf(Differing(new))

ConfigSetFails(new) ==
    /\ SdkFails
    /\ \E i \in Differing(new) :
        LET written == NamesOf({j \in Differing(new) : j < i})
        IN  /\ hw' = Written(hw, written, new)
            /\ unsynced' = unsynced \cup written
    /\ config' = CacheOnFailure(new)
    /\ last' = "failed"

\* __set_hw_intf_config
ConfigSet(r) ==
    /\ open
    /\ asked' = r
    /\ ConfigSetSucceeds(Wanted(r)) \/ ConfigSetFails(Wanted(r))
    /\ UNCHANGED <<open, default>>

\* One of these calls, when it succeeds; when it fails nothing changes.
WritePast(a, v) ==
    /\ open /\ OtherWriters
    /\ hw' = [hw EXCEPT ![a] = v]
    /\ unsynced' = unsynced \cup {a}
    /\ last' = "none"
    /\ UNCHANGED <<open, config, default, asked>>

\* __set_mtu; __update_flags with NETDEV_UP on or off
SetMtu(m) == WritePast("mtu", m)
UpdateFlags(up) == WritePast("enable", up)

Next ==
    \/ Open \/ Close
    \/ \E r \in Requests : ConfigSet(r)
    \/ \E m \in Mtus : SetMtu(m)
    \/ \E up \in BOOLEAN : UpdateFlags(up)

Spec == Init /\ [][Next]_vars

-----------------------------------------------------------------------------
TypeOK ==
    /\ hw \in Configs
    /\ open \in BOOLEAN
    /\ config \in Configs \cup {Zero}
    /\ default \in Configs \cup {Zero}
    /\ asked \in Requests \cup {<<>>}
    /\ last \in {"none", "ok", "failed"}
    /\ unsynced \subseteq Attributes

\* What the arguments of the last call ask for.
Promised(a) == IF a \in DOMAIN asked THEN asked[a] ELSE default[a]

\* The cache decides what is written to the ASIC, so it must not claim what
\* the ASIC does not have: calls that fail half way, in any number, make it
\* wrong about no attribute but those they wrote themselves, and what they did
\* not get to is written when the call is retried.
CacheIsTrue ==
    open => \A a \in Attributes \ unsynced : hw[a] = config[a]

\* "Applies all supported port configuration except from hw_enable", then the
\* admin state: a set_hw_intf_config that fails neither switches on a port
\* with half a configuration nor switches off a working one.
FailureKeepsAdminState ==
    [][last' = "failed" => hw'["enable"] = hw["enable"]]_vars

\* After a set_hw_intf_config that succeeded the port has what its arguments
\* say, and the port's own defaults where they say nothing, whatever earlier
\* calls named: but for the attributes the cache may be wrong about.
RequestInForce ==
    (open /\ last = "ok") =>
        \A a \in Attributes \ unsynced : hw[a] = Promised(a)

=============================================================================
