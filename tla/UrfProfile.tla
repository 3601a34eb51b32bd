------------------------------ MODULE UrfProfile ------------------------------
(***************************************************************************)
(* Where urfkilld's options come from (urf-config.c): the defaults, the    *)
(* XML profiles whose matches hold on this machine, urfkill.conf over      *)
(* both, and hardware.conf, in which the outcome of the profiles is kept.  *)
(*                                                                         *)
(* The profiles are read by expat, which calls the handlers of this module *)
(* as it meets the elements of a file; an action is one such call or one   *)
(* function.  A letter is a number here, and its capital the negative one. *)
(***************************************************************************)
EXTENDS Integers, SequencesExt

CONSTANTS
    Names,          \* the options looked at, of the five there are
    Elements,       \* the elements the profiles are made of
    Machines,       \* what get_dmi_info may return
    MaxEvents,      \* bound: calls of the handlers while a file is read
    MaxFiles,       \* bound: profiles
    MaxStarts       \* bound: starts of urfkilld

Keys == {"sys_vendor", "bios_date", "bios_vendor", "bios_version",
         "product_name", "product_version"}
Tests == {"string", "contains", "prefix", "suffix", "unknown", "none"}
Modes == {"plain", "ncase", "not", "outof"}

\* What get_operator knows.  An operator that it does not know never matches; with
\* "none" there is no attribute of an operator's name at all, hence no body.
Operators == ({"string", "contains", "prefix", "suffix"} \X {"plain", "outof"})
             \cup ({"contains", "prefix", "suffix"} \X {"ncase"})
             \cup {<<"contains", "not">>, <<"unknown", "plain">>, <<"none", "plain">>}

NULL == <<>>        \* no DMI information
NONE == "none"      \* OPT_NONE

\* An element: an option of the name key, a match of the machine's key with one of
\* the tokens of a body, or another.  Only the operators with "outof" split a body.
Element == [tag : {"option"}, key : Names \cup {"unknown"}]
           \cup {e \in [tag : {"match"}, key : Keys \cup {"unknown"}, test : Tests,
                        mode : Modes, tokens : Seq(Seq(Int))] :
                   /\ <<e.test, e.mode>> \in Operators
                   /\ e.mode # "outof" => Len(e.tokens) = 1}
           \cup [tag : {"other"}]

ASSUME ProfileAssumption ==
    /\ Names \subseteq {"key_control", "master_key", "force_sync", "persist",
                        "strict_flight_mode"}
    /\ \A e \in Elements : e \in Element
    /\ \A m \in Machines : m = NULL \/ \A k \in DOMAIN m : k \in Keys /\ m[k] \in Seq(Int)
    /\ {MaxEvents, MaxFiles, MaxStarts} \subseteq Nat /\ MaxStarts # 0

VARIABLES
    phase,          \* how far the start of urfkilld has come
    options,        \* priv->options
    result,         \* the options that the profiles are read into
    info,           \* the ParseInfo of the file that is being read
    hardware_conf,  \* the options saved in hardware.conf
    conf,           \* what urfkill.conf sets, as it was read
    dmi,            \* the DMI information of the machine
    stack, fresh,   \* history: the elements that are open, and whether the
                    \* last of them has had no element inside it yet
    wanted,         \* history: the options as the file should set them
    given,          \* history: the options as the profiles gave them
    events, files, starts

parse   == <<info, stack, fresh, wanted, events>>
vars == <<phase, options, result, hardware_conf, conf, dmi, given, parse, files, starts>>

OptionSet == [Names -> BOOLEAN]
Confs == UNION {[s -> BOOLEAN] : s \in SUBSET Names}
Phases == {"start", "profile", "file", "parsed", "conf", "running", "dead"}

TypeOK ==
    /\ phase \in Phases
    /\ options \in OptionSet
    /\ result \in OptionSet
    /\ info \in [xml_depth : Nat, xml_bound : Nat,
                 opt : Names \cup {NONE, "unknown"}, options : OptionSet]
    /\ info.xml_depth = Len(stack)
    /\ info.xml_bound <= info.xml_depth + 1
    /\ hardware_conf \in OptionSet \cup {NULL}
    /\ conf \in Confs
    /\ dmi \in Machines
    /\ \A i \in DOMAIN stack : stack[i] \in Elements
    /\ fresh \in BOOLEAN
    /\ {wanted, given} \subseteq OptionSet
    /\ events \in 0..MaxEvents
    /\ files \in 0..MaxFiles
    /\ starts \in 1..MaxStarts

-----------------------------------------------------------------------------
(* The rules of a profile.                                                 *)

lower(text) == [i \in DOMAIN text |-> IF text[i] < 0 THEN - text[i] ELSE text[i]]

Occurs(text, token) ==
    \E i \in 1..(Len(text) - Len(token) + 1) :
        SubSeq(text, i, i + Len(token) - 1) = token

match_test(test, text, token) ==
    \/ test = "string"   /\ text = token
    \/ test = "contains" /\ Occurs(text, token)
    \/ test = "prefix"   /\ IsPrefix(token, text)
    \/ test = "suffix"   /\ IsSuffix(token, text)

\* An empty body, and an empty token of one that is split, match nothing.
match_rule(text, e) ==
    /\ text # <<>>
    /\ \/ /\ e.mode \in {"plain", "outof"}
          /\ \E i \in DOMAIN e.tokens :
               e.tokens[i] # <<>> /\ match_test(e.test, text, e.tokens[i])
       \/ /\ e.mode = "ncase"
          /\ e.tokens[1] # <<>>
          /\ match_test(e.test, lower(text), lower(e.tokens[1]))
       \/ /\ e.mode = "not"
          /\ e.tokens[1] # <<>>
          /\ ~ match_test(e.test, text, e.tokens[1])

\* A match of what the machine does not tell, or with an unknown key, holds.
Holds(e) ==
    e.tag = "match" /\ e.key \in DOMAIN dmi => match_rule(dmi[e.key], e)

get_option(e) == IF e.tag = "option" THEN e.key ELSE NONE

Set(opts, name, text) ==
    IF name \in Names /\ text \in {"true", "false"}
    THEN [opts EXCEPT ![name] = (text = "true")] ELSE opts

-----------------------------------------------------------------------------
(* The handlers.                                                           *)

Event ==
    /\ phase = "file"
    /\ events < MaxEvents
    /\ events' = events + 1

\* Elements below the bound are passed over; a match that does not hold leaves the
\* bound at its own depth.
parse_xml_start_element(e) ==
    LET depth == info.xml_depth + 1
        bound == IF depth < info.xml_bound THEN depth + 1 ELSE info.xml_bound
    IN info' = IF depth > info.xml_bound THEN [info EXCEPT !.xml_depth = depth]
               ELSE [info EXCEPT !.xml_depth = depth,
                                 !.xml_bound = IF Holds(e) THEN bound + 1 ELSE bound,
                                 !.opt = get_option(e)]

\* Mutant: the bound stays where the last element has put it.
parse_xml_end_element_Bound ==
    info' = [info EXCEPT !.opt = NONE, !.xml_depth = @ - 1]

\* Mutant: the option is still set when an element inside it has ended.
parse_xml_end_element_Opt ==
    info' = [info EXCEPT !.xml_bound = IF @ > info.xml_depth THEN info.xml_depth ELSE @,
                         !.xml_depth = @ - 1]

parse_xml_end_element ==
    info' = [info EXCEPT !.xml_bound = IF @ > info.xml_depth THEN info.xml_depth ELSE @,
                         !.opt = NONE,
                         !.xml_depth = @ - 1]

parse_xml_cdata_handler(text) ==
    info' = [info EXCEPT !.options = Set(@, info.opt, text)]

\* What the file means: a text sets an option if it stands in it, before any other
\* element, and every match around it holds.
Counts == fresh /\ \A i \in DOMAIN stack : Holds(stack[i])

\* A match is tried without a body: its length is read through NULL, which ends the
\* process.
BodyMissing(e) ==
    /\ info.xml_depth < info.xml_bound
    /\ e.tag = "match" /\ e.test = "none"
    /\ e.key \in DOMAIN dmi /\ dmi[e.key] # <<>>

StartElement ==
    /\ Event
    /\ \E e \in Elements :
         \/ /\ BodyMissing(e)
            /\ phase' = "dead"
            /\ UNCHANGED <<info, stack, fresh>>
         \/ /\ ~ BodyMissing(e)
            /\ parse_xml_start_element(e)
            /\ stack' = Append(stack, e)
            /\ fresh' = TRUE
            /\ UNCHANGED phase
    /\ UNCHANGED wanted

Text ==
    /\ Event
    /\ stack # <<>>
    /\ \E text \in {"true", "false", "other"} :
         /\ parse_xml_cdata_handler(text)
         /\ wanted' = IF Counts THEN Set(wanted, get_option(Last(stack)), text)
                      ELSE wanted
    /\ UNCHANGED <<phase, stack, fresh>>

EndElement ==
    /\ Event
    /\ stack # <<>>
    /\ parse_xml_end_element
    /\ stack' = Front(stack)
    /\ fresh' = FALSE
    /\ phase' = IF Len(stack) = 1 THEN "parsed" ELSE phase
    /\ UNCHANGED wanted

Expat ==
    /\ StartElement \/ Text \/ EndElement
    /\ UNCHANGED <<options, result, hardware_conf, conf, dmi, given, files, starts>>

-----------------------------------------------------------------------------
(* The start of urfkilld.                                                  *)

defaults == [n \in Names |-> n \notin {"master_key", "force_sync"}]

new_info(opts) ==
    [xml_depth |-> 0, xml_bound |-> 1, opt |-> NONE, options |-> opts]

Closed(opts) ==
    /\ info' = new_info(opts)
    /\ stack' = <<>>
    /\ fresh' = FALSE
    /\ wanted' = opts
    /\ events' = 0

urf_config_init ==
    /\ phase = "start"
    /\ options = defaults
    /\ result = defaults
    /\ info = new_info(defaults)
    /\ stack = <<>>
    /\ fresh = FALSE
    /\ wanted = defaults
    /\ events = 0
    /\ files = 0

Init ==
    /\ urf_config_init
    /\ hardware_conf = NULL
    /\ conf = NULL
    /\ dmi \in Machines
    /\ given = defaults
    /\ starts = 1

load_configured_settings ==
    /\ phase = "start"
    /\ hardware_conf # NULL
    /\ options' = hardware_conf
    /\ phase' = "conf"
    /\ UNCHANGED <<result, hardware_conf, conf, dmi, given, parse, files, starts>>

\* Without DMI information no profile is read, and key_control is cleared through an
\* uninitialized pointer: that ends the process, or writes elsewhere and leaves all
\* options as they are.
get_dmi_info ==
    /\ phase = "start"
    /\ hardware_conf = NULL
    /\ \/ /\ dmi = NULL
          /\ phase' \in {"conf", "dead"}
          /\ given' = defaults
          /\ UNCHANGED result
       \/ /\ dmi # NULL
          /\ phase' = "profile"
          /\ result' = options
          /\ UNCHANGED given
    /\ UNCHANGED <<options, hardware_conf, conf, dmi, parse, files, starts>>

\* The next profile, in the order of their names.
profile_xml_parse ==
    /\ phase = "profile"
    /\ files < MaxFiles
    /\ files' = files + 1
    /\ phase' = "file"
    /\ Closed(result)
    /\ UNCHANGED <<options, result, hardware_conf, conf, dmi, given, starts>>

\* Its options count if all of it could be read.
parse_done ==
    /\ phase \in {"file", "parsed"}
    /\ phase' = "profile"
    /\ \/ phase = "parsed" /\ result' = info.options
       \/ UNCHANGED result
    /\ Closed(result')
    /\ UNCHANGED <<options, hardware_conf, conf, dmi, given, files, starts>>

\* The outcome is kept, unless the file cannot be written.
save_configured_profile ==
    /\ phase = "profile"
    /\ phase' = "conf"
    /\ options' = result
    /\ given' = result
    /\ hardware_conf' \in {result, NULL}
    /\ UNCHANGED <<result, conf, dmi, parse, files, starts>>

Override(opts) == [n \in Names |-> IF n \in DOMAIN conf' THEN conf'[n] ELSE opts[n]]

\* Mutant: hardware.conf is written again, as urfkill.conf leaves the options.
urf_config_load_from_file_Saves ==
    /\ phase = "conf"
    /\ phase' = "running"
    /\ conf' \in Confs
    /\ options' = Override(options)
    /\ hardware_conf' = IF hardware_conf = NULL THEN NULL ELSE options'
    /\ UNCHANGED <<result, dmi, given, parse, files, starts>>

urf_config_load_from_file ==
    /\ phase = "conf"
    /\ phase' = "running"
    /\ conf' \in Confs
    /\ options' = Override(options)
    /\ UNCHANGED <<result, hardware_conf, dmi, given, parse, files, starts>>

\* urfkilld stops or is killed, urfkill.conf and the profiles are edited.
Restart ==
    /\ starts < MaxStarts
    /\ starts' = starts + 1
    /\ phase' = "start"
    /\ conf' = NULL
    /\ options' = defaults
    /\ result' = defaults
    /\ files' = 0
    /\ Closed(defaults)
    /\ UNCHANGED <<hardware_conf, dmi, given>>

Next ==
    \/ load_configured_settings \/ get_dmi_info
    \/ profile_xml_parse \/ Expat \/ parse_done
    \/ save_configured_profile \/ urf_config_load_from_file
    \/ Restart

Spec == Init /\ [][Next]_vars

-----------------------------------------------------------------------------
(* Properties.                                                             *)

\* The two counters of the parser stand for the elements that are open: in whatever
\* way matches, options and others are nested and follow each other, an option is
\* set by the texts that every match around it lets through, and by no other.
OnlyMatchingApplies == info.options = wanted

\* What urfkill.conf sets it gets.  An option it does not set has the value the
\* profiles gave it when they were last read, over all restarts, also when an earlier
\* urfkill.conf did set it, and its default where no profile is read for want of DMI
\* information: but for key_control, which the comment there and NEWS want to be FALSE
\* and which the code leaves as it is.
ConfOverProfile ==
    phase = "running" =>
        /\ \A n \in DOMAIN conf : options[n] = conf[n]
        /\ \A n \in Names \ DOMAIN conf :
               (dmi # NULL \/ n # "key_control") => options[n] = given[n]
=============================================================================
