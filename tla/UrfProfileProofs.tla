-------------------------- MODULE UrfProfileProofs --------------------------
(***************************************************************************)
(* Proofs about UrfProfile, for any elements, machines, options and bounds *)
(* that ProfileAssumption allows: what the parser's two counters stand for *)
(* and what becomes of the options over the starts of urfkilld.            *)
(***************************************************************************)
EXTENDS UrfProfile, SequenceTheorems, TLAPS

-----------------------------------------------------------------------------
(* Sequences of elements.                                                  *)

LEMMA AppendFacts ==
    ASSUME NEW S, NEW s \in Seq(S), NEW e \in S
    PROVE  /\ Append(s, e) \in Seq(S)
           /\ Len(Append(s, e)) = Len(s) + 1
           /\ \A i \in 1..Len(s) : Append(s, e)[i] = s[i]
           /\ Append(s, e)[Len(s) + 1] = e
           /\ Append(s, e) # <<>>
  OBVIOUS

LEMMA FrontFacts ==
    ASSUME NEW S, NEW s \in Seq(S), s # <<>>
    PROVE  /\ Front(s) \in Seq(S)
           /\ Len(Front(s)) = Len(s) - 1
           /\ Len(s) \in Nat \ {0}
           /\ \A i \in 1..(Len(s) - 1) : Front(s)[i] = s[i]
           /\ Last(s) = s[Len(s)]
           /\ Last(s) \in S
<1>1. Len(s) \in Nat \ {0}
  OBVIOUS
<1>2. Last(s) = s[Len(s)] /\ Last(s) \in S
  BY <1>1 DEF Last
<1>3. Front(s) = SubSeq(s, 1, Len(s) - 1)
  BY DEF Front
<1>4. \A i \in 1..(Len(s) - 1) : s[i] \in S
  BY <1>1
<1>5. /\ Front(s) \in Seq(S)
      /\ Len(Front(s)) = Len(s) - 1
      /\ \A i \in 1..(Len(s) - 1) : Front(s)[i] = s[i]
  <2> DEFINE m == Len(s) - 1
  <2>1. m \in Nat /\ \A i \in 1..m : s[i] \in S
    BY <1>1, <1>4
  <2> HIDE DEF m
  <2>2. /\ SubSeq(s, 1, m) \in Seq(S)
        /\ Len(SubSeq(s, 1, m)) = IF 1 <= m THEN m - 1 + 1 ELSE 0
        /\ \A i \in 1..(m - 1 + 1) : SubSeq(s, 1, m)[i] = s[1 + i - 1]
    BY <2>1, SubSeqProperties
  <2>3. Len(SubSeq(s, 1, m)) = m /\ \A i \in 1..m : SubSeq(s, 1, m)[i] = s[i]
    BY <2>1, <2>2
  <2> QED
    BY <1>3, <2>2, <2>3 DEF m
<1> QED
  BY <1>1, <1>2, <1>5

-----------------------------------------------------------------------------
(* The parser.                                                             *)

\* The levels of the open elements that let their contents through.
passing == {i \in 1..Len(stack) : Holds(stack[i])}

\* The bound is the first level that does not let its contents through, the one
\* above all if there is none, and an option is waiting for its text exactly when a
\* text would count.
Parser ==
    /\ stack \in Seq(Elements)
    /\ info.xml_depth = Len(stack)
    /\ info.xml_bound \in 1..(Len(stack) + 1)
    /\ 1..(info.xml_bound - 1) \subseteq passing
    /\ info.xml_bound \notin passing
    /\ info.opt = IF Counts /\ stack # <<>> THEN get_option(Last(stack)) ELSE NONE

ParserTypes ==
    /\ info \in [xml_depth : Nat, xml_bound : Nat,
                 opt : Names \cup {NONE, "unknown"}, options : OptionSet]
    /\ wanted \in OptionSet
    /\ fresh \in BOOLEAN

PInv == ParserTypes /\ Parser /\ OnlyMatchingApplies

LEMMA OptionOfElement ==
    ASSUME NEW e \in Elements
    PROVE  /\ get_option(e) \in Names \cup {NONE, "unknown"}
           /\ ~ Holds(e) => get_option(e) = NONE
  BY ProfileAssumption DEF get_option, Holds, Element

LEMMA SetIsOptions ==
    ASSUME NEW opts \in OptionSet, NEW name, NEW text
    PROVE  /\ Set(opts, name, text) \in OptionSet
           /\ name = NONE => Set(opts, name, text) = opts
  BY ProfileAssumption DEF Set, OptionSet, NONE

LEMMA CountsTells ==
    ASSUME stack \in Seq(Elements)
    PROVE  Counts <=> fresh /\ passing = 1..Len(stack)
  BY DEF Counts, passing

\* With nothing open the parser is as at the beginning.
LEMMA EmptyParser ==
    ASSUME NEW opts \in OptionSet, stack = <<>>, info = new_info(opts), wanted = opts,
           fresh = FALSE
    PROVE  PInv
<1>1. stack \in Seq(Elements) /\ Len(stack) = 0 /\ passing = {} /\ ~ Counts
  BY DEF passing, Counts
<1>2. /\ info.xml_depth = 0 /\ info.xml_bound = 1 /\ info.opt = NONE
      /\ info.options = opts
      /\ info \in [xml_depth : Nat, xml_bound : Nat,
                   opt : Names \cup {NONE, "unknown"}, options : OptionSet]
  BY DEF new_info
<1>3. ParserTypes /\ OnlyMatchingApplies
  BY <1>2 DEF ParserTypes, OnlyMatchingApplies
<1>4. info.opt = IF Counts /\ stack # <<>> THEN get_option(Last(stack)) ELSE NONE
  BY <1>1, <1>2
<1>5. /\ info.xml_bound \in 1..(Len(stack) + 1)
      /\ 1..(info.xml_bound - 1) \subseteq passing
      /\ info.xml_bound \notin passing
  BY <1>1, <1>2
<1> QED
  BY <1>1, <1>2, <1>3, <1>4, <1>5 DEF PInv, Parser

LEMMA ParserBegins == ASSUME Init PROVE PInv
<1>1. defaults \in OptionSet
  BY DEF defaults, OptionSet
<1>2. stack = <<>> /\ info = new_info(defaults) /\ wanted = defaults /\ fresh = FALSE
  BY DEF Init, urf_config_init
<1> QED
  BY <1>1, <1>2, EmptyParser

\* A file that is opened, or put aside, leaves it so.
LEMMA ClosedParser ==
    ASSUME NEW opts \in OptionSet, Closed(opts)
    PROVE  PInv'
<1>1. stack' = <<>> /\ stack' \in Seq(Elements) /\ Len(stack') = 0
  BY DEF Closed
<1>2. info' = new_info(opts) /\ wanted' = opts /\ fresh' = FALSE
  BY DEF Closed
<1>3. passing' = {} /\ ~ Counts'
  BY <1>1, <1>2 DEF passing, Counts
<1>4. /\ info'.xml_depth = 0 /\ info'.xml_bound = 1 /\ info'.opt = NONE
      /\ info'.options = opts
      /\ info' \in [xml_depth : Nat, xml_bound : Nat,
                    opt : Names \cup {NONE, "unknown"}, options : OptionSet]
  BY <1>2 DEF new_info
<1>5. ParserTypes' /\ OnlyMatchingApplies'
  BY <1>2, <1>4 DEF ParserTypes, OnlyMatchingApplies
<1>6. info'.opt = IF Counts' /\ stack' # <<>> THEN get_option(Last(stack')) ELSE NONE
  BY <1>1, <1>4
<1>7. /\ info'.xml_bound \in 1..(Len(stack') + 1)
      /\ 1..(info'.xml_bound - 1) \subseteq passing'
      /\ info'.xml_bound \notin passing'
  BY <1>1, <1>3, <1>4
<1> QED
  BY <1>1, <1>4, <1>5, <1>6, <1>7 DEF PInv, Parser

LEMMA StartsElement ==
    ASSUME PInv, StartElement, UNCHANGED dmi
    PROVE  PInv'
<1>a. CASE \E e \in Elements : BodyMissing(e) /\ UNCHANGED <<info, stack, fresh>>
  <2>1. UNCHANGED <<info, stack, fresh, wanted, dmi>>
    BY <1>a DEF StartElement
  <2> QED
    BY <2>1 DEF PInv, ParserTypes, Parser, OnlyMatchingApplies, passing, Counts, Holds
<1>b. SUFFICES ASSUME \E e \in Elements : /\ parse_xml_start_element(e)
                                          /\ stack' = Append(stack, e)
                                          /\ fresh' = TRUE
               PROVE  PInv'
  BY <1>a DEF StartElement
<1>1. PICK e \in Elements : /\ parse_xml_start_element(e) /\ stack' = Append(stack, e)
                            /\ fresh' = TRUE
  BY <1>b
<1> DEFINE n == Len(stack)
           b == info.xml_bound
<1>2. /\ stack \in Seq(Elements) /\ n \in Nat
      /\ stack' \in Seq(Elements) /\ Len(stack') = n + 1 /\ stack' # <<>>
      /\ \A i \in 1..n : stack'[i] = stack[i]
      /\ stack'[n + 1] = e /\ Last(stack') = e
  BY <1>1, AppendFacts DEF PInv, Parser, Last
<1>3. passing' = IF Holds(e) THEN passing \cup {n + 1} ELSE passing
  BY <1>2 DEF passing, Holds
<1>4. passing \subseteq 1..n
  BY DEF passing
<1>5. fresh' = TRUE /\ wanted' = wanted /\ wanted \in OptionSet
  BY <1>1 DEF StartElement, PInv, ParserTypes
<1>6. Counts' <=> passing' = 1..(n + 1)
  <2>1. Counts' <=> fresh' /\ passing' = 1..Len(stack')
    BY <1>2 DEF Counts, passing
  <2> QED
    BY <2>1, <1>2, <1>5
<1>7. /\ info.xml_depth = n /\ b \in 1..(n + 1)
      /\ info \in [xml_depth : Nat, xml_bound : Nat,
                   opt : Names \cup {NONE, "unknown"}, options : OptionSet]
      /\ 1..(b - 1) \subseteq passing /\ b \notin passing
      /\ info.options = wanted
  BY DEF PInv, Parser, ParserTypes, OnlyMatchingApplies
<1>8. CASE b = n + 1
  <2>1. info' = [info EXCEPT !.xml_depth = n + 1,
                             !.xml_bound = IF Holds(e) THEN n + 2 ELSE n + 1,
                             !.opt = get_option(e)]
    BY <1>1, <1>2, <1>7, <1>8 DEF parse_xml_start_element
  <2>2. /\ info'.xml_depth = n + 1
        /\ info'.xml_bound = IF Holds(e) THEN n + 2 ELSE n + 1
        /\ info'.opt = get_option(e)
        /\ info'.options = wanted
        /\ info' \in [xml_depth : Nat, xml_bound : Nat,
                      opt : Names \cup {NONE, "unknown"}, options : OptionSet]
    <3> DEFINE bound == IF Holds(e) THEN n + 2 ELSE n + 1
    <3>1. bound \in Nat /\ n + 1 \in Nat
      BY <1>2
    <3>2. get_option(e) \in Names \cup {NONE, "unknown"}
      BY <1>1, OptionOfElement
    <3>3. info' = [info EXCEPT !.xml_depth = n + 1, !.xml_bound = bound,
                               !.opt = get_option(e)]
      BY <2>1
    <3> HIDE DEF bound
    <3>4. /\ info'.xml_depth = n + 1 /\ info'.xml_bound = bound
          /\ info'.opt = get_option(e)
          /\ info'.options = wanted
          /\ info' \in [xml_depth : Nat, xml_bound : Nat,
                        opt : Names \cup {NONE, "unknown"}, options : OptionSet]
      BY <3>1, <3>2, <3>3, <1>7
    <3> QED
      BY <3>4 DEF bound
  <2>3. passing = 1..n
    <3>1. b - 1 = n
      BY <1>2, <1>8
    <3>2. 1..n \subseteq passing
      BY <3>1, <1>7
    <3> QED
      BY <3>2, <1>4
  <2>4. Counts' <=> Holds(e)
    <3>1. CASE Holds(e)
      <4>1. passing' = 1..n \cup {n + 1}
        BY <3>1, <1>3, <2>3
      <4>2. passing' = 1..(n + 1)
        BY <4>1, <1>2
      <4> QED
        BY <3>1, <4>2, <1>6
    <3>2. CASE ~ Holds(e)
      <4>1. passing' = 1..n
        BY <3>2, <1>3, <2>3
      <4>2. n + 1 \in 1..(n + 1) /\ n + 1 \notin 1..n
        BY <1>2
      <4>3. passing' # 1..(n + 1)
        BY <4>1, <4>2
      <4> QED
        BY <3>2, <4>3, <1>6
    <3> QED
      BY <3>1, <3>2
  <2>5. info'.opt = IF Counts' /\ stack' # <<>> THEN get_option(Last(stack')) ELSE NONE
    BY <1>1, <1>2, <2>2, <2>4, OptionOfElement
  <2>6. /\ info'.xml_bound \in 1..(n + 2)
        /\ 1..(info'.xml_bound - 1) \subseteq passing'
        /\ info'.xml_bound \notin passing'
    BY <1>2, <1>3, <2>2, <2>3
  <2> QED
    BY <1>2, <1>5, <2>2, <2>5, <2>6 DEF PInv, Parser, ParserTypes, OnlyMatchingApplies
<1>9. CASE b # n + 1
  <2>1. info' = [info EXCEPT !.xml_depth = n + 1]
    BY <1>1, <1>2, <1>7, <1>9 DEF parse_xml_start_element
  <2>2. /\ info'.xml_depth = n + 1 /\ info'.xml_bound = b
        /\ info'.opt = info.opt /\ info'.options = wanted
        /\ info' \in [xml_depth : Nat, xml_bound : Nat,
                      opt : Names \cup {NONE, "unknown"}, options : OptionSet]
    BY <2>1, <1>2, <1>7
  <2>3. passing # 1..n /\ passing' # 1..(n + 1) /\ b \notin passing'
    BY <1>2, <1>3, <1>7, <1>9
  <2>4. ~ Counts /\ ~ Counts'
    BY <1>2, <1>6, <2>3, CountsTells
  <2>5. info'.opt = NONE
    BY <2>2, <2>4 DEF PInv, Parser
  <2>6. b \in 1..(n + 2) /\ 1..(b - 1) \subseteq passing'
    BY <1>2, <1>3, <1>7
  <2> QED
    BY <1>2, <1>5, <2>2, <2>3, <2>4, <2>5, <2>6
       DEF PInv, Parser, ParserTypes, OnlyMatchingApplies
<1> QED
  BY <1>8, <1>9

LEMMA EndsElement ==
    ASSUME PInv, EndElement, UNCHANGED dmi
    PROVE  PInv'
<1> DEFINE n == Len(stack)
           b == info.xml_bound
<1>1. stack \in Seq(Elements) /\ stack # <<>> /\ stack' = Front(stack)
  BY DEF PInv, Parser, EndElement
<1>2. /\ n \in Nat \ {0}
      /\ stack' \in Seq(Elements) /\ Len(stack') = n - 1
      /\ \A i \in 1..(n - 1) : stack'[i] = stack[i]
  BY <1>1, FrontFacts
<1>3. passing' = passing \ {n} /\ passing \subseteq 1..n
  BY <1>2 DEF passing, Holds
<1>4. wanted' = wanted /\ fresh' = FALSE /\ wanted \in OptionSet
  BY DEF EndElement, PInv, ParserTypes
<1>5. ~ Counts'
  BY <1>4 DEF Counts
<1>6. /\ info.xml_depth = n /\ b \in 1..(n + 1)
      /\ info \in [xml_depth : Nat, xml_bound : Nat,
                   opt : Names \cup {NONE, "unknown"}, options : OptionSet]
      /\ 1..(b - 1) \subseteq passing /\ b \notin passing
      /\ info.options = wanted
  BY DEF PInv, Parser, ParserTypes, OnlyMatchingApplies
<1>7. info' = [info EXCEPT !.xml_bound = IF b > n THEN n ELSE b,
                           !.opt = NONE,
                           !.xml_depth = n - 1]
  BY <1>6 DEF EndElement, parse_xml_end_element
<1>8. /\ info'.xml_bound = IF b > n THEN n ELSE b
      /\ info'.opt = NONE
      /\ info'.xml_depth = n - 1
      /\ info'.options = wanted
      /\ info' \in [xml_depth : Nat, xml_bound : Nat,
                    opt : Names \cup {NONE, "unknown"}, options : OptionSet]
  <2> DEFINE bound == IF b > n THEN n ELSE b
  <2>1. bound \in Nat /\ n - 1 \in Nat
    BY <1>2, <1>6
  <2>2. info' = [info EXCEPT !.xml_bound = bound, !.opt = NONE, !.xml_depth = n - 1]
    BY <1>7
  <2> HIDE DEF bound
  <2>3. /\ info'.xml_bound = bound /\ info'.opt = NONE /\ info'.xml_depth = n - 1
        /\ info'.options = wanted
        /\ info' \in [xml_depth : Nat, xml_bound : Nat,
                      opt : Names \cup {NONE, "unknown"}, options : OptionSet]
    BY <2>1, <2>2, <1>6
  <2> QED
    BY <2>3 DEF bound
<1>9. /\ info'.xml_bound \in 1..n
      /\ 1..(info'.xml_bound - 1) \subseteq passing'
      /\ info'.xml_bound \notin passing'
  BY <1>2, <1>3, <1>6, <1>8
<1>10. info'.opt = IF Counts' /\ stack' # <<>> THEN get_option(Last(stack')) ELSE NONE
  BY <1>5, <1>8
<1>11. ParserTypes' /\ OnlyMatchingApplies'
  BY <1>4, <1>8 DEF ParserTypes, OnlyMatchingApplies
<1>12. info'.xml_depth = Len(stack') /\ info'.xml_bound \in 1..(Len(stack') + 1)
  BY <1>2, <1>8, <1>9
<1> QED
  BY <1>2, <1>9, <1>10, <1>11, <1>12 DEF PInv, Parser

LEMMA ReadsText ==
    ASSUME PInv, Text, UNCHANGED dmi
    PROVE  PInv'
<1>1. PICK text \in {"true", "false", "other"} :
          /\ parse_xml_cdata_handler(text)
          /\ wanted' = IF Counts THEN Set(wanted, get_option(Last(stack)), text)
                       ELSE wanted
  BY DEF Text
<1>2. stack' = stack /\ fresh' = fresh /\ stack # <<>>
  BY DEF Text
<1>3. /\ info.options = wanted /\ wanted \in OptionSet /\ fresh \in BOOLEAN
      /\ info \in [xml_depth : Nat, xml_bound : Nat,
                   opt : Names \cup {NONE, "unknown"}, options : OptionSet]
  BY DEF PInv, OnlyMatchingApplies, ParserTypes
<1>4. info.opt = IF Counts THEN get_option(Last(stack)) ELSE NONE
  BY <1>2 DEF PInv, Parser
<1>5. Set(info.options, info.opt, text) = wanted' /\ wanted' \in OptionSet
  BY <1>1, <1>3, <1>4, SetIsOptions
<1>6. info' = [info EXCEPT !.options = wanted']
  BY <1>1, <1>5 DEF parse_xml_cdata_handler
<1>7. /\ info'.options = wanted' /\ info'.opt = info.opt
      /\ info'.xml_depth = info.xml_depth /\ info'.xml_bound = info.xml_bound
      /\ ParserTypes'
  BY <1>2, <1>3, <1>5, <1>6 DEF ParserTypes
<1>8. passing' = passing /\ (Counts' <=> Counts)
  BY <1>2 DEF passing, Counts, Holds
<1>9. Parser'
  BY <1>2, <1>7, <1>8 DEF PInv, Parser
<1> QED
  BY <1>7, <1>9 DEF PInv, OnlyMatchingApplies

-----------------------------------------------------------------------------
(* The options over the starts.                                            *)

\* What is in hardware.conf is what the profiles gave, what a start goes on with is
\* what was read from there or from the profiles, and the options in use are those
\* with urfkill.conf over them.
SInv ==
    /\ {options, result} \subseteq OptionSet
    /\ hardware_conf \in {given, NULL} /\ given \in OptionSet
    /\ phase = "start" => options = defaults
    /\ phase = "conf" => options = given
    /\ conf \in Confs
    /\ ConfOverProfile

\* What the bounds keep small.
BInv ==
    /\ phase \in Phases
    /\ dmi \in Machines
    /\ events \in 0..MaxEvents
    /\ files \in 0..MaxFiles
    /\ starts \in 1..MaxStarts

IInv == PInv /\ SInv /\ BInv

LEMMA DefaultsAreOptions == defaults \in OptionSet
  BY DEF defaults, OptionSet

LEMMA ConfIsOptions ==
    ASSUME NEW opts \in OptionSet, conf' \in Confs
    PROVE  Override(opts) \in OptionSet
<1>1. PICK s \in SUBSET Names : conf' \in [s -> BOOLEAN]
  BY DEF Confs
<1> QED
  BY <1>1 DEF Override, OptionSet

LEMMA OptionsBegin == ASSUME Init PROVE SInv
<1>1. conf \in Confs
  <2>1. <<>> \in [{} -> BOOLEAN]
    OBVIOUS
  <2> QED
    BY <2>1 DEF Init, Confs, NULL
<1> QED
  BY <1>1, DefaultsAreOptions DEF Init, urf_config_init, SInv, ConfOverProfile

LEMMA NextKeepsParser == ASSUME IInv, [Next]_vars PROVE PInv'
<1>1. PInv /\ result \in OptionSet /\ defaults \in OptionSet
  BY DefaultsAreOptions DEF IInv, SInv
<1>2. CASE Expat
  <2>1. UNCHANGED dmi
    BY <1>2 DEF Expat
  <2> QED
    BY <1>1, <1>2, <2>1, StartsElement, ReadsText, EndsElement DEF Expat
<1>3. CASE profile_xml_parse
  BY <1>1, <1>3, ClosedParser DEF profile_xml_parse
<1>4. CASE parse_done
  <2>1. result' \in OptionSet
    BY <1>1, <1>4 DEF parse_done, PInv, ParserTypes
  <2> QED
    BY <1>4, <2>1, ClosedParser DEF parse_done
<1>5. CASE Restart
  BY <1>1, <1>5, ClosedParser DEF Restart
<1>6. ASSUME UNCHANGED <<parse, dmi>> PROVE PInv'
  BY <1>1, <1>6 DEF parse, PInv, ParserTypes, Parser, OnlyMatchingApplies, passing,
                    Counts, Holds
<1>7. \/ load_configured_settings \/ get_dmi_info \/ save_configured_profile
      \/ urf_config_load_from_file \/ UNCHANGED vars
      => UNCHANGED <<parse, dmi>>
  BY DEF load_configured_settings, get_dmi_info, save_configured_profile,
         urf_config_load_from_file, vars
<1> QED
  BY <1>2, <1>3, <1>4, <1>5, <1>6, <1>7 DEF Next

LEMMA NextKeepsOptions == ASSUME IInv, [Next]_vars PROVE SInv'
<1> USE DEF SInv, ConfOverProfile
<1>0. SInv /\ PInv /\ defaults \in OptionSet
  BY DefaultsAreOptions DEF IInv
<1>1. CASE load_configured_settings
  BY <1>0, <1>1 DEF load_configured_settings
<1>2. CASE get_dmi_info
  BY <1>0, <1>2 DEF get_dmi_info
<1>3. CASE profile_xml_parse
  BY <1>0, <1>3 DEF profile_xml_parse
<1>4. CASE Expat
  <2>1. phase' \in {phase, "parsed", "dead"} /\ UNCHANGED dmi
    BY <1>4 DEF Expat, StartElement, Text, EndElement
  <2> QED
    BY <1>0, <1>4, <2>1 DEF Expat
<1>5. CASE parse_done
  <2>1. result' \in OptionSet
    BY <1>0, <1>5 DEF parse_done, PInv, ParserTypes
  <2> QED
    BY <1>0, <1>5, <2>1 DEF parse_done
<1>6. CASE save_configured_profile
  BY <1>0, <1>6 DEF save_configured_profile
<1>7. CASE urf_config_load_from_file
  <2>1. conf' \in Confs /\ options' = Override(options) /\ options = given
    BY <1>0, <1>7 DEF urf_config_load_from_file
  <2>2. options' \in OptionSet
    BY <1>0, <2>1, ConfIsOptions
  <2>3. ConfOverProfile'
    <3>1. DOMAIN conf' \subseteq Names /\ given' = given
      BY <1>7, <2>1 DEF Confs, urf_config_load_from_file
    <3> HIDE DEF SInv
    <3> QED
      BY <2>1, <3>1 DEF Override
  <2> QED
    BY <1>0, <1>7, <2>1, <2>2, <2>3 DEF urf_config_load_from_file
<1>8. CASE Restart
  <2>1. NULL \in Confs
    <3>1. <<>> \in [{} -> BOOLEAN]
      OBVIOUS
    <3> QED
      BY <3>1 DEF Confs, NULL
  <2> QED
    BY <1>0, <1>8, <2>1 DEF Restart
<1>9. CASE UNCHANGED vars
  BY <1>0, <1>9 DEF vars
<1> QED
  BY <1>1, <1>2, <1>3, <1>4, <1>5, <1>6, <1>7, <1>8, <1>9 DEF Next

LEMMA NextKeepsBounds == ASSUME BInv, [Next]_vars PROVE BInv'
<1> USE ProfileAssumption DEF BInv, Phases
<1>1. MaxEvents \in Nat /\ MaxFiles \in Nat /\ MaxStarts \in Nat
  OBVIOUS
<1>2. CASE Expat
  <2>1. Event /\ phase' \in {phase, "parsed", "dead"}
    BY <1>2 DEF Expat, StartElement, Text, EndElement
  <2> QED
    BY <1>1, <1>2, <2>1 DEF Expat, Event
<1>3. CASE profile_xml_parse
  BY <1>1, <1>3 DEF profile_xml_parse, Closed
<1>4. CASE parse_done
  BY <1>1, <1>4 DEF parse_done, Closed
<1>5. CASE Restart
  BY <1>1, <1>5 DEF Restart, Closed
<1>6. ASSUME load_configured_settings \/ get_dmi_info \/ save_configured_profile
             \/ urf_config_load_from_file \/ UNCHANGED vars
      PROVE  phase' \in Phases /\ UNCHANGED <<dmi, events, files, starts>>
  BY <1>6 DEF load_configured_settings, get_dmi_info, save_configured_profile,
              urf_config_load_from_file, vars, parse
<1> QED
  BY <1>2, <1>3, <1>4, <1>5, <1>6 DEF Next

LEMMA BoundsBegin == ASSUME Init PROVE BInv
  BY ProfileAssumption DEF Init, urf_config_init, BInv, Phases

LEMMA Inductive == Spec => []IInv
<1>1. Init => IInv
  BY ParserBegins, OptionsBegin, BoundsBegin DEF IInv
<1>2. IInv /\ [Next]_vars => IInv'
  BY NextKeepsParser, NextKeepsOptions, NextKeepsBounds DEF IInv
<1> QED
  BY <1>1, <1>2, PTL DEF Spec

\* The options, the parser's state and what hardware.conf and urfkill.conf hold have
\* their types, and the bound is never more than one beyond the depth.
THEOREM ProfileTypeCorrect == Spec => []TypeOK
<1>1. IInv => TypeOK
  <2> SUFFICES ASSUME IInv PROVE TypeOK
    OBVIOUS
  <2>1. /\ info.xml_depth = Len(stack) /\ stack \in Seq(Elements)
        /\ info.xml_bound \in 1..(Len(stack) + 1)
    BY DEF IInv, PInv, Parser
  <2>2. \A i \in DOMAIN stack : stack[i] \in Elements
    BY <2>1
  <2>3. info.xml_bound <= info.xml_depth + 1
    BY <2>1
  <2> QED
    BY <2>1, <2>2, <2>3 DEF IInv, PInv, ParserTypes, SInv, BInv, TypeOK
<1> QED
  BY <1>1, Inductive, PTL

\* In whatever way matches, options and other elements are nested in a profile, and
\* however many there are, the handlers of urf-config.c set an option by the texts
\* that every match around them lets through, and by no other.
THEOREM ProfileAppliesWhatMatches == Spec => []OnlyMatchingApplies
<1>1. IInv => OnlyMatchingApplies
  BY DEF IInv, PInv
<1> QED
  BY <1>1, Inductive, PTL

\* Over any number of starts the options are what the profiles gave when they were
\* last read, with what urfkill.conf sets now over it; key_control is left out where
\* the machine has no DMI information.
THEOREM ConfIsOverProfile == Spec => []ConfOverProfile
<1>1. IInv => ConfOverProfile
  BY DEF IInv, SInv
<1> QED
  BY <1>1, Inductive, PTL
=============================================================================
