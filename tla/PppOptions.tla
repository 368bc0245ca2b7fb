---------------------------- MODULE PppOptions ----------------------------
(***************************************************************************)
(* The configuration options of LCP and IPCP (netif/ppp/lcp.c, ipcp.c):    *)
(* what a Configure-Request holds and what the two ends make of it.        *)
(*                                                                         *)
(* An option in a packet (CI) is a pair of its type and its value; the     *)
(* lengths of the encoding are left out, and so are the options compiled   *)
(* out or never asked for: link quality, callback, Van Jacobson            *)
(* compression, WINS addresses.  CHAP is CHAP with MD5.  A map of control  *)
(* characters is the set of the characters to escape; Ctl stands for       *)
(* 0xFFFFFFFF.                                                             *)
(*                                                                         *)
(* lcp_options: neg is the set of the options with their neg_ flag set.    *)
(* ipcp_options: on is the set of the flags that are set.                  *)
(***************************************************************************)
EXTENDS Naturals, Sequences, SequencesExt

CONSTANTS Ctl, PPP_DEFMRU, PPP_MINMRU

ci_if(c, ci) == IF c THEN <<ci>> ELSE <<>>

types(p) == {p[i][1] : i \in DOMAIN p}

(* The verdicts v on the options of a request, put together: one reject    *)
(* makes a Configure-Reject of the rejected ones, one nak a Configure-Nak  *)
(* of the naks.  A verdict is a code and the option to send back.          *)
chosen(v, code) == [i \in DOMAIN SelectSeq(v, LAMBDA x : x[1] = code) |->
                      SelectSeq(v, LAMBDA x : x[1] = code)[i][2]]

combine(v) ==
  LET code == IF "CONFREJ" \in types(v) THEN "CONFREJ"
              ELSE IF "CONFNAK" \in types(v) THEN "CONFNAK" ELSE "CONFACK"
  IN  [code |-> code, data |-> chosen(v, code)]

(* rejci of both protocols: what comes back rejected must be options that  *)
(* we sent, with our values and in our order.                              *)
rejects_ours(sent, p) == p = SelectSeq(sent, LAMBDA c : c \in Range(p))

-----------------------------------------------------------------------------
(* LCP *)

no_lcp_options == [neg |-> {}, mru |-> 0, asyncmap |-> {}, magicnumber |-> 0,
                   numloops |-> 0]

(* The options we negotiate, in the order of the packet. *)
lcp_cis(go) ==
     ci_if("mru" \in go.neg, <<"mru", go.mru>>)
  \o ci_if("asyncmap" \in go.neg, <<"asyncmap", go.asyncmap>>)
  \o ci_if("chap" \in go.neg, <<"auth", "chap">>)
  \o ci_if("chap" \notin go.neg /\ "upap" \in go.neg, <<"auth", "pap">>)
  \o ci_if("magic" \in go.neg, <<"magic", go.magicnumber>>)
  \o ci_if("pcomp" \in go.neg, <<"pcomp", 0>>)
  \o ci_if("accomp" \in go.neg, <<"accomp", 0>>)

(* Default values are not sent. *)
lcp_addci(go) ==
  SelectSeq(lcp_cis(go), LAMBDA c : c # <<"mru", PPP_DEFMRU>> /\ c # <<"asyncmap", Ctl>>)

lcp_ackci(go, p) == p = lcp_addci(go)

(* A Configure-Nak: options we sent, in our order, with values the peer    *)
(* would accept, and then options we did not send.                         *)
lcp_nak(go, wo, try, c, magic) ==
  CASE c[1] = "mru" -> [try EXCEPT !.mru = IF c[2] <= wo.mru \/ c[2] < PPP_DEFMRU
                                           THEN c[2] ELSE @]
    [] c[1] = "asyncmap" -> [try EXCEPT !.asyncmap = go.asyncmap \union c[2]]
    [] c = <<"auth", "pap">> -> [try EXCEPT !.neg = @ \ {"chap"}]
    [] c = <<"auth", "chap">> -> [try EXCEPT !.neg = IF "chap" \in go.neg THEN @
                                                     ELSE @ \ {"upap"}]
    [] c[1] = "magic" -> [try EXCEPT !.magicnumber = magic]
    [] OTHER -> [try EXCEPT !.neg = @ \ {c[1]}]

lcp_take_nak(go, wo, magic, acc, t) ==
  IF acc.p = <<>> \/ t \notin types(lcp_addci(go)) THEN acc
  ELSE IF acc.p[1][1] # t THEN acc
  ELSE [p |-> Tail(acc.p), try |-> lcp_nak(go, wo, acc.try, acc.p[1], magic),
        looped |-> acc.looped \/ t = "magic",
        bad |-> acc.bad \/ (acc.p[1] = <<"auth", "pap">> /\ "chap" \notin go.neg)]

lcp_take_rest(go, acc) ==
  LET mrus == {acc.p[i][2] : i \in {j \in DOMAIN acc.p : acc.p[j][1] = "mru"}}
  IN  [ok  |-> ~acc.bad /\ types(acc.p) \cap types(lcp_addci(go)) = {},
       looped |-> acc.looped,
       try |-> [acc.try EXCEPT !.mru = IF \E m \in mrus : m < PPP_DEFMRU
                                       THEN CHOOSE m \in mrus : m < PPP_DEFMRU ELSE @]]

lcp_nakci(go, wo, p, magic) ==
  lcp_take_rest(go,
    FoldLeft(LAMBDA acc, t : lcp_take_nak(go, wo, magic, acc, t),
             [p |-> p, try |-> go, looped |-> FALSE, bad |-> FALSE],
             <<"mru", "asyncmap", "auth", "magic", "pcomp", "accomp">>))

(* A Configure-Reject: stop asking.  Who rejects CHAP is not asked for PAP. *)
refused(t) == CASE t = <<"auth", "chap">> -> {"chap", "upap"}
                [] t = <<"auth", "pap">> -> {"upap"}
                [] OTHER -> {t[1]}

lcp_rejci(go, p) ==
  [ok  |-> rejects_ours(lcp_cis(go), p),
   try |-> [go EXCEPT !.neg = @ \ UNION {refused(c) : c \in Range(p)}]]

(* A Configure-Request of the peer: the verdict on one option. *)
ack(c) == <<"CONFACK", c>>

rej(c) == <<"CONFREJ", c>>

nak(c, v) == <<"CONFNAK", <<c[1], v>>>>

mru_verdict(c) == IF c[2] < PPP_MINMRU THEN nak(c, PPP_MINMRU) ELSE ack(c)

asyncmap_verdict(ao, c) ==
  IF ao.asyncmap \subseteq c[2] THEN ack(c) ELSE nak(c, ao.asyncmap \union c[2])

auth_verdict(ao, c) ==
  CASE ao.neg \cap {"chap", "upap"} = {} -> rej(c)
    [] c[2] = "pap" /\ ao.neg \cap {"chap", "upap"} = {"chap"} -> nak(c, "chap")
    [] c[2] = "chap" /\ ao.neg \cap {"chap", "upap"} = {"upap"} -> nak(c, "pap")
    [] OTHER -> ack(c)

magic_verdict(go, ao, c, magic) ==
  CASE "magic" \notin ao.neg \union go.neg -> rej(c)
    [] "magic" \in go.neg /\ c[2] = go.magicnumber -> nak(c, magic)
    [] OTHER -> ack(c)

lcp_verdict(go, ao, c, magic) ==
  CASE c[1] = "auth" -> auth_verdict(ao, c)
    [] c[1] = "magic" -> magic_verdict(go, ao, c, magic)
    [] c[1] \notin ao.neg -> rej(c)
    [] c[1] = "mru" /\ "mru" \in ao.neg -> mru_verdict(c)
    [] c[1] = "asyncmap" /\ "asyncmap" \in ao.neg -> asyncmap_verdict(ao, c)
    [] OTHER -> ack(c)

(* After too many naks everything but the magic number is rejected. *)
toughen(v, c, reject) ==
  IF v[1] = "CONFNAK" /\ reject /\ c[1] # "magic" THEN <<"CONFREJ", c>> ELSE v

(* His options are the ones accepted. *)
value_of(p, t, none) ==
  IF t \in types(p) THEN p[CHOOSE i \in DOMAIN p : p[i][1] = t][2] ELSE none

lcp_his(p) ==
  [neg |-> {CASE c = <<"auth", "pap">> -> "upap" [] c = <<"auth", "chap">> -> "chap"
              [] OTHER -> c[1] : c \in Range(p)},
   mru |-> value_of(p, "mru", 0), asyncmap |-> value_of(p, "asyncmap", {}),
   magicnumber |-> value_of(p, "magic", 0), numloops |-> 0]

lcp_reqci(go, ao, p, reject, magic) ==
  LET v == [i \in DOMAIN p |-> lcp_verdict(go, ao, p[i], magic)]
      r == combine([i \in DOMAIN p |-> toughen(v[i], p[i], reject)])
  IN  [code |-> r.code, data |-> r.data, his |-> lcp_his(chosen(v, "CONFACK"))]

-----------------------------------------------------------------------------
(* IPCP.  An address is a number, 0 when it is not known. *)

no_ipcp_options == [on |-> {}, ouraddr |-> 0, hisaddr |-> 0, dns |-> <<0, 0>>]

ipcp_resetci(wo, ao, usepeerdns) ==
  [wo EXCEPT !.on =
     (@ \ {"req_addr", "req_dns1", "req_dns2"})
     \union (IF "neg_addr" \in wo.on \cap ao.on THEN {"req_addr"} ELSE {})
     \union (IF wo.ouraddr = 0 THEN {"accept_local"} ELSE {})
     \union (IF wo.hisaddr = 0 THEN {"accept_remote"} ELSE {})
     \union (IF usepeerdns THEN {"req_dns1", "req_dns2"} ELSE {})]

(* The old style of address negotiation is tried when the new one is       *)
(* refused.                                                                *)
ipcp_cilen(wo, go) ==
  IF "neg_addr" \in wo.on /\ go.on \cap {"neg_addr", "old_addrs"} = {}
  THEN [go EXCEPT !.on = @ \union {"neg_addr", "old_addrs"}] ELSE go

ipcp_addci(go) ==
     ci_if("neg_addr" \in go.on /\ "old_addrs" \notin go.on, <<"addr", go.ouraddr>>)
  \o ci_if({"neg_addr", "old_addrs"} \subseteq go.on,
           <<"addrs", <<go.ouraddr, go.hisaddr>>>>)
  \o ci_if("req_dns1" \in go.on, <<"dns1", go.dns[1]>>)
  \o ci_if("req_dns2" \in go.on, <<"dns2", go.dns[2]>>)

ipcp_ackci(go, p) == p = ipcp_addci(go)

(* An address of the peer's choice is taken when we have none ourselves. *)
our_choice(go, try, a) ==
  [try EXCEPT !.ouraddr = IF a # 0 /\ "accept_local" \in go.on THEN a ELSE @]

his_choice(go, try, a) ==
  [try EXCEPT !.hisaddr = IF a # 0 /\ "accept_remote" \in go.on THEN a ELSE @]

ipcp_nak(go, try, c) ==
  CASE c[1] = "addr"  -> our_choice(go, try, c[2])
    [] c[1] = "addrs" -> his_choice(go, our_choice(go, try, c[2][1]), c[2][2])
    [] c[1] = "dns1"  -> [try EXCEPT !.dns[1] = c[2]]
    [] c[1] = "dns2"  -> [try EXCEPT !.dns[2] = c[2]]

ipcp_take_nak(go, acc, t) ==
  IF acc.p = <<>> \/ t \notin types(ipcp_addci(go)) THEN acc
  ELSE IF acc.p[1][1] # t THEN acc
  ELSE [acc EXCEPT !.p = Tail(@), !.try = ipcp_nak(go, @, acc.p[1]),
                   !.no = @ \union {t}]

(* If they want to negotiate about addresses that we did not send, we      *)
(* comply.                                                                 *)
offered(try) == [try EXCEPT !.on = (@ \ {"old_addrs"})
                   \union (IF try.ouraddr # 0 THEN {"neg_addr"} ELSE {})]

ipcp_take_rest(go, acc, c) ==
  CASE c[1] = "addr" ->
         [acc EXCEPT !.bad = @ \/ "neg_addr" \in go.on \/ "addr" \in acc.no,
                     !.try = offered(our_choice(go, @, c[2])), !.no = @ \union {"addr"}]
    [] c[1] = "addrs" ->
         [acc EXCEPT !.bad = @ \/ {"neg_addr", "old_addrs"} \subseteq go.on
                               \/ "addrs" \in acc.no,
                     !.try = [his_choice(go, our_choice(go, @, c[2][1]), c[2][2])
                                EXCEPT !.on = @ \union {"neg_addr", "old_addrs"}],
                     !.no = @ \union {"addrs"}]
    [] OTHER -> acc

nak_result(acc) == [ok |-> ~acc.bad, try |-> acc.try]

ipcp_rest(go, acc) ==
  nak_result(FoldLeft(LAMBDA a, c : ipcp_take_rest(go, a, c), acc, acc.p))

ipcp_nakci(go, p) ==
  ipcp_rest(go, FoldLeft(LAMBDA acc, t : ipcp_take_nak(go, acc, t),
                         [p |-> p, try |-> go, no |-> {}, bad |-> FALSE],
                         <<"addr", "addrs", "dns1", "dns2">>))

ipcp_rejci(go, p) ==
  [ok  |-> rejects_ours(ipcp_addci(go), p),
   try |-> [go EXCEPT !.on = @ \ {CASE t \in {"addr", "addrs"} -> "neg_addr"
                                    [] t = "dns1" -> "req_dns1"
                                    [] t = "dns2" -> "req_dns2" : t \in types(p)}]]

(* The verdict on one option.  An address sent back is ours only when we   *)
(* still send naks; a name server's always.                                *)
addr_verdict(wo, ao, c, reject) ==
  IF "neg_addr" \notin ao.on THEN rej(c)
  ELSE IF c[2] # wo.hisaddr /\ (c[2] = 0 \/ "accept_remote" \notin wo.on)
  THEN IF reject THEN rej(c) ELSE nak(c, wo.hisaddr)
  ELSE IF c[2] = 0 THEN rej(c) ELSE ack(c)

dns_verdict(c, a, reject) ==
  CASE a = 0 -> rej(c)
    [] c[2] = a /\ a # 0 -> ack(c)
    [] OTHER -> IF reject THEN rej(<<c[1], a>>) ELSE nak(c, a)

ipcp_verdict(wo, ao, c, reject) ==
  CASE c[1] = "addr" -> addr_verdict(wo, ao, c, reject)
    [] c[1] = "dns1" -> dns_verdict(c, ao.dns[1], reject)
    [] c[1] = "dns2" -> dns_verdict(c, ao.dns[2], reject)
    [] OTHER -> rej(c)

(* His address is remembered unless it is rejected out of hand. *)
ipcp_his(wo, ao, p) ==
  LET a == value_of(p, "addr", 0)
  IN  IF "addr" \in types(p) /\ "neg_addr" \in ao.on /\ (a # 0 \/ wo.hisaddr # 0)
      THEN [no_ipcp_options EXCEPT !.on = {"neg_addr"}, !.hisaddr = a]
      ELSE no_ipcp_options

no_req_addr(wo) == [wo EXCEPT !.on = @ \ {"req_addr"}]

nobody_knows(wo, ao, p) ==
  "addr" \in types(p) /\ "neg_addr" \in ao.on /\ value_of(p, "addr", 0) = 0 /\ wo.hisaddr = 0

(* He did not send his address: a nak with our idea of it is appended. *)
append_addr(wo, his, r, reject) ==
  IF r.code = "CONFREJ" \/ "neg_addr" \in his.on \/ "req_addr" \notin wo.on \/ reject
  THEN [code |-> r.code, data |-> r.data, his |-> his, want |-> wo]
  ELSE [code |-> "CONFNAK", his |-> his,
        data |-> Append(IF r.code = "CONFACK" THEN <<>> ELSE r.data,
                        <<"addr", wo.hisaddr>>),
        want |-> IF r.code = "CONFACK" THEN no_req_addr(wo) ELSE wo]

ipcp_reqci(wo, ao, p, reject) ==
  append_addr(IF nobody_knows(wo, ao, p) THEN no_req_addr(wo) ELSE wo,
              ipcp_his(wo, ao, p),
              combine([i \in DOMAIN p |-> ipcp_verdict(wo, ao, p[i], reject)]),
              reject)
=============================================================================
