------------------------ MODULE CreateRequestProofs -------------------------
(***************************************************************************)
(* What the way of a create request preserves, for every VirtualMachine     *)
(* and every object it refers to.                                           *)
(***************************************************************************)
EXTENDS CreateRequest, SequenceTheorems, TLAPS

(* The parts that the objects give, and those that some content holds.      *)
Parts == {"inline", "secret"}
Given(ci) == (IF ci.inline THEN {"inline"} ELSE {})
                \cup (IF ci.secret = "present" THEN {"secret"} ELSE {})
Held(content) == {content[i] : i \in DOMAIN content}

(* What is there of an optional value.                                      *)
LEMMA TheElement ==
    ASSUME NEW S, NEW x \in Optional(S), x # {}
    PROVE  The(x) \in S
BY DEF Optional, The

(* One more part at the end of some content is one more part in it.         *)
LEMMA HeldAppended ==
    ASSUME NEW content \in Seq(Parts), NEW part \in Parts
    PROVE  /\ Append(content, part) \in Seq(Parts)
           /\ Append(content, part) # <<>>
           /\ Held(Append(content, part)) = Held(content) \cup {part}
<1> DEFINE new == Append(content, part)
<1>1. /\ new \in Seq(Parts) /\ new # <<>>
      /\ Len(new) = Len(content) + 1
      /\ \A i \in 1..Len(content) : new[i] = content[i]
      /\ new[Len(content) + 1] = part
  BY AppendProperties
<1> HIDE DEF new
<1>2. DOMAIN new = 1..(Len(content) + 1) /\ DOMAIN content = 1..Len(content)
  BY <1>1, LenProperties
<1>3. Held(new) = Held(content) \cup {part}
  BY <1>1, <1>2, LenProperties DEF Held
<1> QED
  BY <1>1, <1>3 DEF new

(* What is written inline.                                                  *)
LEMMA InlineHeld ==
    ASSUME NEW b \in BOOLEAN
    PROVE  LET inline == IF b THEN <<"inline">> ELSE <<>>
           IN  /\ inline \in Seq(Parts)
               /\ Held(inline) = IF b THEN {"inline"} ELSE {}
               /\ inline = <<>> => ~b
<1>1. <<"inline">> \in Seq(Parts) /\ Held(<<"inline">>) = {"inline"} /\ <<"inline">> # <<>>
  BY DEF Held, Parts
<1>2. <<>> \in Seq(Parts) /\ Held(<<>>) = {}
  BY DEF Held
<1> QED
  BY <1>1, <1>2

(* resolveCloudInitUserData joins the parts that are given, and fails when  *)
(* the Secret it is told to use is missing or has no key for it.            *)
LEMMA UserDataResolved ==
    ASSUME NEW ci \in CloudInitType, NEW u \in resolveCloudInitUserData(ci)
    PROVE  /\ u \in Seq(Parts)
           /\ ci.secret \in {"none", "empty", "present"}
           /\ Held(u) = Given(ci)
           /\ u = <<>> => Given(ci) = {}
<1> DEFINE inline == IF ci.inline THEN <<"inline">> ELSE <<>>
<1>1. /\ inline \in Seq(Parts)
      /\ Held(inline) = IF ci.inline THEN {"inline"} ELSE {}
      /\ inline = <<>> => ~ci.inline
  BY InlineHeld DEF CloudInitType
<1>2. CASE ci.secret \in {"none", "empty"} /\ u = inline
  BY <1>1, <1>2 DEF Given
<1>3. CASE ci.secret = "present" /\ u = Append(inline, "secret")
  <2> HIDE DEF inline
  <2>1. u \in Seq(Parts) /\ u # <<>> /\ Held(u) = Held(inline) \cup {"secret"}
    BY <1>1, <1>3, HeldAppended DEF Parts
  <2> QED
    BY <1>1, <1>3, <2>1 DEF Given
<1> QED
  BY <1>2, <1>3 DEF resolveCloudInitUserData, extractCloudInitFromSecret, Value, Join

(* resolveCloudInitMetaData does the same.                                  *)
LEMMA MetaDataResolved ==
    ASSUME NEW ci \in CloudInitType, NEW u \in resolveCloudInitMetaData(ci)
    PROVE  u \in Seq(Parts) /\ Held(u) = Given(ci)
<1> DEFINE inline == IF ci.inline THEN <<"inline">> ELSE <<>>
<1>1. /\ inline \in Seq(Parts)
      /\ Held(inline) = IF ci.inline THEN {"inline"} ELSE {}
  BY InlineHeld DEF CloudInitType
<1>2. CASE ci.secret \in {"none", "empty"} /\ u = inline
  BY <1>1, <1>2 DEF Given
<1>3. CASE ci.secret = "present" /\ u = Append(inline, "secret")
  <2> HIDE DEF inline
  <2> QED
    BY <1>1, <1>3, HeldAppended DEF Parts, Given
<1> QED
  BY <1>2, <1>3 DEF resolveCloudInitMetaData, extractMetaDataFromSecret, Value, Join

-----------------------------------------------------------------------------
(* Whatever the objects are, a request that reaches the wire carries all    *)
(* the user data they give and nothing else; none is sent while the Secret  *)
(* is missing or has no accepted key (one with nothing under the key counts *)
(* as giving nothing).  In vSphere's guest information it arrives with the  *)
(* metadata, in libvirt's request without, and Proxmox gives the machine a  *)
(* cloud-init drive exactly when there is some.                             *)
THEOREM UserDataArrives ==
    ASSUME NEW o \in ObjectType, NEW req \in Sent(o)
    PROVE  LET info == guestinfo(vsphereParseCreateRequest(req))
           IN  /\ o.userData.secret \in {"none", "empty", "present"}
               /\ Held(info.userdata) = Given(o.userData)
               /\ Given(o.userData) # {} => Given(o.metaData) \subseteq Held(info.metadata)
               /\ Held(libvirtParseCreateRequest(req).userData) = Given(o.userData)
               /\ proxmoxParseCreateRequest(req).cloudInit = (Given(o.userData) # {})
<1>1. o.userData \in CloudInitType /\ o.metaData \in CloudInitType
  BY DEF ObjectType
<1>2. PICK built \in buildCreateRequest(o) : req = convertCreateRequest(built)
  BY DEF Sent
<1>3. PICK u \in resolveCloudInitUserData(o.userData), md \in resolveCloudInitMetaData(o.metaData) :
          built.userData = u /\ built.metaData = md
  BY <1>2 DEF buildCreateRequest, requestWith
<1>4. /\ u \in Seq(Parts) /\ o.userData.secret \in {"none", "empty", "present"}
      /\ Held(u) = Given(o.userData) /\ (u = <<>> => Given(o.userData) = {})
  BY <1>1, <1>3, UserDataResolved
<1>5. md \in Seq(Parts) /\ Held(md) = Given(o.metaData)
  BY <1>1, <1>3, MetaDataResolved
<1>6. DOMAIN built = {"class", "image", "networks", "disks", "userData", "metaData"}
  BY <1>2 DEF buildCreateRequest, requestWith
<1>7. req.userData = u /\ req.metaData = IF u = <<>> THEN <<>> ELSE md
  BY <1>2, <1>3, <1>6 DEF convertCreateRequest
<1>8. Held(<<>>) = {}
  BY DEF Held
<1>9. /\ vsphereParseCreateRequest(req).cloudInit = u
      /\ vsphereParseCreateRequest(req).metaData = req.metaData
  BY <1>7 DEF vsphereParseCreateRequest
<1>10. /\ Held(guestinfo(vsphereParseCreateRequest(req)).userdata) = Given(o.userData)
       /\ Given(o.userData) # {} =>
             Given(o.metaData) \subseteq Held(guestinfo(vsphereParseCreateRequest(req)).metadata)
  BY <1>4, <1>5, <1>7, <1>8, <1>9 DEF guestinfo
<1>11. libvirtParseCreateRequest(req).userData = u
  BY <1>7 DEF libvirtParseCreateRequest
<1>12. proxmoxParseCreateRequest(req).cloudInit = (u # <<>>)
  BY <1>7 DEF proxmoxParseCreateRequest, proxmoxCloudInit
<1>13. u # <<>> => Given(o.userData) # {}
  <2>1. u # <<>> => 1 \in DOMAIN u
    BY <1>4, EmptySeq, LenProperties
  <2> QED
    BY <1>4, <2>1 DEF Held
<1>14. proxmoxParseCreateRequest(req).cloudInit = (Given(o.userData) # {})
  BY <1>4, <1>12, <1>13
<1> QED
  BY <1>4, <1>10, <1>11, <1>14
=============================================================================
