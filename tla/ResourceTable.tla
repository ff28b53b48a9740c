---------------------------- MODULE ResourceTable ----------------------------
(***************************************************************************)
(* The resource-id table of the native AssetManager bridge, src/core/jni/ *)
(* android_content_res_AssetManager.cpp: getResourceIdentifier hands out   *)
(* the id size()+1 of the managed HashMap mNameIds and puts "<name>.<type>"*)
(* under it; getResourceEntryName, getResourceEntry and loadResourceValue *)
(* read it back.  The table lives in a Java object: size() and put() are   *)
(* two separate calls into the managed runtime, and nothing locks between *)
(* them, so each is a step of its own.                                     *)
(*                                                                         *)
(* Strings are sequences of characters over a small alphabet that holds   *)
(* "."; a name may contain "." (getIdentifier does not reject it).        *)
(* The managed callers (Resources.getIdentifier and the like, not under   *)
(* src/) are threads; with Serialized they hold a lock around each call,  *)
(* as spec section 5 says callers must.                                    *)
(***************************************************************************)
EXTENDS Integers, Sequences, SequencesExt

CONSTANTS
    Threads,      \* managed threads calling the bridge
    ResNames,     \* resource names callers pass, as character sequences
    ResTypes,     \* resource types callers pass, as character sequences
    MaxIds,       \* bound on the number of ids handed out
    Serialized,   \* callers serialise their calls to the bridge
    NULL          \* the null Java reference

ASSUME Serialized \in BOOLEAN

VARIABLES
    mNameIds,     \* the HashMap<Integer, String>: id |-> composite name
    call,         \* thread |-> its getResourceIdentifier in progress
    lock,         \* the caller-side lock (only with Serialized), or NULL
    issued,       \* ghost: the <<id, composite name>> pairs returned to callers
    lastName,     \* ghost: the last entry-name lookup: [id, got]
    tvString      \* the TypedValue.string loadResourceValue last wrote: [id, got]

vars == <<mNameIds, call, lock, issued, lastName, tvString>>

\* resourceName = name + "." + type  (strcpy, strcat, strcat)
ResourceName(name, type) == name \o <<".">> \o type

\* strrchr(name, '.'); name[type - name] = '\0': the text before the last ".".
EntryNameOf(composite) ==
    SubSeq(composite, 1, SelectLastInSeq(composite, LAMBDA c : c = ".") - 1)

Size == Cardinality(DOMAIN mNameIds)

\* HashMap.put(k, v) on the table.
Put(k, v) == [i \in DOMAIN mNameIds \cup {k} |-> IF i = k THEN v ELSE mNameIds[i]]

Free(t) == ~Serialized \/ lock \in {NULL, t}

-----------------------------------------------------------------------------

\* Mutant of getResourceIdentifierSize: k = size(), without the + 1.
getResourceIdentifierSizeNoIncr(t, name, type) ==
    /\ call[t] = NULL /\ Free(t)
    /\ Size < MaxIds
    /\ call' = [call EXCEPT ![t] = [k |-> Size, v |-> ResourceName(name, type)]]
    /\ lock' = IF Serialized THEN t ELSE lock
    /\ UNCHANGED <<mNameIds, issued, lastName, tvString>>

\* getResourceIdentifier(type, name, defPackage), first part:
\* k = mNameIds.size() + 1.  defPackage is ignored.
getResourceIdentifierSize(t, name, type) ==
    /\ call[t] = NULL /\ Free(t)
    /\ Size < MaxIds
    /\ call' = [call EXCEPT ![t] = [k |-> Size + 1, v |-> ResourceName(name, type)]]
    /\ lock' = IF Serialized THEN t ELSE lock
    /\ UNCHANGED <<mNameIds, issued, lastName, tvString>>

\* Mutant of getResourceIdentifierPut: the id returned is size() + 1 read
\* after the put.
getResourceIdentifierPutLate(t) ==
    /\ call[t] # NULL
    /\ mNameIds' = Put(call[t].k, call[t].v)
    /\ issued' = issued \cup {<<Cardinality(DOMAIN mNameIds') + 1, call[t].v>>}
    /\ call' = [call EXCEPT ![t] = NULL]
    /\ lock' = IF Serialized THEN NULL ELSE lock
    /\ UNCHANGED <<lastName, tvString>>

\* Second part: mNameIds.put(new Integer(k), resourceName); return k.
getResourceIdentifierPut(t) ==
    /\ call[t] # NULL
    /\ mNameIds' = Put(call[t].k, call[t].v)
    /\ issued' = issued \cup {<<call[t].k, call[t].v>>}
    /\ call' = [call EXCEPT ![t] = NULL]
    /\ lock' = IF Serialized THEN NULL ELSE lock
    /\ UNCHANGED <<lastName, tvString>>

\* Mutant of getResourceEntryName: strchr, the text before the first ".".
getResourceEntryNameFirstDot(t, id) ==
    /\ call[t] = NULL /\ Free(t)
    /\ id \in DOMAIN mNameIds
    /\ LET s == mNameIds[id]
       IN lastName' = [id |-> id, got |-> SubSeq(s, 1, SelectInSeq(s, LAMBDA c : c = ".") - 1)]
    /\ UNCHANGED <<mNameIds, call, lock, issued, tvString>>

\* getResourceEntryName(resid): mNameIds.get(resid), cut at the last ".".
\* An id that is not in the table gives NULL, and GetStringUTFChars(NULL)
\* crashes: callers pass ids the bridge handed out.
getResourceEntryName(t, id) ==
    /\ call[t] = NULL /\ Free(t)
    /\ id \in DOMAIN mNameIds
    /\ lastName' = [id |-> id, got |-> EntryNameOf(mNameIds[id])]
    /\ UNCHANGED <<mNameIds, call, lock, issued, tvString>>

\* getResourceEntry(resid): mNameIds.get(new Integer(resid)), returned as
\* is; NULL for an id not in the table (its GetStringUTFChars is commented
\* out, so unlike getResourceEntryName it does not crash).
getResourceEntry(id) ==
    IF id \in DOMAIN mNameIds THEN mNameIds[id] ELSE NULL

\* loadResourceValue(ident, density, tv, resolve): tv.string =
\* getResourceEntry(ident); density and resolve are ignored; returns 0.
loadResourceValue(t, id) ==
    /\ call[t] = NULL /\ Free(t)
    /\ tvString' = [id |-> id, got |-> getResourceEntry(id)]
    /\ UNCHANGED <<mNameIds, call, lock, issued, lastName>>

-----------------------------------------------------------------------------

Init ==
    /\ mNameIds = <<>>
    /\ call = [t \in Threads |-> NULL]
    /\ lock = NULL
    /\ issued = {}
    /\ lastName = [id |-> 0, got |-> <<>>]
    /\ tvString = [id |-> 0, got |-> NULL]

Next ==
    \E t \in Threads :
        \/ \E name \in ResNames, type \in ResTypes : getResourceIdentifierSize(t, name, type)
        \/ getResourceIdentifierPut(t)
        \/ \E id \in 1..MaxIds : getResourceEntryName(t, id) \/ loadResourceValue(t, id)

Spec == Init /\ [][Next]_vars

-----------------------------------------------------------------------------
(* Properties.                                                            *)

Composites == {ResourceName(n, ty) : n \in ResNames, ty \in ResTypes}

TypeOK ==
    /\ DOMAIN mNameIds \subseteq 1..MaxIds
    /\ \A i \in DOMAIN mNameIds : mNameIds[i] \in Composites
    /\ call \in [Threads -> {NULL} \cup [k : 1..MaxIds, v : Composites]]
    /\ lock \in Threads \cup {NULL}
    /\ tvString \in [id : 0..MaxIds, got : Composites \cup {NULL}]

\* An id is a name for good: every id getResourceIdentifier returned still
\* maps to the "<name>.<type>" its caller asked for, whatever other calls
\* came after or in between.
IdsKeepTheirResource ==
    \A p \in issued : p[1] \in DOMAIN mNameIds /\ mNameIds[p[1]] = p[2]

\* getResourceEntryName of an id handed out for (type, name) returns name,
\* also when name contains ".".
EntryNameRoundTrip ==
    \A p \in issued :
        lastName.id = p[1] => \E n \in ResNames, ty \in ResTypes :
                                 p[2] = ResourceName(n, ty) /\ lastName.got = n
=============================================================================
