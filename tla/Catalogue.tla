----------------------------- MODULE Catalogue ------------------------------
(***************************************************************************)
(* What every public operation of the direct clients asks of the server:   *)
(* one row per operation of client.py (Sync...) and async_client.py        *)
(* (Async...), and one per method of the generated stub.                   *)
(*                                                                         *)
(* A row is [call, rpc, request, reply, ttl]:                              *)
(*   call     "unary", "stream", "create" (createContainer and its         *)
(*            continuations), "chunked" (one RPC per chunk), or "wraps"    *)
(*   rpc      the stub's method                                            *)
(*   request  the message it is given                                      *)
(*   reply    what is read from the answer                                 *)
(*   ttl      where the TTL goes: "value", "values" (each element),        *)
(*            "request", "both" (the request and its elements), "always"   *)
(*            (also when it is 0), "relative" (as the caller gave it),     *)
(*            "lock" (the lock's duration instead) or "none"               *)
(* Keys, positions, container types, lock ownership and the choice of the  *)
(* fields to compress are left out; the two clients do not agree on all of *)
(* them: see RequestsAgree in Operation.                                   *)
(***************************************************************************)
EXTENDS TLC

Row(call, rpc, request, reply, ttl) ==
    [call |-> call, rpc |-> rpc, request |-> request, reply |-> reply, ttl |-> ttl]

Unary(rpc, request, reply, ttl) == Row("unary", rpc, request, reply, ttl)
Stream(rpc, request)            == Row("stream", rpc, request, "batches", "none")
Chunked(rpc, request, reply, ttl) == Row("chunked", rpc, request, reply, ttl)
Create(rest, ttl) ==
    Row("create", "createContainer", "CreateContainerRequest", "hint", ttl) @@ [rest |-> rest]

\* A method that calls another public one: the scope of the inner call is nested.
Wraps(op) == [call |-> "wraps", op |-> op, shape |-> "any"]

\* The same, with _boolean=True: the answers are read as those of a flag, which ends
\* the chunks at the first 0, where the method that is called adds counts up.
WrapsFlag(op) == Wraps(op) @@ [reply |-> "flag"]

\* The same, and what comes back has to be a list or dict of this class.
Typed(op, shape, class) == [call |-> "wraps", op |-> op, shape |-> shape, class |-> class]

-----------------------------------------------------------------------------
(* HurriCacheGrpcServiceStub                                               *)

UnaryUnary(request, response)  == [kind |-> "unary", request |-> request, response |-> response]
UnaryStream(request, response) == [kind |-> "stream", request |-> request, response |-> response]

StubKeys == [
    lockObject        |-> UnaryUnary("LockRequest", "LockResponse"),
    unlockObject      |-> UnaryUnary("UnLockRequest", "UnlockResponse"),
    setTtl            |-> UnaryUnary("TtlRequest", "BoolResponse"),
    getTtl            |-> UnaryUnary("GetRequest", "TtlResponse"),
    createKeyValue    |-> UnaryUnary("CreateRequest", "KeyHintResponse"),
    getValue          |-> UnaryUnary("GetRequest", "ValueResponse"),
    getAndDeleteValue |-> UnaryUnary("GetRequest", "ValueResponse"),
    existKey          |-> UnaryUnary("GetRequest", "BoolResponse"),
    updateValue       |-> UnaryUnary("UpdateRequest", "UpdateValueResponse"),
    remove            |-> UnaryUnary("GetRequest", "BoolResponse")]

StubContainers == [
    createContainer               |-> UnaryUnary("CreateContainerRequest", "KeyHintResponse"),
    getContainer                  |-> UnaryStream("GetRequest", "BatchValueResponse"),
    getSize                       |-> UnaryUnary("GetRequest", "IntResponse"),
    getTail                       |-> UnaryUnary("GetRequest", "ValueResponse"),
    getHead                       |-> UnaryUnary("GetRequest", "ValueResponse"),
    getValueInContainer           |-> UnaryUnary("ContainerGetRequest", "ValueResponse"),
    existKeyInContainer           |-> UnaryUnary("ContainerGetRequest", "BoolResponse"),
    getAndRemoveFront             |-> UnaryUnary("GetRequest", "ValueResponse"),
    getAndRemoveTail              |-> UnaryUnary("GetRequest", "ValueResponse"),
    getAndRemoveElementAtPosition |-> UnaryUnary("KeyPositionRequest", "ValueResponse"),
    getAndDeleteValueInContainer  |-> UnaryUnary("ContainerGetRequest", "ValueResponse"),
    updateValueInContainer        |-> UnaryUnary("UpdateContainerRequest", "UpdateValueResponse"),
    getElementAtPosition          |-> UnaryUnary("KeyPositionRequest", "ValueResponse"),
    getElementInRange             |-> UnaryStream("KeyPositionRequest", "BatchValueResponse"),
    removeHead                    |-> UnaryUnary("GetRequest", "BoolResponse"),
    removeTail                    |-> UnaryUnary("GetRequest", "BoolResponse"),
    removeElementAtPosition       |-> UnaryUnary("KeyPositionRequest", "BoolResponse"),
    removeFromContainerByKeyValue |-> UnaryUnary("RemoveFromContainerRequest", "IntResponse"),
    removeInContainer             |-> UnaryUnary("ContainerGetRequest", "IntResponse"),
    addElementToTail              |-> UnaryUnary("AddToRequest", "IntResponse"),
    addElementToHead              |-> UnaryUnary("AddToRequest", "IntResponse"),
    addElement                    |-> UnaryUnary("AddToRequest", "IntResponse"),
    addElementToPositionByValue   |-> UnaryUnary("AddToValRequest", "IntResponse")]

StubAtomics == [
    atomicLoad          |-> UnaryUnary("GetRequest", "AtomicValue"),
    atomicLoadAndDelete |-> UnaryUnary("GetRequest", "AtomicValue"),
    atomicCreate        |-> UnaryUnary("AtomicCreate", "KeyHintResponse"),
    atomicStore         |-> UnaryUnary("AtomicCreate", "KeyHintResponse"),
    atomicExchange      |-> UnaryUnary("AtomicCreate", "AtomicValue"),
    atomicAdd           |-> UnaryUnary("AtomicCreate", "AtomicValue"),
    atomicSub           |-> UnaryUnary("AtomicCreate", "AtomicValue"),
    atomicOr            |-> UnaryUnary("AtomicCreate", "AtomicValue"),
    atomicAnd           |-> UnaryUnary("AtomicCreate", "AtomicValue"),
    atomicXor           |-> UnaryUnary("AtomicCreate", "AtomicValue"),
    atomicCompareAndSet |-> UnaryUnary("AtomicCas", "AtomicCasRes")]

Stub == StubKeys @@ StubContainers @@ StubAtomics

\* The messages that have the fields a reply is read from.
ReadableFrom == [
    status   |-> {"LockResponse", "UnlockResponse"},
    bool     |-> {"BoolResponse"},
    ttl      |-> {"TtlResponse"},
    hint     |-> {"KeyHintResponse", "AtomicCasRes"},
    payload  |-> {"ValueResponse"},
    previous |-> {"UpdateValueResponse"},
    size     |-> {"IntResponse"},
    flag     |-> {"IntResponse"},
    count    |-> {"IntResponse"},
    batches  |-> {"BatchValueResponse"},
    val      |-> {"AtomicValue"},
    cas      |-> {"AtomicCasRes"}]

\* A request goes to a method that serializes its type, and the answer is one
\* that can be read the way the client does.
Fits(rpc, request, reply) ==
    /\ Stub[rpc].request = request
    /\ Stub[rpc].response \in ReadableFrom[reply]
    /\ (Stub[rpc].kind = "stream") = (reply = "batches")

-----------------------------------------------------------------------------
(* HurriCacheClient                                                        *)

Get(rpc, reply)   == Unary(rpc, "GetRequest", reply, "none")
Entry(rpc, reply) == Unary(rpc, "ContainerGetRequest", reply, "none")
At(rpc, reply)    == Unary(rpc, "KeyPositionRequest", reply, "none")
Add(rpc, reply)   == Chunked(rpc, "AddToRequest", reply, "values")
Atomic(rpc, reply) == Unary(rpc, "AtomicCreate", reply, "request")

SyncLocksAndTtl == [
    lock_object   |-> Unary("lockObject", "LockRequest", "status", "lock"),
    unlock_object |-> Unary("unlockObject", "UnLockRequest", "status", "none"),
    set_ttl       |-> Unary("setTtl", "TtlRequest", "bool", "always"),
    get_ttl       |-> Get("getTtl", "ttl")]

SyncKeyValues == [
    create_key_value     |-> Unary("createKeyValue", "CreateRequest", "hint", "value"),
    get_value            |-> Get("getValue", "payload"),
    get_and_delete_value |-> Get("getAndDeleteValue", "payload"),
    exist_key            |-> Get("existKey", "bool"),
    update_value         |-> Unary("updateValue", "UpdateRequest", "previous", "value"),
    remove               |-> Get("remove", "bool")]

SyncPlainCreations == [
    create_vector |-> Create("addElementToTail", "request"),
    create_list   |-> Create("addElementToTail", "request"),
    create_queue  |-> Create("addElementToTail", "request"),
    create_set    |-> Create("addElement", "request")]

SyncKeyedCreations == [
    create_map         |-> Create("addElement", "both"),
    create_ordered_set |-> Create("addElement", "both"),
    create_ordered_map |-> Create("addElement", "both")]

SyncContainerReads == [
    get_container |-> Stream("getContainer", "GetRequest"),
    get_size      |-> Get("getSize", "size"),
    get_tail      |-> Get("getTail", "payload"),
    get_front     |-> Wraps("get_head"),
    get_head      |-> Get("getHead", "payload")]

SyncEntryReads == [
    get_value_in_container |-> Entry("getValueInContainer", "payload"),
    exist_key_in_container |-> Entry("existKeyInContainer", "bool"),
    contains_container_key |-> Wraps("exist_key_in_container")]

SyncTakes == [
    get_and_remove_front               |-> Get("getAndRemoveFront", "payload"),
    get_and_remove_tail                |-> Get("getAndRemoveTail", "payload"),
    get_and_remove_element_at_position |-> At("getAndRemoveElementAtPosition", "payload"),
    get_and_delete_value_in_container  |-> Entry("getAndDeleteValueInContainer", "payload"),
    update_value_in_container          |->
        Unary("updateValueInContainer", "UpdateContainerRequest", "previous", "value")]

SyncPositions == [
    get_element_at_position |-> At("getElementAtPosition", "payload"),
    get_element_in_range    |-> Stream("getElementInRange", "KeyPositionRequest")]

SyncRemovals == [
    remove_head                |-> Get("removeHead", "bool"),
    remove_tail                |-> Get("removeTail", "bool"),
    remove_element_at_position |-> At("removeElementAtPosition", "bool"),
    remove_from_container_by_key_value |->
        Chunked("removeFromContainerByKeyValue", "RemoveFromContainerRequest", "count", "none"),
    remove_in_container        |-> Entry("removeInContainer", "size")]

SyncAdditions == [
    add_element_to_tail  |-> Add("addElementToTail", "flag"),
    add_element_to_head  |-> Add("addElementToHead", "flag"),
    add_element          |-> Add("addElement", "count"),
    add_element_hash_map |-> Wraps("add_element"),
    add_element_to_position_by_value |->
        Chunked("addElementToPositionByValue", "AddToValRequest", "flag", "relative")]

SyncMoreAdditions == [
    add_element_to_position_before |-> Wraps("add_element_to_position_by_value"),
    add_element_to_position_after  |-> Wraps("add_element_to_position_by_value"),
    add_element_unordered          |-> Add("addElement", "count"),
    add_element_ordered            |-> Add("addElement", "count")]

SyncAtomicLoads == [
    atomic_load            |-> Get("atomicLoad", "val"),
    atomic_load_and_delete |-> Get("atomicLoadAndDelete", "val"),
    atomic_create          |-> Atomic("atomicCreate", "hint"),
    atomic_store           |-> Atomic("atomicStore", "hint"),
    atomic_exchange        |-> Atomic("atomicExchange", "val")]

SyncAtomicUpdates == [
    atomic_add |-> Atomic("atomicAdd", "val"),
    atomic_sub |-> Atomic("atomicSub", "val"),
    atomic_or  |-> Atomic("atomicOr", "val"),
    atomic_and |-> Atomic("atomicAnd", "val")]

SyncAtomicSwaps == [
    atomic_xor             |-> Atomic("atomicXor", "val"),
    atomic_compare_and_set |-> Unary("atomicCompareAndSet", "AtomicCas", "cas", "request")]

SyncWrappers == [
    add_element_to_position |-> Wraps("add_element_unordered"),
    add_element_with_weight |-> Wraps("add_element_ordered"),
    add_element_ordered_set |-> WrapsFlag("add_element_ordered"),
    add_element_ordered_map |-> Chunked("addElement", "AddToRequest", "count", "none"),
    stream_element_in_range_unordered   |-> Wraps("get_element_in_range"),
    stream_element_in_range_ordered_set |-> Wraps("get_element_in_range"),
    stream_element_in_range_ordered     |-> Wraps("stream_element_in_range_ordered_set")]

\* update_key_value = update_value and so on: the same method under a second name.
SyncAliases == [
    update_key_value               |-> SyncKeyValues.update_value,
    get_container_value            |-> SyncEntryReads.get_value_in_container,
    get_and_remove_container_value |-> SyncTakes.get_and_delete_value_in_container,
    update_container_value         |-> SyncTakes.update_value_in_container,
    remove_container_key           |-> SyncRemovals.remove_in_container,
    remove_from_container          |-> SyncRemovals.remove_from_container_by_key_value]

SyncTypedStreams == [
    stream_list        |-> Typed("get_container", "list", "Payload"),
    stream_vector      |-> Typed("get_container", "list", "Payload"),
    stream_queue       |-> Typed("get_container", "list", "Payload"),
    stream_set         |-> Typed("get_container", "list", "Payload"),
    stream_map         |-> Typed("get_container", "dict", "Payload"),
    stream_ordered_set |-> Typed("get_container", "list", "OrderedPayload"),
    stream_ordered_map |-> Typed("get_container", "dict", "OrderedPayload")]

SyncCounts == [
    add_element_to_tail_count |-> Add("addElementToTail", "count"),
    add_element_to_head_count |-> Add("addElementToHead", "count"),
    add_element_to_position_by_value_count |->
        Chunked("addElementToPositionByValue", "AddToValRequest", "count", "relative"),
    add_element_to_position_before_count |-> Wraps("add_element_to_position_by_value_count"),
    add_element_to_position_after_count  |-> Wraps("add_element_to_position_by_value_count")]

SyncWeighted == [
    get_element_with_weight            |-> At("getElementAtPosition", "payload"),
    get_and_remove_element_with_weight |-> At("getAndRemoveElementAtPosition", "payload"),
    stream_element_in_range_ordered_map |->
        Typed("get_element_in_range", "dict", "OrderedPayload")]

SyncOperations ==
    SyncLocksAndTtl @@ SyncKeyValues @@ SyncPlainCreations @@ SyncKeyedCreations
    @@ SyncContainerReads @@ SyncEntryReads @@ SyncTakes @@ SyncPositions @@ SyncRemovals
    @@ SyncAdditions @@ SyncMoreAdditions @@ SyncAtomicLoads @@ SyncAtomicUpdates
    @@ SyncAtomicSwaps @@ SyncWrappers @@ SyncAliases @@ SyncTypedStreams @@ SyncCounts
    @@ SyncWeighted

-----------------------------------------------------------------------------
(* AsyncHurriCacheClient.  get_front, contains_container_key and           *)
(* add_element_hash_map are second names here, not wrappers.               *)

AsyncKeyValues == [
    lock_object          |-> Unary("lockObject", "LockRequest", "status", "lock"),
    unlock_object        |-> Unary("unlockObject", "UnLockRequest", "status", "none"),
    set_ttl              |-> Unary("setTtl", "TtlRequest", "bool", "always"),
    get_ttl              |-> Get("getTtl", "ttl"),
    create_key_value     |-> Unary("createKeyValue", "CreateRequest", "hint", "value"),
    get_value            |-> Get("getValue", "payload"),
    get_and_delete_value |-> Get("getAndDeleteValue", "payload"),
    exist_key            |-> Get("existKey", "bool"),
    update_value         |-> Unary("updateValue", "UpdateRequest", "previous", "value"),
    remove               |-> Get("remove", "bool")]

\* _create_container: only maps and ordered sets have elements with a TTL.
AsyncCreations ==
    [op \in {"create_vector", "create_list", "create_queue"} |->
        Create("addElementToTail", "request")]
    @@ [create_set |-> Create("addElement", "request")]
    @@ [op \in {"create_map", "create_ordered_set", "create_ordered_map"} |->
        Create("addElement", "both")]

AsyncReads == [
    get_container          |-> Stream("getContainer", "GetRequest"),
    get_size               |-> Get("getSize", "size"),
    get_tail               |-> Get("getTail", "payload"),
    get_head               |-> Get("getHead", "payload"),
    get_front              |-> Get("getHead", "payload"),
    get_value_in_container |-> Entry("getValueInContainer", "payload"),
    exist_key_in_container |-> Entry("existKeyInContainer", "bool"),
    contains_container_key |-> Entry("existKeyInContainer", "bool"),
    get_and_remove_front   |-> Get("getAndRemoveFront", "payload"),
    get_and_remove_tail    |-> Get("getAndRemoveTail", "payload"),
    get_element_at_position            |-> At("getElementAtPosition", "payload"),
    get_and_remove_element_at_position |-> At("getAndRemoveElementAtPosition", "payload"),
    get_element_in_range   |-> Stream("getElementInRange", "KeyPositionRequest")]

AsyncRemovals == [
    get_and_delete_value_in_container |-> Entry("getAndDeleteValueInContainer", "payload"),
    update_value_in_container         |->
        Unary("updateValueInContainer", "UpdateContainerRequest", "previous", "value"),
    remove_head                |-> Get("removeHead", "bool"),
    remove_tail                |-> Get("removeTail", "bool"),
    remove_element_at_position |-> At("removeElementAtPosition", "bool"),
    remove_from_container_by_key_value |->
        Chunked("removeFromContainerByKeyValue", "RemoveFromContainerRequest", "count", "none"),
    remove_in_container        |-> Entry("removeInContainer", "size")]

AsyncAdditions == [
    add_element_to_tail   |-> Add("addElementToTail", "flag"),
    add_element_to_head   |-> Add("addElementToHead", "flag"),
    add_element           |-> Add("addElement", "count"),
    add_element_hash_map  |-> Add("addElement", "count"),
    add_element_unordered |-> Add("addElement", "count"),
    add_element_ordered   |-> Add("addElement", "count"),
    add_element_to_position_by_value |->
        Chunked("addElementToPositionByValue", "AddToValRequest", "flag", "relative"),
    add_element_to_position_before |-> Wraps("add_element_to_position_by_value"),
    add_element_to_position_after  |-> Wraps("add_element_to_position_by_value")]

\* Mutant: the swap is sent as an ordinary atomic update.
AsyncAtomics_PlainSwap == [
    atomic_load            |-> Get("atomicLoad", "val"),
    atomic_load_and_delete |-> Get("atomicLoadAndDelete", "val"),
    atomic_create          |-> Atomic("atomicCreate", "hint"),
    atomic_store           |-> Atomic("atomicStore", "hint"),
    atomic_exchange        |-> Atomic("atomicExchange", "val"),
    atomic_add             |-> Atomic("atomicAdd", "val"),
    atomic_sub             |-> Atomic("atomicSub", "val"),
    atomic_or              |-> Atomic("atomicOr", "val"),
    atomic_and             |-> Atomic("atomicAnd", "val"),
    atomic_xor             |-> Atomic("atomicXor", "val"),
    atomic_compare_and_set |-> Atomic("atomicCompareAndSet", "cas")]

AsyncAtomics == [
    atomic_load            |-> Get("atomicLoad", "val"),
    atomic_load_and_delete |-> Get("atomicLoadAndDelete", "val"),
    atomic_create          |-> Atomic("atomicCreate", "hint"),
    atomic_store           |-> Atomic("atomicStore", "hint"),
    atomic_exchange        |-> Atomic("atomicExchange", "val"),
    atomic_add             |-> Atomic("atomicAdd", "val"),
    atomic_sub             |-> Atomic("atomicSub", "val"),
    atomic_or              |-> Atomic("atomicOr", "val"),
    atomic_and             |-> Atomic("atomicAnd", "val"),
    atomic_xor             |-> Atomic("atomicXor", "val"),
    atomic_compare_and_set |-> Unary("atomicCompareAndSet", "AtomicCas", "cas", "request")]

AsyncWrappers == [
    add_element_to_position |-> Wraps("add_element_unordered"),
    add_element_with_weight |-> Wraps("add_element_ordered"),
    add_element_ordered_set |-> WrapsFlag("add_element_ordered"),
    add_element_ordered_map |-> Chunked("addElement", "AddToRequest", "count", "none"),
    stream_element_in_range_unordered   |-> Wraps("get_element_in_range"),
    stream_element_in_range_ordered_set |-> Wraps("get_element_in_range"),
    stream_element_in_range_ordered     |-> Wraps("stream_element_in_range_ordered_set"),
    update_key_value               |-> AsyncKeyValues.update_value,
    get_container_value            |-> AsyncReads.get_value_in_container,
    get_and_remove_container_value |-> AsyncRemovals.get_and_delete_value_in_container,
    update_container_value         |-> AsyncRemovals.update_value_in_container,
    remove_container_key           |-> AsyncRemovals.remove_in_container,
    remove_from_container          |-> AsyncRemovals.remove_from_container_by_key_value]

AsyncTypedStreams ==
    [op \in {"stream_list", "stream_vector", "stream_queue", "stream_set"} |->
        Typed("get_container", "list", "Payload")]
    @@ [stream_map         |-> Typed("get_container", "dict", "Payload"),
        stream_ordered_set |-> Typed("get_container", "list", "OrderedPayload"),
        stream_ordered_map |-> Typed("get_container", "dict", "OrderedPayload")]

AsyncCounts == [
    add_element_to_tail_count |-> Add("addElementToTail", "count"),
    add_element_to_head_count |-> Add("addElementToHead", "count"),
    add_element_to_position_by_value_count |->
        Chunked("addElementToPositionByValue", "AddToValRequest", "count", "relative"),
    add_element_to_position_before_count |-> Wraps("add_element_to_position_by_value_count"),
    add_element_to_position_after_count  |-> Wraps("add_element_to_position_by_value_count"),
    get_element_with_weight              |-> At("getElementAtPosition", "payload"),
    get_and_remove_element_with_weight   |-> At("getAndRemoveElementAtPosition", "payload"),
    stream_element_in_range_ordered_map  |->
        Typed("get_element_in_range", "dict", "OrderedPayload")]

AsyncOperations ==
    AsyncKeyValues @@ AsyncCreations @@ AsyncReads @@ AsyncRemovals @@ AsyncAdditions
    @@ AsyncAtomics @@ AsyncWrappers @@ AsyncTypedStreams @@ AsyncCounts
=============================================================================
