---------------------------- MODULE EntryScripts ----------------------------
(* What every function of the MPI interface does before, between and after *)
(* the work it is for: the checks of its arguments, the count of nested    *)
(* calls (NEST_FXN_INCR and NEST_FXN_DECR), the calls it makes and what it *)
(* does with their results, and its early returns.  An entry is a sequence *)
(* of steps; a loop is one optional pass; error classes are written        *)
(* without MPI_ERR_.  EntryPoints executes the steps.                      *)
EXTENDS Sequences, TLC

(* A check has a class of error for each flaw of an argument it finds, and *)
(* reads other arguments on the way.                                       *)
Flaw(arg, flaw) == [arg |-> arg, flaw |-> flaw]
Refuses(arg, flaws, class) == [f \in {Flaw(arg, flaw) : flaw \in flaws} |-> class]
Checks(finds, reads) == [op |-> "check", finds |-> finds, reads |-> reads, late |-> FALSE]
Check(arg, flaws, class, reads) == Checks(Refuses(arg, flaws, class), reads)
Late(check) == [check EXCEPT !.late = TRUE]     \* fails to mpi_exception_unnest

Fxn(classes) == [op |-> "fxn", classes |-> classes]     \* CALL_FXN
Slip(class)  == [op |-> "slip", class |-> class]        \* fails to mpi_exception
Nest(fn, bind) == [op |-> "nest", fn |-> fn, bind |-> bind]     \* CALL_MPI_NEST
Do(fn, bind) == [op |-> "do", fn |-> fn, bind |-> bind] \* result < 0 or not looked at
Up    == [op |-> "up"]                                  \* NEST_FXN_INCR
Down  == [op |-> "down"]                                \* NEST_FXN_DECR
ChkOff == [op |-> "off"]                                \* klee_disable_sync_chk
ChkOn  == [op |-> "on"]                                 \* klee_enable_sync_chk, if it was on
Refuse(class) == [op |-> "refuse", class |-> class]     \* fails, always
LeaveIf(arg, flaws) == [op |-> "leaveIf", finds |-> {Flaw(arg, flaw) : flaw \in flaws}]
OnlyIf(arg, flaws) == [LeaveIf(arg, flaws) EXCEPT !.op = "onlyIf"]     \* starts a way on
OneOf(paths) == [op |-> "oneOf", paths |-> paths]       \* one of several ways on
Maybe(path)  == OneOf(<<path, <<>>>>)
Quit         == [op |-> "quit"]                         \* return MPI_SUCCESS
Leave        == OneOf(<<<<Quit>>, <<>>>>)
(* Mutant: the early return of a nested call forgets the count.            *)
LeaveOnly    == OneOf(<<<<Quit>>, <<>>>>)
LeaveDown    == OneOf(<<<<Down, Quit>>, <<>>>>)

None == <<>>                                            \* binds no argument
On(arg) == "comm" :> arg                                \* a call on that communicator
----------------------------------------------------------------------------
(* check.c                                                                 *)
check_tag(tag)                == Check(tag, {"bad"}, "TAG", {})
check_group(group)            == Check(group, {"null"}, "GROUP", {})
check_group_of(comm)          == Check(comm, {"no group"}, "GROUP", {comm})
check_comm(comm)              == Check(comm, {"null"}, "COMM", {})
check_source(source, comm)    == Check(source, {"bad"}, "RANK", {comm})
check_dest(dest, comm)        == Check(dest, {"bad"}, "RANK", {comm})
check_dest_comm(dest, comm) ==
  Checks(Refuses(dest, {"bad", "no process"}, "GROUP") @@ Refuses(comm, {"no group"}, "GROUP"),
         {comm})
check_rank_comm(rank, comm)   == check_dest_comm(rank, comm)
check_source_comm(source, comm) ==
  Checks(Refuses(source, {"bad", "no process"}, "RANK") @@ Refuses(comm, {"no group"}, "RANK"),
         {comm})
check_root(root, comm) ==
  Checks(Refuses(root, {"bad"}, "ROOT") @@ Refuses(comm, {"no group"}, "GROUP"), {comm})
check_count(count)            == Check(count, {"bad"}, "COUNT", {})
check_datatype(datatype)      == Check(datatype, {"null"}, "TYPE", {})
check_dtype_alloc(datatype)   == Check(datatype, {"unallocated"}, "TYPE", {datatype})
check_dtype_commit(datatype)  == Check(datatype, {"uncommitted"}, "TYPE", {datatype})
check_ops(op)                 == Check(op, {"null"}, "OP", {})
check_valid_ranks(group, ranks)   == Check(ranks, {"bad"}, "RANK", {group})
check_valid_ranges(group, ranges) == Check(ranges, {"bad"}, "ARG", {group})
check_request(request)        == Check(request, {"null"}, "REQUEST", {})
check_keyval(keyval)          == Check(keyval, {"bad"}, "ARG", {})
check_ndims(ndims)            == Check(ndims, {"bad"}, "DIMS", {})
check_dims(dims)              == Check(dims, {"bad"}, "DIMS", {dims})
check_dims_graph(nodes)       == Check(nodes, {"bad"}, "DIMS", {})
check_request_nr(count)       == Check(count, {"bad"}, "ARG", {})
check_comm_type(comm)         == Check(comm, {"wrong type"}, "COMM", {comm})
check_disjoint(ranks)         == Check(ranks, {"bad"}, "GROUP", {})
check_status(status)          == Check(status, {"null"}, "IN_STATUS", {})
check_errhandler(errhandler)  == Check(errhandler, {"null"}, "OTHER", {})
check_topo_type(comm)         == Check(comm, {"no topology"}, "TOPOLOGY", {comm})
check_pointer(arg, class)     == Check(arg, {"null"}, class, {})

CommChecks == <<check_comm("comm"), check_comm_type("comm")>>
TypeChecks(types) == [k \in DOMAIN types |-> check_datatype(types[k])]
CommitChecks(types) == [k \in DOMAIN types |-> check_dtype_commit(types[k])]
----------------------------------------------------------------------------
(* Attributes, error handlers, operations, start and end.                  *)
MPI_Attr_delete   == <<check_comm("comm"), check_keyval("keyval"), Fxn({"OTHER"})>>
MPI_Attr_get      == <<check_comm("comm"), check_keyval("keyval"), Fxn({"OTHER"})>>
MPI_Attr_put      == <<check_comm("comm"), check_keyval("keyval"), Fxn({"OTHER"})>>
MPI_Keyval_create == <<Fxn({"OTHER"})>>
MPI_Keyval_free   == <<check_keyval("keyval"), Fxn({"OTHER"})>>

MPI_Errhandler_create == <<Fxn({"INTERN"})>>
MPI_Errhandler_free   == <<check_errhandler("errhandler"), Fxn({"INTERN"})>>
MPI_Errhandler_get    == <<check_comm("comm"), Fxn({"ARG"})>>
MPI_Errhandler_set    == <<check_comm("comm"), Fxn({"ARG"})>>

MPI_Op_create == <<Fxn({"OP"})>>
MPI_Op_free   == <<Fxn({"OP"})>>

MPI_Abort    == <<check_comm("comm")>>
MPI_Finalize == <<ChkOff, Up, Nest("MPI_Barrier", None), Down, ChkOn>>
----------------------------------------------------------------------------
(* Groups.                                                                 *)
TwoGroups == <<check_group("group1"), check_group("group2")>>
CompareGroups == Nest("MPI_Group_compare", [group1 |-> "group1", group2 |-> "group2"])

MPI_Group_compare == TwoGroups
MPI_Group_rank    == <<check_group("group")>>
MPI_Group_size    == <<check_group("group")>>
MPI_Group_free    == <<check_group("group"), Fxn({"GROUP"})>>
MPI_Group_union   == TwoGroups \o <<Leave, Fxn({"INTERN", "GROUP"})>>
MPI_Group_incl    == <<check_group("group"), Leave, Fxn({"INTERN", "ARG"})>>
MPI_Group_excl ==
  <<check_group("group"), check_valid_ranks("group", "ranks"), Leave, Fxn({"INTERN", "ARG"})>>
MPI_Group_range_incl ==
  <<check_group("group"), check_valid_ranges("group", "ranges"), Leave, Fxn({"INTERN", "ARG"})>>
MPI_Group_range_excl ==
  <<check_group("group"), check_valid_ranges("group", "ranges"), Fxn({"INTERN"}), Leave,
    Fxn({"ARG"})>>
MPI_Group_translate_ranks == TwoGroups \o <<check_valid_ranks("group1", "ranks")>>

(* A failed malloc leaves by the label that does not lower the level.      *)
MPI_Group_difference ==
  TwoGroups \o <<Leave, Up, CompareGroups, LeaveDown, Slip("INTERN"), Fxn({"GROUP"}), Down>>
MPI_Group_intersection ==
  TwoGroups \o <<Leave, Up, CompareGroups, LeaveDown, Slip("INTERN"), Fxn({"GROUP"}), Down>>
----------------------------------------------------------------------------
(* Communicators.                                                          *)
MPI_Comm_rank  == <<ChkOff, check_comm("comm"), ChkOn>>
MPI_Comm_size  == <<check_comm("comm")>>
MPI_Comm_group == <<check_comm("comm")>>
MPI_Comm_test_inter   == <<check_comm("comm")>>
MPI_Comm_remote_group == CommChecks
MPI_Comm_remote_size  == CommChecks

MPI_Comm_compare ==
  <<check_comm("comm1"), check_comm("comm2"), Leave, Up, Nest("MPI_Group_compare", None),
    LeaveDown, Maybe(<<Nest("MPI_Group_compare", None)>>), Down>>

MPI_Comm_create ==
  CommChecks \o <<check_group("group"), Up, Nest("MPI_Allreduce", On("comm")), LeaveDown,
                   Fxn({"COMM", "OTHER"}), Down>>

BetweenLeaders(comm) == Maybe(<<Nest("MPI_Sendrecv", comm)>>)

MPI_Comm_dup ==
  <<check_comm("comm"), Up,
    OneOf(<<<<Nest("MPI_Allreduce", On("comm")), Fxn({"RANK", "COMM"})>>,
            <<Nest("MPI_Comm_group", On("comm")), Nest("MPI_Comm_create", None),
              Nest("MPI_Allreduce", None), Nest("MPI_Comm_rank", On("comm")),
              BetweenLeaders(On("comm")), Nest("MPI_Bcast", None),
              Nest("MPI_Group_free", None), Nest("MPI_Comm_free", None), Fxn({"COMM"})>>>>),
    Fxn({"OTHER", "TOPOLOGY"}), Down>>

MPI_Comm_free == <<LeaveIf("comm", {"null"}), check_comm("comm"), Fxn({"OTHER", "INTERN"})>>

MPI_Comm_split ==
  CommChecks \o <<Up, Fxn({"INTERN"}), Nest("MPI_Allgather", On("comm")), Maybe(<<Fxn({"INTERN"})>>),
                   Nest("MPI_Allreduce", On("comm")), LeaveDown, Fxn({"COMM", "OTHER"}), Down>>

MPI_Intercomm_create ==
  LET toRemote ==
        Nest("MPI_Sendrecv", [comm |-> "peer_comm", dest |-> "remote_leader",
                              source |-> "remote_leader", sendtag |-> "tag", recvtag |-> "tag"])
      toLocal == Nest("MPI_Bcast", [comm |-> "comm", root |-> "local_leader"])
      Exchange(leads) == (IF leads THEN <<toRemote>> ELSE <<>>)
      Rest(leads) ==
        (IF leads THEN <<check_comm("peer_comm"), check_rank_comm("remote_leader", "peer_comm")>>
                  ELSE <<>>)
        \o <<Up, Fxn({"INTERN"}), Nest("MPI_Allreduce", On("comm"))>>
        \o Exchange(leads) \o <<toLocal>> \o Exchange(leads) \o <<toLocal, Fxn({"INTERN"})>>
        \o Exchange(leads) \o (IF leads THEN <<Late(check_disjoint("members"))>> ELSE <<>>)
        \o <<toLocal, Fxn({"GROUP", "COMM", "OTHER"}), Down>>
  IN  CommChecks \o <<check_tag("tag"), check_rank_comm("local_leader", "comm"),
                      check_group_of("comm"), OneOf(<<Rest(TRUE), Rest(FALSE)>>)>>

(* The results of the last two steps, the new communicator and its         *)
(* attributes, are not looked at.                                          *)
MPI_Intercomm_merge ==
  LET on == On("comm")
  IN  CommChecks \o
      <<Up, Nest("MPI_Comm_group", on), Nest("MPI_Comm_create", None), Nest("MPI_Comm_size", None),
        Nest("MPI_Allreduce", None), Nest("MPI_Comm_rank", on), BetweenLeaders(on),
        BetweenLeaders(on), Nest("MPI_Bcast", None), Nest("MPI_Allreduce", None),
        BetweenLeaders(on), Nest("MPI_Bcast", None), Nest("MPI_Group_free", None),
        Nest("MPI_Comm_free", None), Nest("MPI_Comm_group", on),
        Nest("MPI_Comm_remote_group", on), Nest("MPI_Comm_size", on),
        Nest("MPI_Comm_remote_size", on), Nest("MPI_Group_union", None), Down>>
----------------------------------------------------------------------------
(* Topologies.                                                             *)
CartChecks == CommChecks \o <<check_topo_type("comm")>>
NdimsChecks == CommChecks \o <<check_ndims("ndims")>>
OwnRank == check_rank_comm("own rank", "comm")

MPI_Cart_coords  == NdimsChecks \o <<check_topo_type("comm"), Fxn({"TOPOLOGY"})>>
MPI_Cart_get     == NdimsChecks \o <<check_topo_type("comm"), Fxn({"TOPOLOGY"})>>
MPI_Cart_map     == NdimsChecks \o <<OwnRank, Fxn({"TOPOLOGY"})>>
MPI_Cart_rank    == CartChecks \o <<Fxn({"TOPOLOGY"})>>
MPI_Cart_shift   == NdimsChecks \o <<check_topo_type("comm"), OwnRank, Fxn({"TOPOLOGY"})>>
MPI_Cartdim_get  == CartChecks \o <<check_ndims("own ndims")>>
MPI_Graph_get    ==
  CommChecks \o <<check_dims_graph("nodes"), check_topo_type("comm"), Fxn({"TOPOLOGY"})>>
MPI_Graph_map    == CommChecks \o <<OwnRank, Fxn({"TOPOLOGY"})>>
MPI_Graph_neighbors ==
  CartChecks \o <<check_rank_comm("rank", "comm"), Fxn({"TOPOLOGY"})>>
MPI_Graph_neighbors_count ==
  CartChecks \o <<check_rank_comm("rank", "comm"), Fxn({"TOPOLOGY"})>>
MPI_Graphdims_get == CartChecks \o <<Fxn({"DIMS"}), check_dims_graph("own nodes")>>
MPI_Topo_test    == <<check_comm("comm"), Fxn({"TOPOLOGY"})>>

(* Lowered before the new topology is made, and again if that fails.       *)
MPI_Cart_sub ==
  CartChecks \o <<Up, Nest("MPI_Comm_split", On("comm")), Down, Fxn({"TOPOLOGY"})>>

(* Reordered, the topology's communicator is split off; otherwise it is    *)
(* made as MPI_Comm_create makes one.                                      *)
Created(failure) ==
  <<Up,
    OneOf(<<<<Fxn({"TOPOLOGY"}), Nest("MPI_Comm_split", On("comm")), LeaveDown>>,
            <<Maybe(<<Fxn(failure)>>), Nest("MPI_Allreduce", On("comm")), LeaveDown,
              Fxn({"COMM"})>>>>),
    Fxn({"TOPOLOGY"}), Down>>

MPI_Cart_create ==
  NdimsChecks \o <<OwnRank, check_group_of("comm"), Check("dims", {"bad"}, "INTERN", {})>>
              \o Created({"INTERN", "ARG"})
MPI_Graph_create ==
  CommChecks \o <<OwnRank, check_group_of("comm"), Check("nodes", {"bad"}, "ARG", {})>>
             \o Created({"INTERN", "ARG"})

MPI_Dims_create ==
  <<check_ndims("ndims"), check_count("count"), check_pointer("dims", "ARG"), check_dims("dims"),
    Fxn({"DIMS"})>>
----------------------------------------------------------------------------
(* Datatypes.                                                              *)
MadeOf == <<check_datatype("oldtype"), Fxn({"TYPE"})>>

MPI_Type_contiguous == MadeOf
MPI_Type_vector     == MadeOf
MPI_Type_hvector    == MadeOf
MPI_Type_indexed    == MadeOf
MPI_Type_hindexed   == MadeOf
MPI_Type_struct     == MadeOf
MPI_Type_commit     == <<check_dtype_alloc("datatype"), Fxn({"TYPE"})>>
MPI_Type_free       == <<check_datatype("datatype"), Fxn({"TYPE"})>>
MPI_Type_extent     == <<check_datatype("datatype")>>
MPI_Type_size       == <<check_datatype("datatype")>>
MPI_Type_lb         == <<check_datatype("datatype")>>
MPI_Type_ub         == <<check_datatype("datatype")>>
MPI_Get_count       == <<check_status("status"), check_datatype("datatype")>>
MPI_Get_elements    == <<check_status("status"), check_datatype("datatype")>>

PackChecks == <<check_comm("comm"), check_datatype("datatype"), check_dtype_commit("datatype")>>
MPI_Pack      == PackChecks \o <<Fxn({"BUFFER", "INTERN"})>>
MPI_Unpack    == PackChecks \o <<Fxn({"BUFFER", "INTERN"})>>

(* A size of zero or less is reported with whatever mpi_errno holds.       *)
MPI_Pack_size == PackChecks \o <<Slip("not set")>>
----------------------------------------------------------------------------
(* Point to point.                                                         *)
SendChecks ==
  <<LeaveIf("dest", {"no process"}), check_comm("comm"), check_tag("tag"), check_group_of("comm"),
    check_dest("dest", "comm"), check_count("count"), check_datatype("datatype"),
    check_dtype_commit("datatype")>>
RecvChecks ==
  <<LeaveIf("source", {"no process"}), check_comm("comm"), check_tag("tag"),
    check_group_of("comm"), check_source("source", "comm"), check_count("count"),
    check_datatype("datatype"), check_dtype_commit("datatype")>>
ProbeChecks ==
  <<LeaveIf("source", {"no process"}), check_comm("comm"), check_group_of("comm"),
    check_tag("tag"), check_source("source", "comm")>>

MPI_Send       == SendChecks \o <<ChkOff, Fxn({"INTERN"}), ChkOn>>
MPI_Ssend      == SendChecks \o <<Fxn({"INTERN"})>>
MPI_Rsend      == SendChecks \o <<Fxn({"INTERN"})>>
MPI_Isend      == SendChecks \o <<Fxn({"REQUEST", "INTERN"})>>
MPI_Issend     == SendChecks \o <<Fxn({"REQUEST", "INTERN"})>>
MPI_Irsend     == SendChecks \o <<Fxn({"REQUEST", "INTERN"})>>
MPI_Send_init  == SendChecks \o <<Fxn({"REQUEST", "INTERN"})>>
MPI_Ssend_init == SendChecks \o <<Fxn({"REQUEST", "INTERN"})>>
MPI_Rsend_init == SendChecks \o <<Fxn({"REQUEST", "INTERN"})>>
MPI_Bsend      == SendChecks \o <<Fxn({"BUFFER", "INTERN"})>>
MPI_Ibsend     == SendChecks \o <<Fxn({"BUFFER", "INTERN"})>>
MPI_Bsend_init == SendChecks \o <<Fxn({"BUFFER", "INTERN"})>>
MPI_Recv       == RecvChecks \o <<Fxn({"INTERN"})>>
MPI_Irecv      == RecvChecks \o <<Fxn({"REQUEST", "INTERN"})>>
MPI_Recv_init  == RecvChecks \o <<Fxn({"REQUEST", "INTERN"})>>
MPI_Probe      == ProbeChecks \o <<Fxn({"INTERN"})>>
MPI_Iprobe     == ProbeChecks \o <<Fxn({"INTERN"})>>
MPI_Buffer_attach == <<Check("size", {"bad"}, "ARG", {}), Fxn({"BUFFER"})>>
MPI_Buffer_detach == <<Fxn({"INTERN"})>>

(* A receive, a send and the wait for the receive.  If the source is no    *)
(* process, there is no request to wait for, and only a program that wants *)
(* the status is spared the wait.                                          *)
Exchanged(recvtype, recvcount, sendtype, sendcount) ==
  <<Nest("MPI_Irecv", [comm |-> "comm", datatype |-> recvtype, count |-> recvcount,
                       source |-> "source", tag |-> "recvtag"]),
    Nest("MPI_Send", [comm |-> "comm", datatype |-> sendtype, count |-> sendcount,
                      dest |-> "dest", tag |-> "sendtag"]),
    OneOf(<<<<Nest("MPI_Wait", [partner |-> "source"])>>,
            <<OnlyIf("source", {"no process"})>>>>)>>
ExchangeChecks ==
  <<check_comm("comm"), check_tag("sendtag"), check_tag("recvtag"),
    check_dest_comm("dest", "comm"), check_source_comm("source", "comm")>>

MPI_Sendrecv ==
  ExchangeChecks
  \o <<check_count("sendcount"), check_count("recvcount"), check_datatype("sendtype"),
       check_datatype("recvtype"), Up>>
  \o Exchanged("recvtype", "recvcount", "sendtype", "sendcount") \o <<Down>>
MPI_Sendrecv_replace ==
  ExchangeChecks
  \o <<check_count("count"), check_datatype("datatype"), check_pointer("buf", "BUFFER"), Up,
       Fxn({"INTERN"})>>
  \o Exchanged("datatype", "count", "datatype", "count") \o <<Down>>

MPI_Start == <<check_request("request"), Fxn({"INTERN", "BUFFER"})>>
(* Hands on the request, not its address: what is checked is another word. *)
MPI_Startall == <<Up, Maybe(<<Nest("MPI_Start", None)>>), Down>>

(* No request, and a request that is kept, leave the explorer's checks off.*)
MPI_Wait ==
  <<ChkOff, LeaveIf("request", {"null"}), LeaveIf("partner", {"no process"}), Fxn({"INTERN"}),
    LeaveIf("request", {"persistent", "cancelled"}), Fxn({"REQUEST"}), ChkOn>>
MPI_Test     == <<LeaveIf("request", {"null"}), Fxn({"INTERN"}), Leave, Fxn({"REQUEST"})>>
MPI_Request_free ==
  <<LeaveIf("request", {"null"}), Maybe(<<Fxn({"INTERN"})>>), Leave, Fxn({"REQUEST"})>>
MPI_Cancel   == <<LeaveIf("request", {"null"}), Fxn({"INTERN"})>>
MPI_Waitall  ==
  <<check_request_nr("count"), check_pointer("requests", "ARG"),
    Fxn({"UNKNOWN", "REQUEST", "IN_STATUS"})>>
MPI_Waitany  ==
  <<check_request_nr("count"), check_pointer("requests", "ARG"), Fxn({"INTERN"}), Leave,
    Fxn({"REQUEST"})>>
MPI_Waitsome == <<check_request_nr("count"), Fxn({"UNKNOWN", "REQUEST", "IN_STATUS"})>>
MPI_Testall  == <<check_request_nr("count"), Fxn({"UNKNOWN", "INTERN", "REQUEST"})>>
MPI_Testany  == <<check_request_nr("count"), Fxn({"INTERN"}), Leave, Fxn({"REQUEST"})>>
MPI_Testsome == <<check_request_nr("count"), Fxn({"UNKNOWN", "INTERN"}), Leave, Fxn({"REQUEST"})>>
MPI_Test_cancelled == <<LeaveIf("status", {"null"})>>
----------------------------------------------------------------------------
(* Collectives.  The functions without MPI_ belong to one way to do them;  *)
(* those that end in their own commHandleError report by themselves.       *)
RootChecks == CommChecks \o <<check_dest_comm("root", "comm")>>
GroupChecks == CommChecks \o <<check_group_of("comm")>>

SendTo(type, count) ==
  Nest("MPI_Send", [comm |-> "comm", datatype |-> type, count |-> count, dest |-> "root"])
RecvAs(type, count) == Nest("MPI_Recv", [comm |-> "comm", datatype |-> type, count |-> count])
Unlooked(step) == Do(step.fn, step.bind)                \* a call whose result is dropped
Handed == [comm |-> "comm", datatype |-> "datatype", count |-> "count", root |-> "root", op |-> "op"]
GatherHanded ==
  [comm |-> "comm", sendtype |-> "sendtype", sendcount |-> "sendcount", recvtype |-> "recvtype",
   recvcount |-> "recvcount", root |-> "root"]
(* Acknowledgements to the root: empty messages, with no result looked at. *)
AckRoot == OneOf(<<<<Do("MPI_Recv", On("comm"))>>, <<Do("MPI_Send", On("comm"))>>>>)

dissemination_barrier == <<Leave, Up, Nest("MPI_Sendrecv", On("comm")), Down>>
mcc_barrier == <<Maybe(<<Do("dissemination_barrier", None)>>)>>
MPI_Barrier ==
  CommChecks \o <<OneOf(<<<<Do("mcc_barrier", None)>>, <<>>,
                          <<Do("dissemination_barrier", On("comm"))>>>>)>>

tree_bcast ==
  <<Up, Maybe(<<RecvAs("datatype", "count")>>), Maybe(<<SendTo("datatype", "count")>>), Down>>
net_bcast == <<Maybe(<<Do("tree_bcast", Handed)>>)>>
smp_broadCast_value ==
  <<Up, OneOf(<<<<Maybe(<<SendTo("datatype", "count")>>)>>, <<RecvAs("datatype", "count")>>>>), Down>>
smp_broadCast_reference == <<Do("smp_broadCast_value", On("comm")), AckRoot>>
smp_bcast ==
  <<OneOf(<<<<>>, <<Do("smp_broadCast_value", Handed)>>, <<Do("smp_broadCast_reference", Handed)>>,
            <<Do("tree_bcast", Handed)>>>>)>>
mcc_bcast ==
  <<Up, Nest("MPI_Comm_rank", On("comm")),
    OneOf(<<<<>>, <<SendTo("datatype", "count")>>, <<RecvAs("datatype", "count")>>>>),
    Maybe(<<Do("net_bcast", Handed)>>), Maybe(<<Do("smp_bcast", Handed)>>), Down>>
MPI_Bcast ==
  CommChecks
  \o <<check_datatype("datatype"), check_dtype_commit("datatype"), check_root("root", "comm"),
       check_count("count"), LeaveIf("count", {"zero"}),
       OneOf(<<<<Do("mcc_bcast", Handed)>>, <<Do("smp_bcast", Handed)>>,
               <<Do("net_bcast", Handed)>>>>)>>

copyData ==
  <<Leave, Nest("MPI_Irecv", [comm |-> "comm", datatype |-> "datatype", count |-> "count"]),
    SendTo("datatype", "count"), Nest("MPI_Wait", None)>>
lin_reduce ==
  <<Up, OneOf(<<<<Fxn({"INTERN"}), Maybe(<<Do("copyData", Handed)>>),
                  Maybe(<<RecvAs("datatype", "count")>>)>>,
                <<SendTo("datatype", "count")>>>>), Down>>
smp_reduce_reference == <<Do("MPI_Bcast", [comm |-> "comm", root |-> "root"]), AckRoot>>
mcc_reduce ==
  <<Up, Nest("MPI_Comm_rank", On("comm")), Maybe(<<Do("smp_reduce_reference", Handed)>>),
    Maybe(<<Do("lin_reduce", Handed)>>), Down>>
(* A count of zero leaves the explorer's checks off.                       *)
MPI_Reduce ==
  <<ChkOff>> \o RootChecks
  \o <<check_count("count"), check_datatype("datatype"), check_dtype_commit("datatype"),
       check_ops("op"), LeaveIf("count", {"zero"}),
       OneOf(<<<<Do("mcc_reduce", Handed)>>, <<Do("smp_reduce_reference", Handed)>>,
               <<Do("lin_reduce", Handed)>>>>), ChkOn>>
MPI_Allreduce ==
  LET args == [comm |-> "comm", datatype |-> "datatype", count |-> "count", op |-> "op"]
  IN  <<ChkOff, Up, Nest("MPI_Reduce", args), Nest("MPI_Bcast", args), Down, ChkOn>>

(* What the root checks and does with what it receives, or sends.          *)
RootOnly(type, count) ==
  <<Late(check_count(count)), Late(check_datatype(type)), Late(check_dtype_commit(type)),
    Late(check_root("root", "comm"))>>
GatheredTo(type, count, checks) ==
  <<Up, OneOf(<<checks \o <<Nest("MPI_Irecv", On("comm")), Maybe(<<RecvAs(type, count)>>),
                            SendTo("sendtype", "sendcount"), Nest("MPI_Wait", None)>>,
                <<SendTo("sendtype", "sendcount")>>>>), Down>>
ScatteredFrom(type, count, checks) ==
  LET own == RecvAs("recvtype", "recvcount")
  IN  <<Up, OneOf(<<checks \o <<Nest("MPI_Isend", [comm |-> "comm", datatype |-> type,
                                                   count |-> count]),
                                Maybe(<<SendTo(type, count)>>), own, Nest("MPI_Wait", None)>>,
                    <<own>>>>), Down>>
OwnSide(type, count) ==
  GroupChecks \o <<check_count(count), check_datatype(type), check_dtype_commit(type)>>

net_gather ==
  OwnSide("sendtype", "sendcount")
  \o GatheredTo("recvtype", "recvcount", RootOnly("recvtype", "recvcount"))
MPI_Gather_orig == net_gather
MPI_Gatherv ==
  OwnSide("sendtype", "sendcount")
  \o GatheredTo("recvtype", "recvcounts",
                <<Late(check_root("root", "comm")), Late(check_count("recvcounts")),
                  Late(check_datatype("recvtype")), Late(check_dtype_commit("recvtype"))>>)
smp_gather_value ==
  <<OneOf(<<<<Unlooked(RecvAs("recvtype", "recvcount"))>>,
            <<Unlooked(SendTo("sendtype", "sendcount"))>>>>)>>
smp_gather_reference == <<AckRoot>>
smp_gather ==
  <<OneOf(<<<<Do("smp_gather_value", GatherHanded)>>, <<Do("smp_gather_reference", GatherHanded)>>>>)>>
mcc_gather == <<Refuse("minus one")>>                   \* return -1, whatever follows
TwoSided(mcc, smp, net) ==
  RootChecks
  \o <<check_count("sendcount"), check_count("recvcount"), check_datatype("sendtype"),
       check_datatype("recvtype"), LeaveIf("sendcount", {"zero"}),
       OneOf(<<<<Do(mcc, GatherHanded)>>, <<Do(smp, GatherHanded)>>, <<Do(net, GatherHanded)>>>>)>>
MPI_Gather == TwoSided("mcc_gather", "smp_gather", "net_gather")
smp_scatter_reference == <<Do("MPI_Bcast", [comm |-> "comm", root |-> "root"]), AckRoot>>
net_scatter ==
  OwnSide("recvtype", "recvcount")
  \o ScatteredFrom("sendtype", "sendcount", RootOnly("sendtype", "sendcount"))
mcc_scatter ==
  <<Up, Nest("MPI_Comm_rank", On("comm")), Maybe(<<Do("smp_scatter_reference", GatherHanded)>>),
    Maybe(<<Do("net_scatter", GatherHanded)>>), Down>>
MPI_Scatter == TwoSided("mcc_scatter", "smp_scatter_reference", "net_scatter")
MPI_Scatterv ==
  OwnSide("recvtype", "recvcount")
  \o ScatteredFrom("sendtype", "sendcounts",
                   <<Late(check_datatype("sendtype")), Late(check_dtype_commit("sendtype")),
                     Late(check_root("root", "comm")), Late(check_count("sendcounts"))>>)

BothSides == TypeChecks(<<"sendtype", "recvtype">>) \o CommitChecks(<<"sendtype", "recvtype">>)
ExchangedByAll(sendcount, recvcount) ==
  <<Up, Nest("MPI_Sendrecv", [comm |-> "comm", sendtype |-> "sendtype", recvtype |-> "recvtype",
                              sendcount |-> sendcount, recvcount |-> recvcount]), Down>>

MPI_Allgather ==
  GroupChecks \o <<check_count("sendcount"), check_count("recvcount")>> \o BothSides
              \o <<Up, Nest("MPI_Gather", GatherHanded), Down>>
MPI_Allgatherv ==
  GroupChecks \o <<check_count("sendcount")>> \o BothSides
              \o <<Up, Nest("MPI_Gatherv", [comm |-> "comm", sendtype |-> "sendtype",
                                            sendcount |-> "sendcount", recvtype |-> "recvtype",
                                            recvcounts |-> "recvcounts"]), Down>>
MPI_Alltoall ==
  GroupChecks \o <<check_count("sendcount"), check_count("recvcount")>> \o BothSides
              \o <<LeaveIf("sendcount", {"zero"})>> \o ExchangedByAll("sendcount", "recvcount")
MPI_Alltoallv ==
  GroupChecks \o BothSides \o <<check_count("sendcounts"), check_count("recvcounts")>>
              \o ExchangedByAll("sendcounts", "recvcounts")
MPI_Reduce_scatter ==
  LET args == [comm |-> "comm", datatype |-> "datatype", op |-> "op"]
  IN  CommChecks
      \o <<check_datatype("datatype"), check_dtype_commit("datatype"), check_count("recvcounts"),
           Up, Fxn({"INTERN"}), Nest("MPI_Reduce", args), Nest("MPI_Scatterv", On("comm")), Down>>
MPI_Scan ==
  LET own == <<Nest("MPI_Irecv", On("comm")), SendTo("datatype", "count"), Nest("MPI_Wait", None)>>
      recv == RecvAs("datatype", "count")
  IN  OwnSide("datatype", "count")
      \o <<Up, Fxn({"INTERN"}),
           OneOf(<<<<OneOf(<<own, <<recv>>>>), Maybe(<<recv>>), Maybe(own)>>,
                   <<SendTo("datatype", "count")>>>>), Down>>
----------------------------------------------------------------------------
Entries ==
  [MPI_Attr_delete |-> MPI_Attr_delete, MPI_Attr_get |-> MPI_Attr_get,
   MPI_Attr_put |-> MPI_Attr_put, MPI_Keyval_create |-> MPI_Keyval_create,
   MPI_Keyval_free |-> MPI_Keyval_free, MPI_Errhandler_create |-> MPI_Errhandler_create,
   MPI_Errhandler_free |-> MPI_Errhandler_free, MPI_Errhandler_get |-> MPI_Errhandler_get,
   MPI_Errhandler_set |-> MPI_Errhandler_set, MPI_Op_create |-> MPI_Op_create,
   MPI_Op_free |-> MPI_Op_free, MPI_Abort |-> MPI_Abort, MPI_Finalize |-> MPI_Finalize,
   MPI_Group_compare |-> MPI_Group_compare, MPI_Group_rank |-> MPI_Group_rank,
   MPI_Group_size |-> MPI_Group_size, MPI_Group_free |-> MPI_Group_free,
   MPI_Group_union |-> MPI_Group_union, MPI_Group_incl |-> MPI_Group_incl,
   MPI_Group_excl |-> MPI_Group_excl, MPI_Group_range_incl |-> MPI_Group_range_incl,
   MPI_Group_range_excl |-> MPI_Group_range_excl,
   MPI_Group_translate_ranks |-> MPI_Group_translate_ranks,
   MPI_Group_difference |-> MPI_Group_difference, MPI_Group_intersection |-> MPI_Group_intersection,
   MPI_Comm_rank |-> MPI_Comm_rank, MPI_Comm_size |-> MPI_Comm_size,
   MPI_Comm_group |-> MPI_Comm_group, MPI_Comm_test_inter |-> MPI_Comm_test_inter,
   MPI_Comm_remote_group |-> MPI_Comm_remote_group, MPI_Comm_remote_size |-> MPI_Comm_remote_size,
   MPI_Comm_compare |-> MPI_Comm_compare, MPI_Comm_create |-> MPI_Comm_create,
   MPI_Comm_dup |-> MPI_Comm_dup, MPI_Comm_free |-> MPI_Comm_free,
   MPI_Comm_split |-> MPI_Comm_split, MPI_Intercomm_create |-> MPI_Intercomm_create,
   MPI_Intercomm_merge |-> MPI_Intercomm_merge, MPI_Cart_coords |-> MPI_Cart_coords,
   MPI_Cart_get |-> MPI_Cart_get, MPI_Cart_map |-> MPI_Cart_map, MPI_Cart_rank |-> MPI_Cart_rank,
   MPI_Cart_shift |-> MPI_Cart_shift, MPI_Cartdim_get |-> MPI_Cartdim_get,
   MPI_Graph_get |-> MPI_Graph_get, MPI_Graph_map |-> MPI_Graph_map,
   MPI_Graph_neighbors |-> MPI_Graph_neighbors,
   MPI_Graph_neighbors_count |-> MPI_Graph_neighbors_count, MPI_Graphdims_get |-> MPI_Graphdims_get,
   MPI_Topo_test |-> MPI_Topo_test, MPI_Cart_sub |-> MPI_Cart_sub,
   MPI_Cart_create |-> MPI_Cart_create, MPI_Graph_create |-> MPI_Graph_create,
   MPI_Dims_create |-> MPI_Dims_create, MPI_Type_contiguous |-> MPI_Type_contiguous,
   MPI_Type_vector |-> MPI_Type_vector, MPI_Type_hvector |-> MPI_Type_hvector,
   MPI_Type_indexed |-> MPI_Type_indexed, MPI_Type_hindexed |-> MPI_Type_hindexed,
   MPI_Type_struct |-> MPI_Type_struct, MPI_Type_commit |-> MPI_Type_commit,
   MPI_Type_free |-> MPI_Type_free, MPI_Type_extent |-> MPI_Type_extent,
   MPI_Type_size |-> MPI_Type_size, MPI_Type_lb |-> MPI_Type_lb, MPI_Type_ub |-> MPI_Type_ub,
   MPI_Get_count |-> MPI_Get_count, MPI_Get_elements |-> MPI_Get_elements, MPI_Pack |-> MPI_Pack,
   MPI_Unpack |-> MPI_Unpack, MPI_Pack_size |-> MPI_Pack_size, MPI_Send |-> MPI_Send,
   MPI_Ssend |-> MPI_Ssend, MPI_Rsend |-> MPI_Rsend, MPI_Isend |-> MPI_Isend,
   MPI_Issend |-> MPI_Issend, MPI_Irsend |-> MPI_Irsend, MPI_Send_init |-> MPI_Send_init,
   MPI_Ssend_init |-> MPI_Ssend_init, MPI_Rsend_init |-> MPI_Rsend_init, MPI_Bsend |-> MPI_Bsend,
   MPI_Ibsend |-> MPI_Ibsend, MPI_Bsend_init |-> MPI_Bsend_init, MPI_Recv |-> MPI_Recv,
   MPI_Irecv |-> MPI_Irecv, MPI_Recv_init |-> MPI_Recv_init, MPI_Probe |-> MPI_Probe,
   MPI_Iprobe |-> MPI_Iprobe, MPI_Buffer_attach |-> MPI_Buffer_attach,
   MPI_Buffer_detach |-> MPI_Buffer_detach, MPI_Sendrecv |-> MPI_Sendrecv,
   MPI_Sendrecv_replace |-> MPI_Sendrecv_replace, MPI_Start |-> MPI_Start,
   MPI_Startall |-> MPI_Startall, MPI_Wait |-> MPI_Wait, MPI_Test |-> MPI_Test,
   MPI_Request_free |-> MPI_Request_free, MPI_Cancel |-> MPI_Cancel, MPI_Waitall |-> MPI_Waitall,
   MPI_Waitany |-> MPI_Waitany, MPI_Waitsome |-> MPI_Waitsome, MPI_Testall |-> MPI_Testall,
   MPI_Testany |-> MPI_Testany, MPI_Testsome |-> MPI_Testsome,
   MPI_Test_cancelled |-> MPI_Test_cancelled, dissemination_barrier |-> dissemination_barrier,
   mcc_barrier |-> mcc_barrier, MPI_Barrier |-> MPI_Barrier, tree_bcast |-> tree_bcast,
   net_bcast |-> net_bcast, smp_broadCast_value |-> smp_broadCast_value,
   smp_broadCast_reference |-> smp_broadCast_reference, smp_bcast |-> smp_bcast,
   mcc_bcast |-> mcc_bcast, MPI_Bcast |-> MPI_Bcast, copyData |-> copyData,
   lin_reduce |-> lin_reduce, smp_reduce_reference |-> smp_reduce_reference,
   mcc_reduce |-> mcc_reduce, MPI_Reduce |-> MPI_Reduce, MPI_Allreduce |-> MPI_Allreduce,
   net_gather |-> net_gather, MPI_Gather_orig |-> MPI_Gather_orig, MPI_Gatherv |-> MPI_Gatherv,
   smp_gather_value |-> smp_gather_value, smp_gather_reference |-> smp_gather_reference,
   smp_gather |-> smp_gather, mcc_gather |-> mcc_gather, MPI_Gather |-> MPI_Gather,
   smp_scatter_reference |-> smp_scatter_reference, net_scatter |-> net_scatter,
   mcc_scatter |-> mcc_scatter, MPI_Scatter |-> MPI_Scatter, MPI_Scatterv |-> MPI_Scatterv,
   MPI_Allgather |-> MPI_Allgather, MPI_Allgatherv |-> MPI_Allgatherv,
   MPI_Alltoall |-> MPI_Alltoall, MPI_Alltoallv |-> MPI_Alltoallv,
   MPI_Reduce_scatter |-> MPI_Reduce_scatter, MPI_Scan |-> MPI_Scan]

(* The functions of one way to do a collective, and those a program calls. *)
Inner ==
  {"dissemination_barrier", "mcc_barrier", "tree_bcast", "net_bcast", "smp_broadCast_value",
   "smp_broadCast_reference", "smp_bcast", "mcc_bcast", "copyData", "lin_reduce",
   "smp_reduce_reference", "mcc_reduce", "net_gather", "smp_gather_value", "smp_gather_reference",
   "smp_gather", "mcc_gather", "smp_scatter_reference", "net_scatter", "mcc_scatter"}
Interface == DOMAIN Entries \ Inner
============================================================================
