---------------------------- MODULE EbpfSyscalls ----------------------------
(***************************************************************************)
(* The system calls ActionAddeBPFSyscall::apply registers, in its order:   *)
(* the name without its prefix bpf_, the number, and how many parameters   *)
(* the call has.  The types of the parameters are left out.                *)
(***************************************************************************)
EXTENDS Naturals, Sequences

CallsOne == <<
    <<"unspec", 0, 0>>, <<"map_lookup_elem", 1, 2>>,
    <<"map_update_elem", 3, 4>>, <<"probe_read", 4, 3>>,
    <<"ktime_get_ns", 5, 0>>, <<"trace_printk", 6, 2>>,
    <<"get_prandom_u32", 7, 0>>, <<"get_smp_processor_id", 8, 0>>,
    <<"skb_store_bytes", 9, 5>>, <<"l3_csum_replace", 10, 5>>,
    <<"l4_csum_replace", 11, 5>>, <<"tail_call", 12, 3>>,
    <<"clone_redirect", 13, 3>>, <<"get_current_pid_tgid", 14, 0>>,
    <<"get_current_uid_gid", 15, 0>>, <<"get_current_comm", 16, 2>>,
    <<"get_cgroup_classid", 17, 1>>, <<"skb_vlan_push", 18, 3>>,
    <<"skb_vlan_pop", 19, 1>>, <<"skb_get_tunnel_key", 20, 4>>,
    <<"skb_set_tunnel_key", 21, 4>>, <<"perf_event_read", 22, 2>> >>

CallsTwo == <<
    <<"redirect", 23, 2>>, <<"get_route_realm", 24, 1>>,
    <<"perf_event_output", 25, 5>>, <<"perf_event_output", 26, 5>>,
    <<"get_stackid", 27, 3>>, <<"csum_diff", 28, 5>>,
    <<"skb_get_tunnel_opt", 29, 3>>, <<"skb_set_tunnel_opt", 30, 3>>,
    <<"skb_change_proto", 31, 3>>, <<"skb_change_type", 32, 2>>,
    <<"skb_under_cgroup", 33, 3>>, <<"get_hash_recalc", 34, 1>>,
    <<"get_current_task", 35, 0>>, <<"probe_write_user", 36, 3>>,
    <<"current_task_under_cgroup", 37, 2>>, <<"skb_change_tail", 38, 3>>,
    <<"skb_pull_data", 39, 2>>, <<"csum_update", 40, 2>>,
    <<"set_hash_invalid", 41, 1>>, <<"get_numa_node_id", 42, 0>> >>

CallsThree == <<
    <<"skb_change_head", 43, 3>>, <<"xdp_adjust_head", 44, 2>>,
    <<"probe_read_str", 44, 3>>, <<"get_socket_cookie", 45, 1>>,
    <<"get_socket_cookie", 46, 1>>, <<"get_socket_cookie", 47, 1>>,
    <<"get_socket_uid", 47, 1>>, <<"set_hash", 48, 2>>,
    <<"setsockopt", 49, 5>>, <<"skb_adjust_room", 50, 4>>,
    <<"redirect_map", 51, 3>>, <<"sk_redirect_map", 52, 4>>,
    <<"sock_map_update", 53, 4>>, <<"xdp_adjust_meta", 54, 2>>,
    <<"perf_event_read_value", 55, 4>>, <<"perf_prog_read_value", 56, 3>>,
    <<"getsockopt", 57, 5>>, <<"override_return", 58, 2>>,
    <<"sock_ops_cb_flags_set", 59, 2>> >>

CallsFour == <<
    <<"msg_redirect_map", 60, 4>>, <<"msg_apply_bytes", 61, 2>>,
    <<"msg_cork_bytes", 62, 2>>, <<"msg_pull_data", 63, 4>>, <<"bind", 64, 3>>,
    <<"xdp_adjust_tail", 65, 2>>, <<"skb_get_xfrm_state", 66, 5>>,
    <<"get_stack", 67, 4>>, <<"skb_load_bytes_relative", 68, 5>>,
    <<"fib_lookup", 69, 4>>, <<"sock_hash_update", 70, 4>>,
    <<"msg_redirect_hash", 71, 4>>, <<"sk_redirect_hash", 72, 4>>,
    <<"lwt_push_encap", 73, 4>>, <<"lwt_seg6_store_bytes", 74, 4>>,
    <<"lwt_seg6_adjust_srh", 75, 3>>, <<"lwt_seg6_action", 76, 4>> >>

CallsFive == <<
    <<"rc_repeat", 77, 1>>, <<"rc_repeat", 78, 4>>, <<"skb_cgroup_id", 79, 1>>,
    <<"get_current_cgroup_id", 80, 0>>, <<"get_local_storage", 81, 2>>,
    <<"sk_select_reuseport", 82, 4>>, <<"skb_ancestor_cgroup_id", 83, 2>>,
    <<"sk_lookup_tcp", 84, 5>>, <<"sk_lookup_udp", 85, 5>>,
    <<"sk_release", 86, 1>>, <<"map_push_elem", 87, 3>>,
    <<"map_pop_elem", 88, 2>>, <<"map_peek_elem", 89, 2>>,
    <<"msg_push_data", 90, 4>>, <<"msg_pop_data", 91, 4>>,
    <<"rc_pointer_rel", 92, 3>>, <<"spin_lock", 93, 1>>,
    <<"spin_unlock", 94, 1>>, <<"sk_fullsock", 95, 1>>, <<"tcp_sock", 96, 1>> >>

CallsSix == <<
    <<"skb_ecn_set_ce", 97, 1>>, <<"get_listener_sock", 98, 1>>,
    <<"skc_lookup_tcp", 99, 5>>, <<"tcp_check_syncookie", 100, 5>>,
    <<"sysctl_get_name", 101, 4>>, <<"sysctl_get_current_value", 102, 3>>,
    <<"sysctl_get_new_value", 103, 3>>, <<"sysctl_set_new_value", 104, 3>>,
    <<"strtol", 105, 4>>, <<"strtoul", 106, 4>>, <<"sk_storage_get", 107, 4>>,
    <<"sk_storage_delete", 108, 2>>, <<"send_signal", 109, 1>>,
    <<"tcp_gen_syncookie", 110, 5>>, <<"skb_output", 111, 5>>,
    <<"probe_read_user", 112, 3>>, <<"probe_read_kernel", 113, 3>>,
    <<"probe_read_user_str", 114, 3>> >>

CallsSeven == <<
    <<"probe_read_kernel_str", 115, 3>>, <<"tcp_send_ack", 116, 2>>,
    <<"send_signal_thread", 117, 1>>, <<"jiffies64", 118, 0>>,
    <<"read_branch_records", 119, 4>>, <<"get_ns_current_pid_tgid", 120, 4>>,
    <<"xdp_output", 121, 5>>, <<"get_netns_cookie", 122, 1>>,
    <<"get_current_ancestor_cgroup_id", 123, 1>>, <<"sk_assign", 124, 3>>,
    <<"ktime_get_boot_ns", 125, 0>>, <<"seq_printf", 126, 5>>,
    <<"seq_write", 127, 3>>, <<"sk_cgroup_id", 128, 1>>,
    <<"sk_ancestor_cgroup_id", 129, 2>>, <<"ringbuf_output", 130, 4>>,
    <<"ringbuf_reserve", 131, 3>>, <<"ringbuf_submit", 132, 2>>,
    <<"ringbuf_discard", 133, 2>>, <<"ringbuf_query", 134, 2>> >>

CallsEight == <<
    <<"csum_level", 135, 2>>, <<"skc_to_tcp6_sock", 136, 1>>,
    <<"skc_to_tcp_sock", 137, 1>>, <<"skc_to_tcp_timewait_sock", 138, 1>>,
    <<"skc_to_tcp_request_sock", 139, 1>>, <<"skc_to_udp6_sock", 140, 1>>,
    <<"get_task_stack", 141, 4>>, <<"load_hdr_opt", 142, 4>>,
    <<"store_hdr_opt", 143, 4>>, <<"reserve_hdr_opt", 144, 3>>,
    <<"inode_storage_get", 145, 4>>, <<"inode_storage_delete", 146, 2>>,
    <<"d_path", 147, 3>>, <<"copy_from_user", 148, 3>>,
    <<"snprintf_btf", 149, 5>>, <<"seq_printf_btf", 150, 4>>,
    <<"skb_cgroup_classid", 151, 1>>, <<"redirect_neigh", 152, 4>>,
    <<"per_cpu_ptr", 153, 2>> >>

CallsNine == <<
    <<"this_cpu_ptr", 154, 1>>, <<"redirect_peer", 155, 2>>,
    <<"task_storage_get", 156, 4>>, <<"task_storage_delete", 157, 2>>,
    <<"get_current_task_btf", 158, 0>>, <<"bprm_opts_set", 159, 2>>,
    <<"ktime_get_coarse_ns", 160, 0>>, <<"ima_inode_hash", 161, 3>>,
    <<"sock_from_file", 162, 1>>, <<"check_mtu", 163, 5>>,
    <<"for_each_map_elem", 164, 4>>, <<"snprintf", 165, 5>> >>

Syscalls ==
    CallsOne \o CallsTwo \o CallsThree \o CallsFour \o CallsFive
        \o CallsSix \o CallsSeven \o CallsEight \o CallsNine

\* The comment above a registration, where it names another call.
Commented == [n \in {26, 78} |-> IF n = 26 THEN "skb_load_bytes" ELSE "rc_keydown"]

=============================================================================
