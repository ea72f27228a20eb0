------------------------------ MODULE Drivers ------------------------------
(***************************************************************************)
(* What the init and exit functions of the modules of src/ claim and give  *)
(* back, one script per module, and one per file system for its mounts,    *)
(* which are loaded and unloaded like a module.  A script has              *)
(*   init   the claims of the init function in order, each with what       *)
(*          becomes of the module when it fails and the resources its      *)
(*          error path gives back before that;                             *)
(*   exit   what the exit function gives back, in order;                   *)
(*   needs  the entry points others call as soon as they are claimed, each *)
(*          with the resources their code uses;                            *)
(*   opens  the entry points that processes open;                          *)
(*   pinned whether an open file or a mount keeps the module loaded        *)
(*          (.owner = THIS_MODULE);                                        *)
(*   deps   the modules whose functions it calls.                          *)
(***************************************************************************)
EXTENDS Sequences

\* A claim that, when it fails, ends in an error, after undo.
Need(r, undo) == [claim |-> r, fails |-> "error", undo |-> undo, own |-> FALSE]

\* A claim whose result nobody looks at: init goes on without it.
Try(r) == [claim |-> r, fails |-> "next", undo |-> <<>>, own |-> FALSE]

\* A claim that cannot fail.
Sure(r) == [claim |-> r, fails |-> "never", undo |-> <<>>, own |-> FALSE]

\* An initialisation inside the module's own memory, and a step that may fail
\* but leaves nothing to be given back.
Set(r) == [claim |-> r, fails |-> "never", undo |-> <<>>, own |-> TRUE]
Check(r, undo) == [claim |-> r, fails |-> "error", undo |-> undo, own |-> TRUE]

\* One whose failure kills the caller.
Crash(r) == [claim |-> r, fails |-> "oops", undo |-> <<>>, own |-> TRUE]

Entry(r, uses) == [entry |-> r, uses |-> uses]

-----------------------------------------------------------------------------
kbd_UndoTooMuch ==              \* mutant: goto out_unregister for goto out
  [ init |-> << Need("major_42", <<"major_42">>),
                Need("port_0x65", <<"major_42">>),
                Need("port_0x61", <<"port_0x65", "major_42">>),
                Set("kbd_buf_lock"),
                Need("irq_1", <<"port_0x65", "port_0x61", "major_42">>),
                Try("kbd_cdev") >>,
    exit |-> << "kbd_cdev", "irq_1", "port_0x65", "port_0x61", "major_42" >>,
    needs |-> { Entry("irq_1", {"kbd_buf_lock", "port_0x61"}),
                Entry("kbd_cdev", {"kbd_buf_lock"}) },
    opens |-> {"kbd_cdev"}, pinned |-> TRUE, deps |-> {} ]

kbd_IrqFirst ==                 \* mutant: request_irq before spin_lock_init
  [ init |-> << Need("major_42", <<>>),
                Need("port_0x65", <<"major_42">>),
                Need("port_0x61", <<"port_0x65", "major_42">>),
                Need("irq_1", <<"port_0x65", "port_0x61", "major_42">>),
                Set("kbd_buf_lock"),
                Try("kbd_cdev") >>,
    exit |-> << "kbd_cdev", "irq_1", "port_0x65", "port_0x61", "major_42" >>,
    needs |-> { Entry("irq_1", {"kbd_buf_lock", "port_0x61"}),
                Entry("kbd_cdev", {"kbd_buf_lock"}) },
    opens |-> {"kbd_cdev"}, pinned |-> TRUE, deps |-> {} ]

\* src/interrupts/kbd.c
kbd ==
  [ init |-> << Need("major_42", <<>>),
                Need("port_0x65", <<"major_42">>),
                Need("port_0x61", <<"port_0x65", "major_42">>),
                Set("kbd_buf_lock"),
                Need("irq_1", <<"port_0x65", "port_0x61", "major_42">>),
                Try("kbd_cdev") >>,
    exit |-> << "kbd_cdev", "irq_1", "port_0x65", "port_0x61", "major_42" >>,
    needs |-> { Entry("irq_1", {"kbd_buf_lock", "port_0x61"}),
                Entry("kbd_cdev", {"kbd_buf_lock"}) },
    opens |-> {"kbd_cdev"}, pinned |-> TRUE, deps |-> {} ]

so2_cdev_NoOwner ==             \* mutant: .owner missing in so2_fops
  [ init |-> << Need("major_42", <<>>), Set("so2_buffer"), Try("so2_cdev") >>,
    exit |-> << "so2_cdev", "major_42" >>,
    needs |-> { Entry("so2_cdev", {"so2_buffer"}) },
    opens |-> {"so2_cdev"}, pinned |-> FALSE, deps |-> {} ]

\* src/device_drivers/kernel/so2_cdev.c
so2_cdev ==
  [ init |-> << Need("major_42", <<>>), Set("so2_buffer"), Try("so2_cdev") >>,
    exit |-> << "so2_cdev", "major_42" >>,
    needs |-> { Entry("so2_cdev", {"so2_buffer"}) },
    opens |-> {"so2_cdev"}, pinned |-> TRUE, deps |-> {} ]

\* src/deferred_work/3-4-5-deferred/kernel/deferred.c; what its exit does to
\* the timer, the work item and the list is in Deferred.
deferred ==
  [ init |-> << Need("major_42", <<>>), Set("deferred_work_and_list"),
                Try("deferred_cdev"), Set("deferred_timer") >>,
    exit |-> << "deferred_cdev", "major_42" >>,
    needs |-> { Entry("deferred_cdev", {"deferred_work_and_list", "deferred_timer"}) },
    opens |-> {"deferred_cdev"}, pinned |-> TRUE, deps |-> {} ]

\* src/networking/1-2-netfilter/kernel/filter.c
filter ==
  [ init |-> << Need("major_42", <<>>), Set("filter_address"), Try("filter_cdev"),
                Need("nf_hook", <<"filter_cdev", "major_42">>) >>,
    exit |-> << "nf_hook", "filter_cdev", "major_42" >>,
    needs |-> { Entry("filter_cdev", {"filter_address"}),
                Entry("nf_hook", {"filter_address"}) },
    opens |-> {"filter_cdev"}, pinned |-> TRUE, deps |-> {} ]

\* src/memory_mapping/kmmap/kmmap.c: proc_create returns NULL when it fails,
\* which the test for a negative value does not see.
kmmap ==
  [ init |-> << Try("proc_my_proc_entry"),
                Need("major_42", <<"proc_my_proc_entry">>),
                Need("kmmap_area", <<"major_42", "proc_my_proc_entry">>),
                Sure("kmmap_reserved_pages"),
                Need("kmmap_cdev", <<"kmmap_area", "major_42", "proc_my_proc_entry">>) >>,
    exit |-> << "kmmap_cdev", "kmmap_reserved_pages", "kmmap_area",
                "major_42", "proc_my_proc_entry" >>,
    needs |-> { Entry("kmmap_cdev", {"kmmap_area", "kmmap_reserved_pages"}) },
    opens |-> {"kmmap_cdev"}, pinned |-> TRUE, deps |-> {} ]

\* src/memory_mapping/vmmap/vmmap.c: makes no proc entry, but removes it.
vmmap ==
  [ init |-> << Need("major_42", <<"proc_my_proc_entry">>),
                Need("vmmap_area", <<"major_42", "proc_my_proc_entry">>),
                Sure("vmmap_reserved_pages"),
                Need("vmmap_cdev", <<"vmmap_area", "major_42", "proc_my_proc_entry">>) >>,
    exit |-> << "vmmap_cdev", "vmmap_reserved_pages", "vmmap_area", "major_42" >>,
    needs |-> { Entry("vmmap_cdev", {"vmmap_area", "vmmap_reserved_pages"}) },
    opens |-> {"vmmap_cdev"}, pinned |-> TRUE, deps |-> {} ]

-----------------------------------------------------------------------------
\* src/block_device_drivers/1-2-3-6-ram-disk/kernel/ram-disk.c: init does not
\* look at the result of create_block_device, whose failure leaves the module
\* loaded ("loaded") with pointers to what its error path has freed.
ram_disk ==
  LET Create(r, undo) == [claim |-> r, fails |-> "loaded", undo |-> undo, own |-> FALSE]
  IN
  [ init |-> << Need("major_240", <<>>),
                Create("ram_disk_data", <<>>),
                Create("ram_disk_queue", <<"ram_disk_data">>),
                Create("ram_disk_gendisk", <<"ram_disk_queue", "ram_disk_data">>),
                Sure("ram_disk_added") >>,
    exit |-> << "ram_disk_added", "ram_disk_gendisk", "ram_disk_queue",
                "ram_disk_data", "major_240" >>,
    needs |-> { Entry("ram_disk_added", {"ram_disk_data", "ram_disk_queue"}) },
    opens |-> {"ram_disk_added"}, pinned |-> TRUE, deps |-> {} ]

\* src/block_device_drivers/4-5-relay-disk/relay-disk.c: blkdev_get_by_path
\* returns an error pointer, which the test for NULL does not see and the test
\* read dereferences.
relay_disk ==
  [ init |-> << [claim |-> "dev_vdb", fails |-> "oops", undo |-> <<>>, own |-> FALSE] >>,
    exit |-> << "dev_vdb" >>,
    needs |-> {}, opens |-> {}, pinned |-> TRUE, deps |-> {} ]

\* src/networking/3-4-tcp-sock/tcp_sock.c: sock_release of the listening
\* socket gives up its port as well.
tcp_sock ==
  [ init |-> << Need("tcp_socket", <<>>),
                Need("tcp_port_60000", <<"tcp_socket">>),
                Check("tcp_listening", <<"tcp_port_60000", "tcp_socket">>),
                Need("tcp_new_sock", <<"tcp_port_60000", "tcp_socket">>),
                Check("tcp_connection", <<"tcp_new_sock", "tcp_port_60000", "tcp_socket">>),
                Check("tcp_peer_name", <<"tcp_new_sock", "tcp_port_60000", "tcp_socket">>) >>,
    exit |-> << "tcp_new_sock", "tcp_port_60000", "tcp_socket" >>,
    needs |-> {}, opens |-> {}, pinned |-> TRUE, deps |-> {} ]

udp_sock_NoError ==             \* mutant: return 0 after out_release
  [ init |-> << Need("udp_socket", <<>>),
                Need("udp_port_60000", <<"udp_socket">>),
                [claim |-> "udp_message", fails |-> "loaded",
                 undo |-> <<"udp_port_60000", "udp_socket">>, own |-> TRUE] >>,
    exit |-> << "udp_port_60000", "udp_socket" >>,
    needs |-> {}, opens |-> {}, pinned |-> TRUE, deps |-> {} ]

udp_sock_Leak ==                \* mutant: goto out for goto out_release
  [ init |-> << Need("udp_socket", <<>>),
                Need("udp_port_60000", <<>>),
                Check("udp_message", <<"udp_port_60000", "udp_socket">>) >>,
    exit |-> << "udp_port_60000", "udp_socket" >>,
    needs |-> {}, opens |-> {}, pinned |-> TRUE, deps |-> {} ]

\* src/networking/5-udp-sock/udp_sock.c
udp_sock ==
  [ init |-> << Need("udp_socket", <<>>),
                Need("udp_port_60000", <<"udp_socket">>),
                Check("udp_message", <<"udp_port_60000", "udp_socket">>) >>,
    exit |-> << "udp_port_60000", "udp_socket" >>,
    needs |-> {}, opens |-> {}, pinned |-> TRUE, deps |-> {} ]

-----------------------------------------------------------------------------
\* src/filesystems/minfs/kernel/minfs.c
minfs ==
  [ init |-> << Need("fs_minfs", <<>>) >>, exit |-> << "fs_minfs" >>,
    needs |-> {}, opens |-> {}, pinned |-> TRUE, deps |-> {} ]

\* A mount: minfs_fill_super, and minfs_put_super at the unmount, which keeps
\* sbi.  iget answers an ERR_PTR without memory, which d_make_root follows;
\* d_make_root puts the inode when it fails, and out_iput puts it again.
minfs_mount ==
  [ init |-> << Need("minfs_sbi", <<>>),
                Check("minfs_block_size", <<"minfs_sbi">>),
                Need("minfs_sbh", <<"minfs_sbi">>),
                Check("minfs_magic", <<"minfs_sbh", "minfs_sbi">>),
                Crash("minfs_inode_in_core"),
                Need("minfs_root_inode", <<"minfs_sbh", "minfs_sbi">>),
                Need("minfs_root_dentry", <<"minfs_root_inode", "minfs_root_inode",
                                            "minfs_sbh", "minfs_sbi">>) >>,
    exit |-> << "minfs_root_dentry", "minfs_root_inode", "minfs_sbh" >>,
    needs |-> {}, opens |-> {}, pinned |-> TRUE, deps |-> {"minfs"} ]

\* src/filesystems/myfs/myfs.c: myfs_fs_type names no owner.
myfs ==
  [ init |-> << Need("fs_myfs", <<>>) >>, exit |-> << "fs_myfs" >>,
    needs |-> {}, opens |-> {}, pinned |-> FALSE, deps |-> {} ]

\* A mount: myfs_fill_super prints the links of the root inode before it looks
\* whether there is one; kill_litter_super at the unmount.
myfs_mount ==
  [ init |-> << [claim |-> "myfs_root_inode", fails |-> "oops", undo |-> <<>>, own |-> FALSE],
                Need("myfs_root_dentry", <<"myfs_root_inode", "myfs_root_inode">>) >>,
    exit |-> << "myfs_root_dentry", "myfs_root_inode" >>,
    needs |-> {}, opens |-> {}, pinned |-> TRUE, deps |-> {"myfs"} ]

\* src/device_model/bex.c: the memory is that of the struct, of its type, which
\* may be missing for all that init cares, and of its name, without which
\* device_register refuses the device.  Nobody puts a device it has refused, and
\* exit leaves the one that it has not on the bus.
bex ==
  [ init |-> << Need("bus_bex", <<>>),
                Need("bex_device_memory", <<"bus_bex">>),
                Check("bex_device_name", <<"bus_bex">>),
                Need("bex_device", <<"bus_bex">>) >>,
    exit |-> << "bus_bex" >>,
    needs |-> {}, opens |-> {}, pinned |-> TRUE, deps |-> {} ]

\* src/device_model/bex_misc.c: init returns 0 whatever becomes of the driver.
bex_misc ==
  [ init |-> << Try("driver_bex_misc") >>, exit |-> << "driver_bex_misc" >>,
    needs |-> {}, opens |-> {}, pinned |-> TRUE, deps |-> {"bex"} ]

\* src/deferred_work/1-2-timer/timer.c
timer ==
  [ init |-> << Set("timer_handler"), Sure("timer_armed") >>,
    exit |-> << "timer_armed" >>,
    needs |-> { Entry("timer_armed", {"timer_handler"}) },
    opens |-> {}, pinned |-> TRUE, deps |-> {} ]

-----------------------------------------------------------------------------
Script ==
  [ kbd |-> kbd, so2_cdev |-> so2_cdev, deferred |-> deferred, filter |-> filter,
    kmmap |-> kmmap, vmmap |-> vmmap, ram_disk |-> ram_disk,
    relay_disk |-> relay_disk, tcp_sock |-> tcp_sock, udp_sock |-> udp_sock,
    minfs |-> minfs, minfs_mount |-> minfs_mount,
    myfs |-> myfs, myfs_mount |-> myfs_mount, bex |-> bex, bex_misc |-> bex_misc,
    timer |-> timer ]

AllDrivers == DOMAIN Script

Claims(d) == {Script[d].init[i].claim : i \in DOMAIN Script[d].init}

\* What lives in a module's own memory and goes with it.
Own(d) == {Script[d].init[i].claim :
             i \in {j \in DOMAIN Script[d].init : Script[d].init[j].own}}

\* Memory that can be claimed anew although some of it was never given back.
Memory == {"minfs_sbi", "bex_device_memory"}

Resources == UNION {Claims(d) : d \in AllDrivers}
=============================================================================
