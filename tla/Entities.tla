------------------------------ MODULE Entities ------------------------------
(***************************************************************************)
(* The records the Erlang part sends to C++, as the constructors of        *)
(* src/c_src/lib/wm_*.cpp read them: the fields in the order in which they *)
(* are taken off the term, each with the decoder of wm_entity_utils.cpp it *)
(* is given to.  A plural is a list; atom_buff is an atom with a term that *)
(* is only copied; executable, resource, timetable and metric are records  *)
(* themselves.  The fields of the Erlang records, src/priv/schema.json,    *)
(* stand in this order too: nothing on the wire names them.                *)
(***************************************************************************)

AccountSchema == <<
    <<"id", "str">>, <<"name", "atom">>, <<"price_list", "str">>,
    <<"users", "strs">>, <<"admins", "strs">>, <<"comment", "str">>,
    <<"revision", "uint64">> >>

BootInfoSchema == <<
    <<"node_host", "str">>, <<"node_port", "uint64">>, <<"parent_host", "str">>,
    <<"parent_port", "uint64">> >>

ClusterSchema == <<
    <<"id", "str">>, <<"name", "str">>, <<"state", "atom">>, <<"manager", "str">>,
    <<"partitions", "strs">>, <<"hooks", "strs">>, <<"scheduler", "uint64">>,
    <<"resources", "resources">>, <<"properties", "atom_buffs">>,
    <<"comment", "str">>, <<"revision", "uint64">> >>

ExecutableSchema == <<
    <<"name", "str">>, <<"path", "str">>, <<"user", "str">>, <<"comment", "str">>,
    <<"revision", "uint64">> >>

GlobalSchema == <<
    <<"name", "atom">>, <<"value", "str">>, <<"comment", "str">>,
    <<"revision", "uint64">> >>

GridSchema == <<
    <<"id", "str">>, <<"name", "str">>, <<"state", "atom">>, <<"manager", "str">>,
    <<"clusters", "strs">>, <<"hooks", "strs">>, <<"scheduler", "uint64">>,
    <<"resources", "resources">>, <<"properties", "atom_buffs">>,
    <<"comment", "str">>, <<"revision", "uint64">> >>

HookSchema == <<
    <<"id", "str">>, <<"name", "str">>, <<"event", "atom">>, <<"state", "atom">>,
    <<"executable", "executable">>, <<"comment", "str">>, <<"revision", "uint64">> >>

ImageSchema == <<
    <<"name", "str">>, <<"id", "str">>, <<"tags", "strs">>, <<"size", "uint64">>,
    <<"kind", "atom">>, <<"status", "str">>, <<"remote_id", "str">>,
    <<"created", "str">>, <<"updated", "str">>, <<"comment", "str">>,
    <<"revision", "uint64">> >>

JobSchema == <<
    <<"id", "str">>, <<"name", "str">>, <<"cluster_id", "str">>,
    <<"nodes", "strs">>, <<"state", "str">>, <<"state_details", "str">>,
    <<"start_time", "str">>, <<"submit_time", "str">>, <<"end_time", "str">>,
    <<"duration", "uint64">>, <<"job_stdin", "str">>, <<"job_stdout", "str">>,
    <<"job_stderr", "str">>, <<"input_files", "strs">>, <<"output_files", "strs">>,
    <<"workdir", "str">>, <<"user_id", "str">>, <<"hooks", "strs">>,
    <<"env", "str_strs">>, <<"deps", "atom_strs">>, <<"account_id", "str">>,
    <<"gang_id", "str">>, <<"execution_path", "str">>, <<"script_content", "str">>,
    <<"request", "resources">>, <<"resources", "resources">>,
    <<"container", "str">>, <<"relocatable", "atom">>,
    <<"keep_resources", "atom">>, <<"checkpoint", "str">>,
    <<"checkpoint_dir", "str">>, <<"checkpoint_interval", "uint64">>,
    <<"last_checkpoint_time", "str">>, <<"exitcode", "uint64">>,
    <<"signal", "uint64">>, <<"priority", "uint64">>, <<"comment", "str">>,
    <<"revision", "uint64">> >>

MetricSchema == <<
    <<"name", "atom">>, <<"value_integer", "uint64">>,
    <<"value_float64", "double">> >>

NodeSchema == <<
    <<"id", "str">>, <<"name", "str">>, <<"host", "str">>,
    <<"api_port", "uint64">>, <<"parent", "str">>, <<"state_power", "atom">>,
    <<"state_alloc", "atom">>, <<"roles", "uint64s">>,
    <<"resources", "resources">>, <<"properties", "atom_buffs">>,
    <<"subdivision", "atom">>, <<"subdivision_id", "str">>, <<"comment", "str">>,
    <<"remote_id", "str">>, <<"is_template", "atom">>, <<"gateway", "str">>,
    <<"prices", "map">>, <<"revision", "uint64">> >>

PartitionSchema == <<
    <<"id", "str">>, <<"name", "str">>, <<"state", "atom">>, <<"manager", "str">>,
    <<"nodes", "strs">>, <<"partitions", "strs">>, <<"hooks", "strs">>,
    <<"scheduler", "uint64">>, <<"jobs_per_node", "uint64">>,
    <<"resources", "resources">>, <<"properties", "atom_buffs">>,
    <<"subdivision", "atom">>, <<"subdivision_id", "str">>, <<"created", "str">>,
    <<"updated", "str">>, <<"external_id", "str">>, <<"addresses", "map">>,
    <<"comment", "str">>, <<"revision", "uint64">> >>

ProcessSchema == <<
    <<"pid", "int64">>, <<"state", "str">>, <<"exitcode", "int64">>,
    <<"signal", "int64">>, <<"comment", "str">> >>

QueueSchema == <<
    <<"id", "uint64">>, <<"name", "str">>, <<"state", "atom">>, <<"jobs", "strs">>,
    <<"nodes", "strs">>, <<"users", "strs">>, <<"admins", "strs">>,
    <<"hooks", "strs">>, <<"priority", "int64">>, <<"comment", "str">>,
    <<"revision", "uint64">> >>

RelocationSchema == <<
    <<"id", "uint64">>, <<"job_id", "str">>, <<"template_node_id", "str">>,
    <<"canceled", "atom">> >>

RemoteSchema == <<
    <<"id", "str">>, <<"account_id", "str">>, <<"default_image_id", "str">>,
    <<"default_flavor_id", "str">>, <<"name", "atom">>, <<"kind", "atom">>,
    <<"location", "str">>, <<"server", "str">>, <<"port", "uint64">>,
    <<"runtime", "map">>, <<"revision", "uint64">> >>

ResourceSchema == <<
    <<"name", "str">>, <<"count", "uint64">>, <<"hooks", "strs">>,
    <<"properties", "atom_buffs">>, <<"prices", "map">>,
    <<"usage_time", "uint64">>, <<"resources", "resources">> >>

RoleSchema == <<
    <<"id", "uint64">>, <<"name", "str">>, <<"services", "uint64s">>,
    <<"comment", "str">>, <<"revision", "uint64">> >>

SchedulerSchema == <<
    <<"id", "uint64">>, <<"name", "str">>, <<"state", "atom">>,
    <<"start_time", "str">>, <<"stop_time", "str">>, <<"run_interval", "uint64">>,
    <<"path", "executable">>, <<"family", "str">>, <<"version", "str">>,
    <<"cu", "uint64">>, <<"comment", "str">>, <<"revision", "uint64">> >>

SchedulerResultSchema == <<
    <<"timetable", "timetables">>, <<"metrics", "metrics">>,
    <<"request_id", "str">>, <<"status", "uint64">>, <<"astro_time", "double">>,
    <<"idle_time", "double">>, <<"work_time", "double">> >>

TimetableSchema == <<
    <<"start_time", "uint64">>, <<"job_id", "str">>, <<"job_nodes", "strs">> >>

UserSchema == <<
    <<"id", "str">>, <<"name", "str">>, <<"acl", "str">>, <<"priority", "int64">>,
    <<"comment", "str">>, <<"revision", "uint64">> >>
Schema == [
    account |-> AccountSchema, boot_info |-> BootInfoSchema, cluster |-> ClusterSchema,
    executable |-> ExecutableSchema, global |-> GlobalSchema, grid |-> GridSchema,
    hook |-> HookSchema, image |-> ImageSchema, job |-> JobSchema, metric |-> MetricSchema,
    node |-> NodeSchema, partition |-> PartitionSchema, process |-> ProcessSchema,
    queue |-> QueueSchema, relocation |-> RelocationSchema, remote |-> RemoteSchema,
    resource |-> ResourceSchema, role |-> RoleSchema, scheduler |-> SchedulerSchema,
    scheduler_result |-> SchedulerResultSchema, timetable |-> TimetableSchema,
    user |-> UserSchema]
=============================================================================
